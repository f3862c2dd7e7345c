--------------------------- MODULE ArpDataProofs ---------------------------
(***************************************************************************)
(* Proofs about what the daemon of Arp knows and says: the cache holds the *)
(* truth about the hosts of the network, keeps it, and every client hears  *)
(* it.                                                                     *)
(***************************************************************************)
EXTENDS ArpProofs, WellFoundedInduction

\* The first part of DataInv, for one frame.
FrameTrue(f) ==
  /\ f.op = "REPLY" => f.tha = MacOf[f.tpa]
  /\ f.op = "REQUEST" => f.esrc = MacOf[f.spa]

FramesTrue == \A i \in DOMAIN pfq : FrameTrue(pfq[i])

\* The second part, for one entry.
EntryTrue(ent, fds, w, m) ==
  /\ ent[m].state = "CONNECTION" => ent[m].ip = NoIp
  /\ ent[m].state # "CONNECTION" => ent[m].ip \in IP
  /\ ent[m].state = "INCOMPLETE" /\ ent[m].domain_socket \in Fd =>
       w[fds[ent[m].domain_socket]] = ent[m].ip
  /\ ent[m].state = "COMPLETE" =>
       ent[m].hw.addr = MacOf[ent[m].ip] /\ ent[m].hw.ifindex = EthIf

EntriesTrue == fault = "none" => \A m \in Linked : EntryTrue(entry, fdtab, want, m)

LEMMA DataInvIs == DataInv <=> FramesTrue /\ EntriesTrue
  BY DEF DataInv, FramesTrue, FrameTrue, EntriesTrue, EntryTrue

(* The frames the hosts send tell the truth about them.                    *)
LEMMA FramesTrueStep == TypeOK /\ FramesTrue /\ [Next]_vars => FramesTrue'
<1> SUFFICES ASSUME TypeOK, FramesTrue, [Next]_vars PROVE FramesTrue'
  OBVIOUS
<1>0. pfq \in Seq(Frame) /\ out \in SUBSET Frame
  BY DEF TypeOK
<1>1. CASE pfq' = pfq
  BY <1>1 DEF FramesTrue
<1>2. CASE pfq' = << >>
  BY <1>2 DEF FramesTrue
<1>3. CASE pfq # << >> /\ pfq' = Tail(pfq)
  <2>1. \A i \in DOMAIN pfq' : i + 1 \in DOMAIN pfq /\ pfq'[i] = pfq[i + 1]
    BY <1>0, <1>3
  <2> QED
    BY <2>1 DEF FramesTrue
<1>4. ASSUME NEW f, FrameTrue(f), Arrive(f) PROVE FramesTrue'
  <2>1. pfq' = Append(pfq, f)
    BY <1>4 DEF Arrive
  <2>2. \A i \in DOMAIN pfq' : pfq'[i] = f \/ (i \in DOMAIN pfq /\ pfq'[i] = pfq[i])
    BY <1>0, <2>1
  <2> QED
    BY <1>4, <2>2 DEF FramesTrue
<1>5. CASE Network
  <2>1. ASSUME NEW p \in IP, NEW a \in IP, NEW i
        PROVE  /\ FrameTrue(RequestFor(a, p, i))
               /\ FrameTrue([RequestFor(a, p, i) EXCEPT !.valid = FALSE])
    BY DEF FrameTrue, RequestFor, build_arp
  <2>2. ASSUME NEW f, NEW i PROVE FrameTrue(ReplyTo(f, i))
    BY DEF FrameTrue, ReplyTo, build_arp
  <2> QED
    BY <1>4, <1>5, <2>1, <2>2 DEF Network, PeerRequest, PeerReply, Junk
<1>6. CASE Packet
  BY <1>1, <1>2, <1>3, <1>6
  DEF Packet, NoFrame, IgnoreFrame, NullMac, handle_req, handle_reqNoMemory, handle_reply, Take,
      Frames, Die
<1>7. CASE Walk
  BY <1>1, <1>2, <1>7
  DEF Walk, SkipEntry, AreqInvalid, IncompleteReadable, AreqCached, AreqMiss, EntriesDone, Die
<1>8. CASE Clients \/ Failure
  BY <1>1, <1>2, <1>8
  DEF Clients, Ask, areq, Connect, SendReq, Receive, TimeOut, ReadFails, Close, Cancel, Kill, Failure, Exit, Die
<1>9. CASE AcceptNoMemory
  BY <1>2, <1>9 DEF AcceptNoMemory, Die
<1> QED
  BY <1>1, <1>5, <1>6, <1>7, <1>8, <1>9
  DEF Next, Daemon, Select, Reported, Accept, NoAccept, vars

(* A call with an open connection keeps the address it asked for.          *)
LEMMA WantKept ==
  ASSUME TypeOK, CallInv, [Next]_vars, NEW c \in Call, ServerOpen(c)
  PROVE  want'[c] = want[c]
<1>1. cst[c] # "idle"
  BY DEF CallInv
<1>2. ASSUME NEW x \in Call, NEW a \in IP \cup {NonInet}, Ask(x, a)
      PROVE  want'[c] = want[c]
  BY <1>1, <1>2 DEF Ask, TypeOK
<1>3. CASE Walk
  BY <1>3 DEF Walk, SkipEntry, AreqInvalid, IncompleteReadable, AreqCached, AreqMiss,
              EntriesDone, clientVars
<1>4. CASE Packet
  BY <1>4 DEF Packet, NoFrame, IgnoreFrame, NullMac, handle_req, handle_reqNoMemory, handle_reply,
              clientVars
<1>5. CASE Network \/ Failure
  BY <1>5 DEF Network, PeerRequest, PeerReply, Junk, Arrive, Failure, Exit, clientVars
<1> QED
  BY <1>2, <1>3, <1>4, <1>5
  DEF Next, Daemon, Clients, areq, Connect, SendReq, Receive, TimeOut, ReadFails, Close, Cancel, Kill,
      Select, Reported, Accept, AcceptNoMemory, NoAccept, vars, clientVars

-----------------------------------------------------------------------------
(* The cache tells the truth.                                              *)
LEMMA EntriesTrueStep ==
  ASSUME TypeOK, ListInv, EntryInv, CallInv, FramesTrue, EntriesTrue, [Next]_vars
  PROVE  EntriesTrue'
<1> USE ArpAssumption
<1>0. /\ Linked \subseteq Node /\ entry \in [Node -> Entry]
      /\ fdtab \in [Fd -> Call \cup {None}] /\ -1 \notin Fd /\ 0 \notin Fd
  BY DEF Linked, TypeOK
<1>1. ASSUME fault = "none", NEW m \in Linked
      PROVE  EntryTrue(entry, fdtab, want, m) /\ EntryOK(entry, fdtab, Linked, m)
  BY <1>1, EntryInvIs DEF EntriesTrue
\* An entry that stays as it is, with its descriptor if it has one.
<1>2. ASSUME fault = "none", NEW m \in Linked, entry'[m] = entry[m],
             entry[m].domain_socket \in Fd =>
               fdtab'[entry[m].domain_socket] = fdtab[entry[m].domain_socket]
      PROVE  EntryTrue(entry', fdtab', want', m)
  <2>1. CASE entry[m].state = "INCOMPLETE" /\ entry[m].domain_socket \in Fd
    <3> DEFINE c == fdtab[entry[m].domain_socket]
    <3>1. c \in Call /\ ServerOpen(c)
      BY <1>0, <1>1, <1>2, <2>1 DEF EntryOK, ServerOpen
    <3>2. want'[c] = want[c]
      BY <3>1, WantKept
    <3> QED
      BY <1>1, <1>2, <2>1, <3>2 DEF EntryTrue
  <2>2. CASE ~(entry[m].state = "INCOMPLETE" /\ entry[m].domain_socket \in Fd)
    BY <1>1, <1>2, <2>2 DEF EntryTrue
  <2> QED
    BY <2>1, <2>2
<1>3. CASE Quiet
  <2>1. ASSUME fault = "none", NEW m \in Linked PROVE EntryTrue(entry', fdtab', want', m)
    BY <1>2, <1>3, <2>1 DEF Quiet
  <2> QED
    BY <1>3, <2>1 DEF Quiet, EntriesTrue, Linked
<1>4. CASE Ruin
  BY <1>4 DEF Ruin, EntriesTrue
<1>5. ASSUME NEW i \in DOMAIN list, NEW ent \in [Node -> Entry], Drops(i, ent),
             fault = "none", fault' = "none"
      PROVE  EntriesTrue'
  <2>1. /\ cur \in Linked /\ entry[cur].domain_socket \in Fd
        /\ fdtab' = [fdtab EXCEPT ![entry[cur].domain_socket] = None]
        /\ Linked' \subseteq Linked
        /\ \A m \in Linked' : m # cur => entry'[m] = entry[m]
        /\ cur \in Linked' =>
             /\ entry'[cur].domain_socket = -1
             /\ \/ entry'[cur].state = entry[cur].state /\ entry'[cur].ip = entry[cur].ip
                \/ entry'[cur].state = "INCOMPLETE" /\ entry'[cur].ip \in IP
    BY <1>5, DropEffect
  <2>2. entry[cur].state # "COMPLETE"
    BY <1>5 DEF Drops
  <2>3. ASSUME NEW m \in Linked' PROVE EntryTrue(entry', fdtab', want', m)
    <3>1. CASE m = cur
      <4>1. EntryTrue(entry, fdtab, want, cur)
        BY <1>1, <1>5, <2>1
      <4> QED
        BY <1>0, <2>1, <2>2, <2>3, <3>1, <4>1 DEF EntryTrue
    <3>2. CASE m # cur
      <4>1. m \in Linked /\ entry'[m] = entry[m] /\ EntryOK(entry, fdtab, Linked, m)
        BY <1>1, <1>5, <2>1, <2>3, <3>2
      <4>2. entry[m].domain_socket \in Fd =>
              fdtab'[entry[m].domain_socket] = fdtab[entry[m].domain_socket]
        BY <1>0, <2>1, <3>2, <4>1 DEF EntryOK
      <4> QED
        BY <1>2, <1>5, <4>1, <4>2
    <3> QED
      BY <3>1, <3>2
  <2> QED
    BY <2>3 DEF EntriesTrue
<1>6. ASSUME NEW i \in DOMAIN list, NEW a \in IP, Marks(i, a), fault = "none"
      PROVE  EntriesTrue'
  <2> DEFINE fd == entry[cur].domain_socket
  <2>1. /\ cur \in Node /\ entry[cur] \in Entry /\ cur \in Linked
        /\ fd \in Fd
    BY <1>0, <1>6 DEF Marks, At, Linked, TypeOK
  <2>2. /\ Linked' = Linked /\ fdtab' = fdtab
        /\ entry'[cur].domain_socket = fd
        /\ entry'[cur].state = "INCOMPLETE" /\ entry'[cur].ip = a
        /\ \A m \in Node : m # cur => entry'[m] = entry[m]
    BY <1>0, <1>6, <2>1 DEF Marks, Linked, Entry
  <2>3. fdtab[fd] \in Call /\ want'[fdtab[fd]] = a
    <3>1. entry[cur].state # "COMPLETE" /\ a = req[fdtab[fd]]
      BY <1>6 DEF Marks, Client
    <3>2. fdtab[fd] \in Call
      BY <1>0, <1>1, <1>6, <2>1, <3>1 DEF EntryOK
    <3>3. want[fdtab[fd]] = a
      <4>1. None \notin IP
        OBVIOUS
      <4> QED
        BY <3>1, <3>2, <4>1 DEF CallInv
    <3>4. want'[fdtab[fd]] = want[fdtab[fd]]
      BY <2>1, <3>2, WantKept DEF ServerOpen
    <3> QED
      BY <3>2, <3>3, <3>4
  <2>4. EntryTrue(entry', fdtab', want', cur)
    BY <2>2, <2>3 DEF EntryTrue
  <2>5. ASSUME NEW m \in Linked, m # cur PROVE EntryTrue(entry', fdtab', want', m)
    BY <1>0, <1>2, <1>6, <2>2, <2>5
  <2> QED
    BY <2>2, <2>4, <2>5 DEF EntriesTrue
<1>7. ASSUME NEW n \in Node, NEW sfd \in Fd \cup {-1}, Connects(n, sfd),
             fault = "none", fault' = "none"
      PROVE  EntriesTrue'
  <2>1. n \notin Linked /\ Linked' = Linked \cup {n}
    BY <1>7, AddLinked DEF Connects
  <2>2. /\ entry'[n].ip = NoIp /\ entry'[n].state = "CONNECTION"
        /\ \A m \in Node : m # n => entry'[m] = entry[m]
    BY <1>0, <1>7 DEF Connects, Blank
  <2>3. EntryTrue(entry', fdtab', want', n)
    BY <2>2 DEF EntryTrue
  <2>4. ASSUME NEW m \in Linked PROVE EntryTrue(entry', fdtab', want', m)
    <3>1. EntryOK(entry, fdtab, Linked, m) /\ EntryTrue(entry, fdtab, want, m)
      BY <1>1, <1>7
    <3>2. entry[m].domain_socket \in Fd => fdtab[entry[m].domain_socket] # None
      BY <3>1 DEF EntryOK
    <3>3. entry[m].domain_socket \in Fd =>
            fdtab'[entry[m].domain_socket] = fdtab[entry[m].domain_socket]
      BY <1>0, <1>7, <3>2 DEF Connects
    <3> QED
      BY <1>0, <1>2, <1>7, <2>1, <2>2, <3>3
  <2> QED
    BY <2>1, <2>3, <2>4 DEF EntriesTrue
<1>8. ASSUME NEW f \in Frame, NEW n \in Node, Learns(f, n), fault = "none", fault' = "none"
      PROVE  EntriesTrue'
  <2>1. n \notin Linked /\ Linked' = Linked \cup {n} /\ fdtab' = fdtab
    BY <1>8, AddLinked DEF Learns
  <2>2. /\ entry'[n].state = "COMPLETE" /\ entry'[n].ip = f.spa
        /\ entry'[n].hw.addr = f.esrc /\ entry'[n].hw.ifindex = f.ifindex
        /\ \A m \in Node : m # n => entry'[m] = entry[m]
    BY <1>0, <1>8 DEF Learns, ReverseEntry, Blank
  <2>3. f.esrc = MacOf[f.spa] /\ f.ifindex = EthIf /\ f.spa \in IP
    <3>1. FrameTrue(f)
      BY <1>8 DEF Learns, Frames, FramesTrue, TypeOK
    <3> QED
      BY <1>8, <3>1, EthMac DEF FrameTrue, Learns, Frame
  <2>4. EntryTrue(entry', fdtab', want', n)
    BY <2>2, <2>3 DEF EntryTrue
  <2>5. ASSUME NEW m \in Linked PROVE EntryTrue(entry', fdtab', want', m)
    BY <1>0, <1>2, <1>8, <2>1, <2>2, <2>5
  <2> QED
    BY <2>1, <2>4, <2>5 DEF EntriesTrue
<1>9. ASSUME NEW f \in Frame, Completes(f), fault = "none" PROVE EntriesTrue'
  <2> DEFINE W == Waiting(f)
  <2>1. /\ Linked' = Linked
        /\ \A d \in Fd : fdtab'[d] = IF \E i \in W : entry[list[i]].domain_socket = d
                                     THEN None ELSE fdtab[d]
        /\ \A m \in Node : IF \E i \in W : list[i] = m
                           THEN /\ entry'[m].ip = entry[m].ip /\ entry'[m].state = "COMPLETE"
                                /\ entry'[m].hw = ReplyHw(f)
                           ELSE entry'[m] = entry[m]
    BY <1>9 DEF Completes, Closed, Completed, Linked
  <2>2. f.tha = MacOf[f.tpa] /\ f.ifindex = EthIf /\ f.tpa \in IP
    <3>1. FrameTrue(f)
      BY <1>9 DEF Completes, Frames, FramesTrue, TypeOK
    <3> QED
      BY <1>9, <3>1, EthMac DEF FrameTrue, Completes, Frame
  <2>3. ReplyHw(f).addr = MacOf[f.tpa] /\ ReplyHw(f).ifindex = EthIf
    BY <2>2 DEF ReplyHw, HwRead
  <2>4. \A i \in W : list[i] \in Linked /\ entry[list[i]].ip = f.tpa
    BY DEF Waiting, Linked
  <2> HIDE DEF W
  <2>5. ASSUME NEW m \in Linked PROVE EntryTrue(entry', fdtab', want', m)
    <3>1. CASE \E i \in W : list[i] = m
      BY <1>0, <2>1, <2>2, <2>3, <2>4, <3>1 DEF EntryTrue
    <3>2. CASE ~ \E i \in W : list[i] = m
      <4>1. entry'[m] = entry[m] /\ EntryOK(entry, fdtab, Linked, m)
        BY <1>0, <1>1, <1>9, <2>1, <3>2
      <4>2. entry[m].domain_socket \in Fd =>
              fdtab'[entry[m].domain_socket] = fdtab[entry[m].domain_socket]
        <5> SUFFICES ASSUME entry[m].domain_socket \in Fd
                     PROVE  fdtab'[entry[m].domain_socket] = fdtab[entry[m].domain_socket]
          OBVIOUS
        <5>1. \A n \in Linked : entry[n].domain_socket = entry[m].domain_socket => n = m
          BY <4>1 DEF EntryOK
        <5>2. ~ \E i \in W : entry[list[i]].domain_socket = entry[m].domain_socket
          BY <2>4, <3>2, <5>1
        <5> QED
          BY <2>1, <5>2
      <4> QED
        BY <1>2, <1>9, <4>1, <4>2
    <3> QED
      BY <3>1, <3>2
  <2> QED
    BY <2>1, <2>5 DEF EntriesTrue
<1> QED
  BY <1>3, <1>4, <1>5, <1>6, <1>7, <1>8, <1>9, NextCases

(* The daemon's invariant of facts.                                        *)
LEMMA DataInvStep ==
  TypeOK /\ ListInv /\ EntryInv /\ CallInv /\ DataInv /\ [Next]_vars => DataInv'
<1>1. FramesTrue' /\ EntriesTrue' => DataInv'
  BY DEF DataInv, FramesTrue, FrameTrue, EntriesTrue, EntryTrue
<1> QED
  BY <1>1, DataInvIs, FramesTrueStep, EntriesTrueStep

-----------------------------------------------------------------------------
(* Every search that would stop somewhere stops at a first position.       *)
LEMMA FirstExists ==
  ASSUME NEW S \in SUBSET Nat, S # {}
  PROVE  \E k \in S : IsFirst(k, S)
<1> DEFINE Less == OpToRel(<, Nat)
<1>1. IsWellFoundedOn(Less, Nat)
  BY NatLessThanWellFounded, Zenon
<1>2. \A x, y \in Nat : <<y, x>> \notin Less => ~(y < x)
  BY Zenon DEF OpToRel
<1> HIDE DEF Less
<1>3. PICK k \in S : \A y \in S : <<y, k>> \notin Less
  BY <1>1, WFMin
<1>4. ASSUME NEW y \in S PROVE k <= y
  <2>1. k \in Nat /\ y \in Nat
    OBVIOUS
  <2>2. ~(y < k)
    BY <1>2, <1>3, <2>1, Zenon
  <2> QED
    BY <2>1, <2>2
<1> QED
  BY <1>3, <1>4 DEF IsFirst

(* When handle_areq finds no completed entry for an address there is none: *)
(* it looks at the first entry with that address only.                     *)
LEMMA MissIsMiss ==
  ASSUME TypeOK, EntriesTrue, NoMixedStates, fault = "none",
         NEW a \in IP, ~ \E k \in DOMAIN list : Cached(a, k),
         NEW m \in Linked, entry[m].ip = a
  PROVE  entry[m].state # "COMPLETE"
<1> SUFFICES ASSUME entry[m].state = "COMPLETE" PROVE FALSE
  OBVIOUS
<1> DEFINE S == getCacheByIpAddr(a)
<1>1. S \in SUBSET Nat /\ S # {} /\ S \subseteq DOMAIN list
  <2>1. DOMAIN list \subseteq Nat
    BY DEF TypeOK
  <2> QED
    BY <2>1 DEF getCacheByIpAddr, Linked
<1>2. PICK k \in S : IsFirst(k, S)
  BY <1>1, FirstExists
<1>3. k \in DOMAIN list /\ list[k] \in Linked /\ entry[list[k]].ip = a
  BY <1>1, <1>2 DEF getCacheByIpAddr, Linked
<1>4. entry[list[k]].state \in EntryState
  BY <1>3 DEF TypeOK, Entry
<1>5. entry[list[k]].state # "CONNECTION"
  BY <1>3, CacheAssumption DEF EntriesTrue, EntryTrue
<1>6. entry[list[k]].state # "INCOMPLETE"
  BY <1>3 DEF NoMixedStates
<1>7. Cached(a, k)
  BY <1>2, <1>4, <1>5, <1>6 DEF Cached, EntryState
<1> QED
  BY <1>3, <1>7

(* An address is never both resolved and being resolved.                   *)
LEMMA NoMixedStep ==
  ASSUME TypeOK, ListInv, EntriesTrue, NoMixedStates, [Next]_vars
  PROVE  NoMixedStates'
<1>0. Linked \subseteq Node /\ entry \in [Node -> Entry]
  BY DEF Linked, TypeOK
<1>1. CASE Quiet
  BY <1>1 DEF Quiet, NoMixedStates, Linked
<1>2. CASE Ruin
  BY <1>2 DEF Ruin, NoMixedStates, Linked
\* One entry becomes incomplete, or loses its descriptor.
<1>3. ASSUME Linked' \subseteq Linked, fault = "none", cur \in Linked,
             \A m \in Linked' : m # cur => entry'[m] = entry[m],
             cur \in Linked' =>
               \/ entry'[cur].state = entry[cur].state /\ entry'[cur].ip = entry[cur].ip
               \/ \E a \in IP : /\ ~ \E k \in DOMAIN list : Cached(a, k)
                                /\ entry[cur].state = "CONNECTION"
                                /\ entry'[cur].state = "INCOMPLETE" /\ entry'[cur].ip = a
      PROVE  NoMixedStates'
  <2> SUFFICES ASSUME NEW m \in Linked', NEW n \in Linked', entry'[m].state = "COMPLETE",
                      entry'[n].state = "INCOMPLETE", entry'[m].ip = entry'[n].ip
               PROVE  FALSE
    BY DEF NoMixedStates
  <2>1. m \in Linked /\ n \in Linked
    BY <1>3
  <2>2. entry[m].state = "COMPLETE" /\ entry[m].ip = entry'[m].ip
    BY <1>3
  <2>3. CASE entry'[n].state = entry[n].state /\ entry'[n].ip = entry[n].ip
    BY <2>1, <2>2, <2>3 DEF NoMixedStates
  <2>4. CASE /\ entry'[n].ip \in IP
             /\ ~ \E k \in DOMAIN list : Cached(entry'[n].ip, k)
    BY <1>3, <2>1, <2>2, <2>4, MissIsMiss
  <2> QED
    BY <1>3, <2>3, <2>4
<1>4. ASSUME NEW i \in DOMAIN list, NEW ent \in [Node -> Entry], Drops(i, ent),
             fault = "none", fault' = "none"
      PROVE  NoMixedStates'
  BY <1>3, <1>4, DropEffect
<1>5. ASSUME NEW i \in DOMAIN list, NEW a \in IP, Marks(i, a), fault = "none"
      PROVE  NoMixedStates'
  <2>1. cur \in Node /\ entry[cur] \in Entry /\ cur \in Linked
    BY <1>0, <1>5 DEF Marks, At, Linked
  <2>2. /\ Linked' = Linked
        /\ entry'[cur].state = "INCOMPLETE" /\ entry'[cur].ip = a
        /\ \A m \in Linked : m # cur => entry'[m] = entry[m]
    BY <1>0, <1>5, <2>1 DEF Marks, Linked, Entry
  <2> QED
    BY <1>3, <1>5, <2>1, <2>2 DEF Marks
<1>6. ASSUME NEW n \in Node, NEW sfd \in Fd \cup {-1}, Connects(n, sfd),
             fault = "none", fault' = "none"
      PROVE  NoMixedStates'
  <2>1. n \notin Linked /\ Linked' = Linked \cup {n}
    BY <1>6, AddLinked DEF Connects
  <2>2. entry'[n].state = "CONNECTION" /\ \A m \in Linked : entry'[m] = entry[m]
    BY <1>0, <1>6, <2>1 DEF Connects, Blank
  <2> QED
    BY <2>1, <2>2 DEF NoMixedStates
<1>7. ASSUME NEW f \in Frame, NEW n \in Node, Learns(f, n), fault = "none", fault' = "none"
      PROVE  NoMixedStates'
  <2>1. n \notin Linked /\ Linked' = Linked \cup {n}
    BY <1>7, AddLinked DEF Learns
  <2>2. /\ entry'[n].state = "COMPLETE" /\ entry'[n].ip = f.spa
        /\ \A m \in Linked : entry'[m] = entry[m]
    BY <1>0, <1>7, <2>1 DEF Learns, ReverseEntry, Blank
  <2>3. \A m \in Linked : entry[m].ip # f.spa
    BY <1>7 DEF Learns, getCacheByIpAddr, Linked
  <2> QED
    BY <2>1, <2>2, <2>3 DEF NoMixedStates
<1>8. ASSUME NEW f \in Frame, Completes(f) PROVE NoMixedStates'
  <2>1. Linked' = Linked
    BY <1>8 DEF Completes, Linked
  <2>2. ASSUME NEW m \in Linked
        PROVE  IF entry[m].ip = f.tpa /\ entry[m].state = "INCOMPLETE"
               THEN entry'[m].ip = f.tpa /\ entry'[m].state = "COMPLETE"
               ELSE entry'[m] = entry[m]
    <3>1. (\E i \in Waiting(f) : list[i] = m)
            <=> entry[m].ip = f.tpa /\ entry[m].state = "INCOMPLETE"
      BY DEF Waiting, Linked
    <3> QED
      BY <1>0, <1>8, <3>1 DEF Completes, Completed
  <2> QED
    BY <2>1, <2>2 DEF NoMixedStates
<1> QED
  BY <1>1, <1>2, <1>4, <1>5, <1>6, <1>7, <1>8, NextCases

(* What a handler says to a client is what the cache or the frame tells.   *)
LEMMA AnswerStep ==
  ASSUME TypeOK, CallInv, FramesTrue, EntriesTrue, AnswerCorrect, [Next]_vars
  PROVE  AnswerCorrect'
<1> USE ArpAssumption
<1>0. ans \in [Call -> Hwaddr] /\ want \in [Call -> IP \cup {NonInet, None}]
  BY DEF TypeOK
<1>1. CASE UNCHANGED <<want, ans>>
  BY <1>1 DEF AnswerCorrect
<1>2. ASSUME NEW c \in Call, NEW a \in IP \cup {NonInet}, Ask(c, a) PROVE AnswerCorrect'
  <2>1. ans' = ans /\ ans[c] = NoHw /\ want' = [want EXCEPT ![c] = a]
    BY <1>2 DEF Ask, CallInv
  <2> QED
    BY <1>0, <2>1 DEF AnswerCorrect
<1>3. ASSUME UNCHANGED want, NEW h,
             \A c \in Call : ans'[c] # ans[c] =>
               /\ ans'[c] = h /\ want[c] \in IP
               /\ h.addr = MacOf[want[c]] /\ h.ifindex = EthIf
      PROVE  AnswerCorrect'
  BY <1>3 DEF AnswerCorrect
<1>4. ASSUME fault = "none", NEW i \in DOMAIN list, NEW k \in DOMAIN list, AreqCached(i, k)
      PROVE  AnswerCorrect'
  <2>1. CASE UNCHANGED ans
    BY <1>1, <1>4, <2>1 DEF AreqCached
  <2>2. CASE ans' = [ans EXCEPT ![Client] = entry[list[k]].hw]
    <3>1. /\ entry[list[k]].state = "COMPLETE" /\ list[k] \in Linked
          /\ entry[list[k]].ip = req[Client]
      BY <1>4 DEF AreqCached, Cached, IsFirst, getCacheByIpAddr, Linked
    <3>2. /\ req[Client] \in IP
          /\ entry[list[k]].hw.addr = MacOf[req[Client]]
          /\ entry[list[k]].hw.ifindex = EthIf
      BY <1>4, <3>1 DEF EntriesTrue, EntryTrue
    <3>3. ASSUME NEW c \in Call, ans'[c] # ans[c]
          PROVE  /\ ans'[c] = entry[list[k]].hw /\ want[c] = req[Client]
      <4>1. c = Client /\ ans'[c] = entry[list[k]].hw
        BY <1>0, <2>2, <3>3
      <4>2. req[c] # None
        BY <3>2, <4>1
      <4> QED
        BY <4>1, <4>2 DEF CallInv
    <3> QED
      BY <1>3, <1>4, <3>2, <3>3 DEF AreqCached
  <2> QED
    BY <1>4, <2>1, <2>2 DEF AreqCached
<1>5. ASSUME fault = "none", NEW f \in Frame, FrameTrue(f), handle_reply(f) PROVE AnswerCorrect'
  <2>1. ReplyHw(f).addr = MacOf[f.tpa] /\ ReplyHw(f).ifindex = EthIf
    <3>1. f.tha = MacOf[f.tpa] /\ f.ifindex = EthIf
      BY <1>5, EthMac DEF FrameTrue, handle_reply
    <3> QED
      BY <3>1 DEF ReplyHw, HwRead
  <2>2. ASSUME NEW c \in Call, ans'[c] # ans[c]
        PROVE  ans'[c] = ReplyHw(f) /\ want[c] = f.tpa
    <3>1. ans' = Answers(f, Waiting(f))
      BY <1>5 DEF handle_reply
    <3>2. /\ ans'[c] = ReplyHw(f)
          /\ \E i \in Waiting(f) : ClientOf(i) = c
      BY <2>2, <3>1 DEF Answers, Reached
    <3>3. PICK i \in Waiting(f) : ClientOf(i) = c
      BY <3>2
    <3>4. /\ list[i] \in Linked /\ entry[list[i]].ip = f.tpa
          /\ entry[list[i]].state = "INCOMPLETE"
      BY DEF Waiting, Linked
    <3>5. entry[list[i]].domain_socket \in Fd /\ fdtab[entry[list[i]].domain_socket] = c
      BY <3>3 DEF ClientOf
    <3> QED
      BY <1>5, <3>2, <3>4, <3>5 DEF EntriesTrue, EntryTrue
  <2>3. f.tpa \in IP /\ UNCHANGED want
    BY <1>5 DEF Frame, handle_reply
  <2> QED
    BY <1>3, <2>1, <2>2, <2>3
<1>6. CASE Daemon
  <2>1. fault = "none"
    BY <1>6 DEF Daemon
  <2>2. CASE Walk
    BY <1>1, <1>4, <2>1, <2>2
    DEF Walk, SkipEntry, AreqInvalid, IncompleteReadable, AreqMiss, EntriesDone, clientVars
  <2>3. CASE Packet
    <3>1. \A i \in DOMAIN pfq : pfq[i] \in Frame /\ FrameTrue(pfq[i])
      BY DEF TypeOK, FramesTrue
    <3> QED
      BY <1>1, <1>5, <2>1, <2>3, <3>1
      DEF Packet, NoFrame, IgnoreFrame, NullMac, handle_req, handle_reqNoMemory, clientVars
  <2> QED
    BY <1>1, <1>6, <2>2, <2>3
    DEF Daemon, Select, Reported, Accept, AcceptNoMemory, NoAccept, clientVars
<1> QED
  BY <1>1, <1>2, <1>6
  DEF Next, Clients, areq, Connect, SendReq, Receive, TimeOut, ReadFails, Close, Cancel, Kill, Network, PeerRequest, PeerReply,
      Junk, Arrive, Failure, Exit, vars, clientVars

-----------------------------------------------------------------------------
\* The parts of ReadyInv: calls, the descriptors select reported, the backlog
\* and the packet socket.
WantsSet == \A c \in Call : cst[c] # "idle" => want[c] # None

EntriesReady ==
  fault = "none" /\ pc = "entries" =>
    \A m \in Linked :
      entry[m].state = "CONNECTION" /\ entry[m].domain_socket \in rset.fds =>
        Readable(entry[m].domain_socket)

SocketsReady ==
  fault = "none" =>
    /\ pc \in {"entries", "accept"} /\ rset.unix => backlog # << >>
    /\ pc # "select" /\ rset.pf => pfq # << >>

LEMMA ReadyInvIs == ReadyInv <=> WantsSet /\ EntriesReady /\ SocketsReady
  BY DEF ReadyInv, WantsSet, EntriesReady, SocketsReady

(* Only Ask takes a call out of idle, and it says what is wanted.          *)
LEMMA WantsStep == TypeOK /\ WantsSet /\ [Next]_vars => WantsSet'
<1> SUFFICES ASSUME TypeOK, WantsSet, [Next]_vars PROVE WantsSet'
  OBVIOUS
<1>0. /\ cst \in [Call -> CallState] /\ want \in [Call -> IP \cup {NonInet, None}]
      /\ None \notin IP \cup {NonInet}
  BY ArpAssumption DEF TypeOK
<1>1. CASE UNCHANGED <<cst, want>>
  BY <1>1 DEF WantsSet
<1>2. ASSUME NEW c \in Call, NEW a \in IP \cup {NonInet}, Ask(c, a) PROVE WantsSet'
  BY <1>0, <1>2 DEF Ask, Return, WantsSet
<1>3. ASSUME NEW c \in Call, areq(c) \/ ReadFails(c) \/ Cancel(c) \/ Kill(c) PROVE WantsSet'
  BY <1>0, <1>3 DEF areq, Connect, InAreq, SendReq, Receive, TimeOut, ReadFails, Close, Cancel, Kill, Return, WantsSet
<1>4. CASE Walk
  BY <1>1, <1>4 DEF Walk, SkipEntry, AreqInvalid, IncompleteReadable, AreqCached, AreqMiss,
                    EntriesDone, clientVars
<1>5. CASE Packet
  BY <1>1, <1>5 DEF Packet, NoFrame, IgnoreFrame, NullMac, handle_req, handle_reqNoMemory,
                    handle_reply, clientVars
<1>6. CASE Network \/ Failure
  BY <1>1, <1>6 DEF Network, PeerRequest, PeerReply, Junk, Arrive, Failure, Exit, clientVars
<1> QED
  BY <1>1, <1>2, <1>3, <1>4, <1>5, <1>6
  DEF Next, Daemon, Clients, Select, Reported, Accept, AcceptNoMemory, NoAccept, vars, clientVars

(* A step of another process leaves a readable connection readable: what   *)
(* was sent stays, and a client that hung up never comes back.             *)
LEMMA ReadableKept ==
  ASSUME TypeOK, WantsSet, Clients, NEW d \in Fd, Readable(d)
  PROVE  Readable(d)'
<1>0. /\ cst \in [Call -> CallState] /\ req \in [Call -> IP \cup {NonInet, None}]
      /\ fdtab \in [Fd -> Call \cup {None}]
  BY DEF TypeOK
<1> DEFINE c == fdtab[d]
<1>1. c \in Call /\ (req[c] # None \/ HungUp(c))
  BY <1>0 DEF Readable
<1>2. fdtab' = fdtab
  BY DEF Clients, Ask, areq, Connect, SendReq, Receive, TimeOut, ReadFails, Close, Cancel, Kill, sockVars
<1>3. HungUp(c) => cst'[c] \in {"ok", "failed"}
  BY <1>0, <1>1 DEF Clients, Ask, areq, Connect, SendReq, Receive, TimeOut, ReadFails, Close, Cancel, Kill,
      InAreq, Return, HungUp
<1>4. req[c] # None => req'[c] # None
  BY <1>0, <1>1 DEF Clients, Ask, areq, Connect, SendReq, Receive, TimeOut, ReadFails, Close, Cancel, Kill, WantsSet
<1> QED
  BY <1>1, <1>2, <1>3, <1>4 DEF Readable, HungUp

(* The walk serves one connection at a time: it reads and closes only that *)
(* of the entry at hand, and leaves the others as select found them.       *)
LEMMA ReadyWalk ==
  ASSUME TypeOK, ListInv, EntryInv, CallInv, EntriesReady, Walk, fault = "none",
         fault' = "none", pc' = "entries"
  PROVE  EntriesReady'
<1> USE ArpAssumption
<1>0. /\ entry \in [Node -> Entry] /\ req \in [Call -> IP \cup {NonInet, None}]
      /\ fdtab \in [Fd -> Call \cup {None}] /\ rset.fds \subseteq Fd /\ -1 \notin Fd
      /\ Linked \subseteq Node
  BY DEF TypeOK, Linked
<1>1. UNCHANGED <<cst, rset>> /\ pc = "entries"
  BY DEF Walk, SkipEntry, AreqInvalid, IncompleteReadable, AreqCached, AreqMiss, EntriesDone,
         At, AtReadable, Step, DropEntry, Die, clientVars
\* Another connection than the one at hand.
<1>2. ASSUME cur \in Linked, entry[cur].domain_socket \in Fd,
             NEW m \in Linked, m # cur, entry[m].state = "CONNECTION",
             NEW d \in rset.fds, d = entry[m].domain_socket,
             \/ fdtab' = fdtab
             \/ fdtab' = [fdtab EXCEPT ![entry[cur].domain_socket] = None],
             UNCHANGED req \/ ReadRequest
      PROVE  Readable(d)'
  <2>1. d \in Fd /\ Readable(d)
    BY <1>0, <1>1, <1>2 DEF EntriesReady
  <2>2. d # entry[cur].domain_socket
    BY <1>0, <1>2, <2>1 DEF EntryInv
  <2>3. fdtab'[d] = fdtab[d] /\ fdtab[d] \in Call
    BY <1>0, <1>2, <2>1, <2>2 DEF Readable
  <2>4. fdtab[d] # Client
    BY <1>0, <1>2, <2>1, <2>2, <2>3 DEF CallInv, Client
  <2>5. req'[fdtab[d]] = req[fdtab[d]]
    BY <1>0, <1>2, <2>3, <2>4 DEF ReadRequest
  <2> QED
    BY <1>1, <2>1, <2>3, <2>5 DEF Readable, HungUp
<1>3. ASSUME NEW i \in DOMAIN list, SkipEntry(i) PROVE EntriesReady'
  BY <1>1, <1>3
  DEF SkipEntry, listVars, clientVars, sockVars, EntriesReady, Linked, Readable, HungUp
<1>4. ASSUME NEW i \in DOMAIN list, NEW ent \in [Node -> Entry], Drops(i, ent),
             UNCHANGED req \/ ReadRequest
      PROVE  EntriesReady'
  <2>1. /\ cur \in Linked /\ entry[cur].domain_socket \in Fd
        /\ fdtab' = [fdtab EXCEPT ![entry[cur].domain_socket] = None]
        /\ Linked' \subseteq Linked
        /\ \A m \in Linked' : m # cur => entry'[m] = entry[m]
        /\ cur \in Linked' => entry'[cur].domain_socket = -1
    BY <1>4, DropEffect
  <2>2. ASSUME NEW m \in Linked', entry'[m].state = "CONNECTION",
               NEW d \in rset.fds, d = entry'[m].domain_socket
        PROVE  Readable(d)'
    <3>1. m # cur /\ m \in Linked /\ entry'[m] = entry[m]
      BY <1>0, <2>1, <2>2
    <3> QED
      BY <1>2, <1>4, <2>1, <2>2, <3>1
  <2> QED
    BY <1>1, <2>2 DEF EntriesReady, Readable, HungUp
<1>5. ASSUME NEW i \in DOMAIN list, NEW a \in IP, Marks(i, a), UNCHANGED req \/ ReadRequest
      PROVE  EntriesReady'
  <2>1. /\ cur \in Linked /\ entry[cur].domain_socket \in Fd /\ fdtab' = fdtab
        /\ Linked' = Linked
    BY <1>0, <1>5 DEF Marks, At, Linked
  <2>2. entry'[cur].state = "INCOMPLETE" /\ \A m \in Linked : m # cur => entry'[m] = entry[m]
    BY <1>0, <1>5, <2>1 DEF Marks, Entry
  <2>3. ASSUME NEW m \in Linked', entry'[m].state = "CONNECTION",
               NEW d \in rset.fds, d = entry'[m].domain_socket
        PROVE  Readable(d)'
    <3>1. m # cur /\ m \in Linked /\ entry'[m] = entry[m]
      BY <2>1, <2>2, <2>3
    <3> QED
      BY <1>2, <1>5, <2>1, <2>3, <3>1
  <2> QED
    BY <1>1, <2>3 DEF EntriesReady, Readable, HungUp
<1>6. UNCHANGED req \/ ReadRequest
  BY DEF Walk, SkipEntry, AreqInvalid, IncompleteReadable, AreqCached, AreqMiss, EntriesDone,
         clientVars
<1>7. ASSUME NEW i \in DOMAIN list, NEW s \in {"CONNECTION", "INCOMPLETE"}, AtReadable(i, s),
             NEW ent \in [Node -> Entry], BeforeDrop(ent), DropEntry(i, ent)
      PROVE  EntriesReady'
  BY <1>4, <1>6, <1>7 DEF Drops, AtReadable
<1>8. ASSUME NEW i \in DOMAIN list, AreqInvalid(i) \/ IncompleteReadable(i) PROVE EntriesReady'
  BY <1>0, <1>7, <1>8 DEF AreqInvalid, IncompleteReadable, BeforeDrop
<1>9. ASSUME NEW i \in DOMAIN list, NEW k \in DOMAIN list, AreqCached(i, k) PROVE EntriesReady'
  BY <1>0, <1>7, <1>9 DEF AreqCached, BeforeDrop, Die
<1>10. ASSUME NEW i \in DOMAIN list, NEW sent \in SUBSET OwnIp, AreqMiss(i, sent)
       PROVE  EntriesReady'
  <2> DEFINE a == req[Client]
             ent == [entry EXCEPT ![cur].state = "INCOMPLETE", ![cur].ip = a]
  <2>1. /\ AtReadable(i, "CONNECTION") /\ a \in IP
        /\ ~ \E k \in DOMAIN list : Cached(a, k)
    BY <1>10 DEF AreqMiss, Supported
  <2>2. CASE Step(i) /\ entry' = ent /\ UNCHANGED <<list, dangling, fault, fdtab>>
    <3>1. Marks(i, a)
      BY <2>1, <2>2 DEF Marks, AtReadable
    <3> QED
      BY <1>5, <1>6, <2>1, <3>1
  <2>3. CASE DropEntry(i, ent)
    <3>1. ent \in [Node -> Entry]
      <4>1. cur \in Node /\ entry[cur] \in Entry
        BY <1>0, <2>1 DEF AtReadable, At, TypeOK
      <4> HIDE DEF a
      <4> QED
        BY <1>0, <2>1, <4>1 DEF Entry, EntryState
    <3>2. BeforeDrop(ent)
      BY <2>1 DEF BeforeDrop, AtReadable
    <3> HIDE DEF ent
    <3> QED
      BY <1>7, <2>1, <2>3, <3>1, <3>2
  <2> QED
    BY <1>10, <2>2, <2>3 DEF AreqMiss
<1> QED
  BY <1>3, <1>8, <1>9, <1>10 DEF Walk, EntriesDone

(* What select reported stays true until the daemon has used it.           *)
LEMMA EntriesReadyStep ==
  ASSUME TypeOK, ListInv, EntryInv, CallInv, WantsSet, EntriesReady, [Next]_vars
  PROVE  EntriesReady'
<1> SUFFICES ASSUME fault' = "none", pc' = "entries" PROVE EntriesReady'
  BY DEF EntriesReady
<1>1. CASE UNCHANGED vars \/ Network
  <2>1. UNCHANGED <<list, entry, fault, fdtab, pc, rset, req, cst>>
    BY <1>1 DEF vars, Network, PeerRequest, PeerReply, Junk, Arrive, listVars, clientVars, sockVars,
                loopVars
  <2> QED
    BY <2>1 DEF EntriesReady, Linked, Readable, HungUp
<1>2. CASE Clients
  <2>1. UNCHANGED <<list, entry, fault, pc, rset>>
    BY <1>2 DEF Clients, Ask, areq, Connect, SendReq, Receive, TimeOut, ReadFails, Close, Cancel, Kill, listVars, loopVars
  <2>2. ASSUME NEW d \in rset.fds, Readable(d) PROVE Readable(d)'
    BY <1>2, <2>2, ReadableKept DEF TypeOK
  <2> QED
    BY <2>1, <2>2 DEF EntriesReady, Linked, Readable, HungUp
<1>3. CASE Select
  <2>1. /\ rset'.fds = {d \in Fd \cap Watched : Readable(d)}
        /\ UNCHANGED <<list, entry, fdtab, req, cst>>
    BY <1>3 DEF Select, Reported, listVars, clientVars, sockVars
  <2> QED
    BY <2>1 DEF EntriesReady, Linked, Readable, HungUp
<1>4. CASE fault = "none" /\ Walk
  BY <1>4, ReadyWalk
<1>5. CASE Packet
  BY <1>5 DEF Packet, NoFrame, IgnoreFrame, NullMac, handle_req, handle_reqNoMemory, handle_reply,
              Take, EndRound, Die
<1> QED
  BY <1>1, <1>2, <1>3, <1>4, <1>5
  DEF Next, Daemon, Accept, AcceptNoMemory, NoAccept, Failure, Exit, Die

LEMMA AppendsSome ==
  ASSUME NEW S, NEW s \in Seq(S), NEW e
  PROVE  Append(s, e) # << >>
<1>1. s \in Seq(S \cup {e})
  OBVIOUS
<1>2. Len(Append(s, e)) = Len(s) + 1 /\ Len(s) \in Nat
  BY <1>1
<1> QED
  BY <1>2

(* Only accept empties the backlog and only recv_frame the packet socket,  *)
(* and both are called once after select reported them.                    *)
LEMMA SocketsReadyStep == TypeOK /\ SocketsReady /\ [Next]_vars => SocketsReady'
<1> SUFFICES ASSUME TypeOK, SocketsReady, [Next]_vars, fault' = "none" PROVE SocketsReady'
  BY DEF SocketsReady
<1>1. ASSUME UNCHANGED <<fault, pc, rset>>, backlog # << >> => backlog' # << >>,
             pfq # << >> => pfq' # << >>
      PROVE  SocketsReady'
  BY <1>1 DEF SocketsReady
<1>2. CASE Clients
  <2>1. \A c \in Call : Append(backlog, c) # << >>
    BY AppendsSome DEF TypeOK
  <2> QED
    BY <1>1, <1>2, <2>1
    DEF Clients, Ask, areq, Connect, SendReq, Receive, TimeOut, ReadFails, Close, Cancel, Kill, listVars, loopVars, sockVars
<1>3. CASE Network
  <2>1. \A f : Append(pfq, f) # << >>
    BY AppendsSome DEF TypeOK
  <2> QED
    BY <1>1, <1>3, <2>1 DEF Network, PeerRequest, PeerReply, Junk, Arrive, listVars, loopVars,
                            sockVars
<1>4. CASE Select
  BY <1>4 DEF Select, Reported, sockVars, SocketsReady
<1>5. CASE fault = "none" /\ Walk
  <2>1. UNCHANGED <<rset, backlog, pfq>> /\ pc = "entries" /\ pc' \in {"entries", "accept"}
    BY <1>5 DEF Walk, SkipEntry, AreqInvalid, IncompleteReadable, AreqCached, AreqMiss, EntriesDone,
                At, AtReadable, Step, DropEntry, Die, sockVars
  <2> QED
    BY <1>5, <2>1 DEF SocketsReady
<1>6. CASE fault = "none" /\ (NoAccept \/ \E n \in Node : Accept(n))
  <2>1. pc = "accept" /\ pc' = "packet" /\ UNCHANGED <<rset, pfq>>
    BY <1>6 DEF NoAccept, Accept
  <2> QED
    BY <1>6, <2>1 DEF SocketsReady
<1>7. CASE Packet
  BY <1>7 DEF Packet, NoFrame, IgnoreFrame, NullMac, handle_req, handle_reqNoMemory, handle_reply,
              Take, EndRound, Die, SocketsReady
<1> QED
  BY <1>1, <1>2, <1>3, <1>4, <1>5, <1>6, <1>7
  DEF Next, Daemon, AcceptNoMemory, Failure, Exit, Die, vars, listVars, loopVars, sockVars

-----------------------------------------------------------------------------
(* The invariant of the daemon, which the theorems below take their parts  *)
(* from: list, entries, connections, facts, answers.                       *)
THEOREM Invariant == Spec => []ArpInv
<1>1. Init => ArpInv
  <2> SUFFICES ASSUME Init PROVE ArpInv
    OBVIOUS
  <2>2. list = << >> /\ Linked = {} /\ cur = NULL
    BY DEF Init, Linked
  <2>3. ListInv /\ EntryInv /\ NoMixedStates
    BY <2>2 DEF ListInv, CursorLinked, EntryInv, NoMixedStates
  <2>4. CallInv
    BY InitCallInv
  <2>5. DataInv /\ AnswerCorrect
    <3>1. DOMAIN pfq = {} /\ \A c \in Call : ans[c] = NoHw
      BY DEF Init
    <3> QED
      BY <2>2, <3>1 DEF DataInv, AnswerCorrect
  <2>6. ReadyInv
    BY <2>2 DEF Init, ReadyInv
  <2> QED
    BY <2>3, <2>4, <2>5, <2>6 DEF ArpInv
<1>2. TypeOK /\ ArpInv /\ [Next]_vars => ArpInv'
  <2> SUFFICES ASSUME TypeOK, ArpInv, [Next]_vars PROVE ArpInv'
    OBVIOUS
  <2>1. /\ TypeOK /\ ListInv /\ EntryInv /\ CallInv /\ DataInv
        /\ AnswerCorrect /\ NoMixedStates /\ ReadyInv
    BY DEF ArpInv
  <2>2. FramesTrue /\ EntriesTrue
    BY <2>1, DataInvIs
  <2>3. TypeOK' /\ ListInv' /\ EntryInv' /\ CallInv' /\ DataInv'
    BY <2>1, TypeOKStep, ListInvStep, EntryInvStep, CallInvStep, DataInvStep
  <2>4. AnswerCorrect'
    BY <2>1, <2>2, AnswerStep
  <2>5. NoMixedStates'
    BY <2>1, <2>2, NoMixedStep
  <2>6. ReadyInv'
    <3>1. WantsSet /\ EntriesReady /\ SocketsReady
      BY <2>1, ReadyInvIs
    <3>2. WantsSet' /\ EntriesReady' /\ SocketsReady'
      BY <2>1, <3>1, WantsStep, EntriesReadyStep, SocketsReadyStep
    <3> QED
      BY <3>2 DEF ReadyInv, WantsSet, EntriesReady, SocketsReady
  <2> QED
    BY <2>3, <2>4, <2>5, <2>6 DEF ArpInv
<1> QED
  BY <1>1, <1>2, TypeCorrect, PTL DEF Spec

(* No client of areq hears anything but the hardware address of the host   *)
(* it asked for.                                                           *)
THEOREM AnswersTrue == Spec => []AnswerCorrect
<1>1. ArpInv => AnswerCorrect
  BY DEF ArpInv
<1> QED
  BY <1>1, Invariant, PTL

(* An address is never both resolved and being resolved, so the searches   *)
(* of handle_areq and handle_req may stop at the first entry.              *)
THEOREM StatesNotMixed == Spec => []NoMixedStates
<1>1. ArpInv => NoMixedStates
  BY DEF ArpInv
<1> QED
  BY <1>1, Invariant, PTL

(* No recv, accept or recvfrom of run_arp blocks its one thread, however   *)
(* the clients, the network and removals by key interfere between select   *)
(* and the call.                                                           *)
THEOREM DaemonNeverBlocks == Spec => []NeverBlocks
<1>1. TypeOK /\ ArpInv => NeverBlocks
  BY DEF ArpInv, ReadyInv, NeverBlocks, AtReadable, At, Linked
<1> QED
  BY <1>1, TypeCorrect, Invariant, PTL

(* A resolved address stays in the cache as it is, although the entries    *)
(* are removed by key: the key of an entry with a connection has interface *)
(* 0, that of a resolved one the index of eth0.                            *)
THEOREM CompleteStays == Spec => CompleteStable
<1>1. ASSUME TypeOK, ArpInv, [Next]_vars, fault' = "none", NEW n \in Linked,
             entry[n].state = "COMPLETE"
      PROVE  n \in Linked' /\ entry'[n] = entry[n]
  <2>0. /\ TypeOK /\ ListInv /\ EntryInv /\ EntriesTrue
        /\ Linked \subseteq Node /\ entry \in [Node -> Entry]
    BY <1>1, DataInvIs DEF ArpInv, TypeOK, Linked
  <2>1. CASE Quiet
    BY <2>1 DEF Quiet, Linked
  <2>2. ASSUME NEW i \in DOMAIN list, NEW ent \in [Node -> Entry], Drops(i, ent),
               fault = "none"
        PROVE  n \in Linked' /\ entry'[n] = entry[n]
    <3>1. cur # n
      BY <1>1, <2>2 DEF Drops
    <3>2. entry[cur].hw.ifindex = 0
      <4>1. cur \in Linked /\ entry[cur].state # "COMPLETE"
        BY <2>2 DEF Drops, At, Linked
      <4> QED
        BY <2>0, <2>2, <4>1 DEF EntryInv
    <3>3. entry[n].hw.ifindex # 0
      BY <1>1, <2>0, <2>2, ArpAssumption DEF EntriesTrue, EntryTrue
    <3>4. /\ \A m \in Linked' : m # cur => entry'[m] = entry[m]
          /\ \A m \in Linked : m \notin Linked' =>
               m = cur \/ entry[m].hw.ifindex = entry[cur].hw.ifindex
      BY <1>1, <2>0, <2>2, DropEffect
    <3> QED
      BY <3>1, <3>2, <3>3, <3>4
  <2>3. ASSUME NEW i \in DOMAIN list, NEW a \in IP, Marks(i, a)
        PROVE  n \in Linked' /\ entry'[n] = entry[n]
    BY <1>1, <2>0, <2>3 DEF Marks, Linked
  <2>4. ASSUME NEW m \in Node, addToCache(m), fault = "none", NEW e,
               entry' = [entry EXCEPT ![m] = e]
        PROVE  n \in Linked' /\ entry'[n] = entry[n]
    <3>1. m \notin Linked /\ Linked' = Linked \cup {m}
      BY <1>1, <2>0, <2>4, AddLinked
    <3> QED
      BY <2>0, <2>4, <3>1
  <2>5. ASSUME NEW f \in Frame, Completes(f) PROVE n \in Linked' /\ entry'[n] = entry[n]
    <3>1. Linked' = Linked
      BY <2>5 DEF Completes, Linked
    <3>2. ~ \E i \in Waiting(f) : list[i] = n
      BY <1>1 DEF Waiting
    <3> QED
      BY <2>0, <2>5, <3>1, <3>2 DEF Completes, Completed
  <2> QED
    BY <1>1, <2>0, <2>1, <2>2, <2>3, <2>4, <2>5, NextCases DEF Ruin, Connects, Learns
<1>2. TypeOK /\ ArpInv /\ [Next]_vars =>
        [fault' = "none" => \A n \in Linked : entry[n].state = "COMPLETE" =>
           n \in Linked' /\ entry'[n] = entry[n]]_vars
  BY <1>1
<1> QED
  BY <1>2, TypeCorrect, Invariant, PTL DEF Spec, CompleteStable
=============================================================================
