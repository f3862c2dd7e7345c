--------------------------------- MODULE Arp ---------------------------------
(***************************************************************************)
(* One ARP daemon (arp.c) on its cache, with the clients that call areq    *)
(* (api.c) over its Unix domain socket and the hosts on its Ethernet.      *)
(*                                                                         *)
(* The daemon is one thread: each round of run_arp waits in select, walks  *)
(* the cache and serves every connection that select reported, accepts one *)
(* connection and handles one frame.  Each of these is a step here, so     *)
(* clients and the network move between any two of them and what select    *)
(* reported may be stale when it is used.                                  *)
(*                                                                         *)
(* A failure that stops the daemon is recorded in fault: "uaf" and "cycle" *)
(* come from CacheList; "sigpipe", "nullmac", "nomem" and "exit" end the   *)
(* process.  calloc may fail, and does when all of Node is in the list.    *)
(***************************************************************************)
EXTENDS CacheList

CONSTANTS
  Call,      \* the calls of areq, each with a connection of its own
  None,      \* no call, no request
  NonInet,   \* an address of a family other than AF_INET
  Fd,        \* the descriptors the daemon has left for connections
  Backlog,   \* the argument of listen(2), arp.c:327
  RcvQueue,  \* how many frames the packet socket holds
  OwnIp,     \* the addresses of this host's devices, all of them of eth0
  MacOf,     \* the hardware address of every host
  EthIf,     \* the interface index of eth0
  OtherIf    \* the indices of interfaces that get_hw_addrs skips

ASSUME ArpAssumption ==
  /\ None \notin Call /\ None \notin IP /\ NonInet \notin IP /\ None # NonInet
  /\ Fd \subseteq Nat \ {0}
  /\ Backlog \in Nat /\ RcvQueue \in Nat
  /\ OwnIp \subseteq IP /\ OwnIp # {} /\ MacOf \in [IP -> Mac]
  /\ \A p, q \in OwnIp : MacOf[p] = MacOf[q]
  /\ EthIf \in Nat \ {0} /\ OtherIf \subseteq Nat \ {EthIf}
  /\ NULL \notin Mac /\ None \notin Mac

VARIABLES
  cst,      \* where each call of areq is
  want,     \* the address each call asks for
  req,      \* the request in the daemon's end of each connection, or None
  ans,      \* the answer the daemon sent on each connection, or NoHw
  backlog,  \* the connections that wait to be accepted
  fdtab,    \* the connection behind each descriptor of the daemon, or None
  pc,       \* where run_arp is in its loop
  cur,      \* the local variable current: the entry the walk is at
  rset,     \* what select reported
  pfq,      \* the frames in the packet socket
  out       \* the frames the daemon has sent

clientVars == <<cst, want, req, ans>>
sockVars == <<backlog, fdtab>>
loopVars == <<pc, cur, rset>>
vars == <<listVars, clientVars, sockVars, loopVars, pfq, out>>

-----------------------------------------------------------------------------
\* areq is in its socket calls; "late" is select having found nothing and the
\* connection not closed yet.  The thread of a cancelled call is gone, and its
\* socket stays open.  A call has failed when areq returned 0 or its process
\* ended: the connection is closed and nobody has the answer.
InAreq == {"connecting", "connected", "waiting", "late"}
CallState == {"idle", "cancelled", "ok", "failed"} \cup InAreq

\* An ARP frame: what recv_frame returns of the Ethernet header, the message
\* and the interface it came from.  valid stands for the length checks of
\* run_arp and for valid_arp, which frames built by build_arp pass.
Frame == [op : {"REQUEST", "REPLY"}, esrc : Mac,
          sha : Mac, spa : IP, tha : Mac \cup {NoMac}, tpa : IP,
          ifindex : {EthIf} \cup OtherIf, valid : BOOLEAN]

build_arp(op, esrc, sha, spa, tha, tpa, ifindex) ==
  [op |-> op, esrc |-> esrc, sha |-> sha, spa |-> spa, tha |-> tha, tpa |-> tpa,
   ifindex |-> ifindex, valid |-> TRUE]

\* The broadcast of handle_areq by the host with address p.
RequestFor(a, p, ifindex) ==
  build_arp("REQUEST", MacOf[p], MacOf[p], p, NoMac, a, ifindex)

\* The answer of handle_req to request f by the host that has its target
\* address: what was asked for goes into the target fields.
ReplyTo(f, ifindex) ==
  build_arp("REPLY", MacOf[f.tpa], f.esrc, f.tpa, MacOf[f.tpa], f.tpa, ifindex)

TypeOK ==
  /\ list \in Seq(Node)
  /\ entry \in [Node -> Entry]
  /\ dangling \in BOOLEAN
  /\ fault \in {"none", "uaf", "cycle", "sigpipe", "nullmac", "nomem", "exit"}
  /\ cst \in [Call -> CallState]
  /\ want \in [Call -> IP \cup {NonInet, None}]
  /\ req \in [Call -> IP \cup {NonInet, None}]
  /\ ans \in [Call -> Hwaddr]
  /\ backlog \in Seq(Call)
  /\ fdtab \in [Fd -> Call \cup {None}]
  /\ pc \in {"select", "entries", "accept", "packet"}
  /\ cur \in Node \cup {NULL}
  /\ rset \in [fds : SUBSET Fd, unix : BOOLEAN, pf : BOOLEAN]
  /\ pfq \in Seq(Frame)
  /\ out \in SUBSET Frame

NoneReady == [fds |-> {}, unix |-> FALSE, pf |-> FALSE]

Init ==
  /\ list = << >>
  /\ entry = [n \in Node |-> Blank]
  /\ dangling = FALSE
  /\ fault = "none"
  /\ cst = [c \in Call |-> "idle"]
  /\ want = [c \in Call |-> None]
  /\ req = [c \in Call |-> None]
  /\ ans = [c \in Call |-> NoHw]
  /\ backlog = << >>
  /\ fdtab = [d \in Fd |-> None]
  /\ pc = "select"
  /\ cur = NULL
  /\ rset = NoneReady
  /\ pfq = << >>
  /\ out = {}

-----------------------------------------------------------------------------
(* The clients: areq of api.c, and the process that called it.             *)

ProcessRuns == fault \notin {"sigpipe", "nullmac", "nomem", "exit"}

\* The client's end of the connection is closed.
HungUp(c) == cst[c] \in {"ok", "failed"}

\* The daemon's end of the connection is open, accepted or not.
ServerOpen(c) ==
  \/ \E i \in DOMAIN backlog : backlog[i] = c
  \/ \E d \in Fd : fdtab[d] = c

Return(c, how) == cst' = [cst EXCEPT ![c] = how]

\* areq is called; without a socket it fails at once.
Ask(c, a) ==
  /\ cst[c] = "idle"
  /\ want' = [want EXCEPT ![c] = a]
  /\ \E how \in {"connecting", "failed"} : Return(c, how)
  /\ UNCHANGED <<listVars, req, ans, sockVars, loopVars, pfq, out>>

\* connect: refused without a daemon, blocks while the backlog is full.
Connect(c) ==
  /\ cst[c] = "connecting"
  /\ \/ /\ ~ProcessRuns
        /\ Return(c, "failed")
        /\ UNCHANGED backlog
     \/ /\ ProcessRuns /\ Len(backlog) <= Backlog
        /\ Return(c, "connected")
        /\ backlog' = Append(backlog, c)
  /\ UNCHANGED <<listVars, want, req, ans, fdtab, loopVars, pfq, out>>

\* send of the request; on a connection the daemon has closed it raises
\* SIGPIPE, which ends the calling process.
SendReq(c) ==
  /\ cst[c] = "connected"
  /\ \/ /\ ServerOpen(c)
        /\ Return(c, "waiting")
        /\ req' = [req EXCEPT ![c] = want[c]]
     \/ /\ ~ServerOpen(c)
        /\ Return(c, "failed")
        /\ UNCHANGED req
  /\ UNCHANGED <<listVars, want, ans, sockVars, loopVars, pfq, out>>

\* A slip: less than an answer is taken for one.
ReceiveAny(c) ==
  /\ cst[c] = "waiting" /\ (ans[c] # NoHw \/ ~ServerOpen(c))
  /\ Return(c, "ok")
  /\ UNCHANGED <<listVars, want, req, ans, sockVars, loopVars, pfq, out>>

\* select found the connection readable: recv gets the answer, or less than
\* an answer when the daemon closed the connection without one.
Receive(c) ==
  /\ cst[c] = "waiting"
  /\ \/ ans[c] # NoHw /\ Return(c, "ok")
     \/ ans[c] = NoHw /\ ~ServerOpen(c) /\ Return(c, "failed")
  /\ UNCHANGED <<listVars, want, req, ans, sockVars, loopVars, pfq, out>>

\* A slip: select is called without a timeout.
TimeOutNever(c) == FALSE /\ UNCHANGED vars

\* select found nothing for 2 seconds.
TimeOut(c) ==
  /\ cst[c] = "waiting" /\ ans[c] = NoHw /\ ServerOpen(c)
  /\ Return(c, "late")
  /\ UNCHANGED <<listVars, want, req, ans, sockVars, loopVars, pfq, out>>

\* select or recv fails, an answer being there or not.
ReadFails(c) ==
  /\ cst[c] = "waiting"
  /\ Return(c, "late")
  /\ UNCHANGED <<listVars, want, req, ans, sockVars, loopVars, pfq, out>>

\* CLOSE_SOCK: the connection is closed, whatever came in the meantime.
Close(c) ==
  /\ cst[c] = "late"
  /\ Return(c, "failed")
  /\ UNCHANGED <<listVars, want, req, ans, sockVars, loopVars, pfq, out>>

\* destroy_pingt cancels the thread that is in areq.
Cancel(c) ==
  /\ cst[c] \in InAreq
  /\ Return(c, "cancelled")
  /\ UNCHANGED <<listVars, want, req, ans, sockVars, loopVars, pfq, out>>

\* The process of the call ends, and its socket is closed.
Kill(c) ==
  /\ cst[c] \in InAreq \cup {"cancelled"}
  /\ Return(c, "failed")
  /\ UNCHANGED <<listVars, want, req, ans, sockVars, loopVars, pfq, out>>

-----------------------------------------------------------------------------
(* The network: hosts that run the same daemon, on a network that loses,   *)
(* delays and repeats frames.                                              *)

\* After a fault no frame is read any more.
Arrive(f) ==
  /\ fault = "none" /\ Len(pfq) < RcvQueue
  /\ pfq' = Append(pfq, f)
  /\ UNCHANGED <<listVars, clientVars, sockVars, loopVars, out>>

\* The broadcast of another host that looks for address a.
PeerRequest(p, a, ifindex) == p \notin OwnIp /\ Arrive(RequestFor(a, p, ifindex))

\* The answer of the host that has the address this daemon asked for.
PeerReply(f, ifindex) ==
  /\ f.op = "REQUEST" /\ f.tpa \notin OwnIp
  /\ Arrive(ReplyTo(f, ifindex))

\* A frame of the daemon's type that is too short or not its ARP: dropped
\* before its interface is looked at.
Junk(p) ==
  /\ p \notin OwnIp
  /\ Arrive([RequestFor(p, p, EthIf) EXCEPT !.valid = FALSE])

-----------------------------------------------------------------------------
(* The daemon.                                                             *)

\* The process ends: its memory is gone and the kernel closes its sockets.
Die(why) ==
  /\ fault' = why
  /\ list' = << >> /\ dangling' = FALSE /\ entry' = [n \in Node |-> Blank]
  /\ backlog' = << >> /\ fdtab' = [d \in Fd |-> None]
  /\ pc' = "select" /\ cur' = NULL /\ rset' = NoneReady
  /\ pfq' = << >>

\* A descriptor is readable: a request was not read, or the client hung up.
Readable(d) ==
  /\ fdtab[d] # None
  /\ req[fdtab[d]] # None \/ HungUp(fdtab[d])

\* A slip: only connections without a request are watched.
WatchedConnections ==
  {entry[n].domain_socket : n \in {m \in Linked : entry[m].state = "CONNECTION"}}

\* The descriptors run_arp puts into the set for select, all up to maxfd.
\* FD_SET(-1) sets a bit beyond it.
Watched == {entry[n].domain_socket : n \in {m \in Linked : entry[m].state # "COMPLETE"}}

\* select returns with these descriptors ready; it waits while none is.
Reported(fds, unix) ==
  LET ready == [fds |-> fds, unix |-> unix, pf |-> pfq # << >>]
  IN /\ pc = "select"
     /\ ready # NoneReady
     /\ rset' = ready
     /\ pc' = "entries"
     /\ cur' = IF list = << >> THEN NULL ELSE list[1]
     /\ UNCHANGED <<listVars, clientVars, sockVars, pfq, out>>

\* Slips: the listening socket is not put into the set; the set is used as if
\* select had not changed it.
SelectWithoutListener == Reported({d \in Fd \cap Watched : Readable(d)}, FALSE)
SelectIgnored == Reported(Fd \cap Watched, backlog # << >>)

Select == Reported({d \in Fd \cap Watched : Readable(d)}, backlog # << >>)

\* The walk is at list[i].
At(i) == pc = "entries" /\ i \in DOMAIN list /\ list[i] = cur

\* The walk has an entry of state s whose descriptor select reported.
AtReadable(i, s) ==
  /\ At(i)
  /\ entry[cur].state = s
  /\ entry[cur].domain_socket \in rset.fds

Step(i) == cur' = NextOf(i) /\ UNCHANGED <<pc, rset>>

SkipEntry(i) ==
  /\ At(i)
  /\ \/ entry[cur].state = "COMPLETE"
     \/ entry[cur].domain_socket \notin rset.fds
  /\ Step(i)
  /\ UNCHANGED <<listVars, clientVars, sockVars, pfq, out>>

\* Slips: the walk stays at the entry it removes; the entry keeps the
\* descriptor that was closed.
DropEntryAndStay(i, ent) ==
  LET closed == [ent EXCEPT ![cur].domain_socket = -1]
  IN /\ UNCHANGED loopVars
     /\ fdtab' = [fdtab EXCEPT ![ent[cur].domain_socket] = None]
     /\ removeFromCache(closed, closed[cur])

DropEntryKeepFd(i, ent) ==
  /\ Step(i)
  /\ fdtab' = [fdtab EXCEPT ![ent[cur].domain_socket] = None]
  /\ removeFromCache(ent, ent[cur])

\* What run_arp does when handle_areq returned 0, with the entries holding
\* ent: move on, close the descriptor, remove the entry from the cache.
DropEntry(i, ent) ==
  LET closed == [ent EXCEPT ![cur].domain_socket = -1]
  IN /\ Step(i)
     /\ fdtab' = [fdtab EXCEPT ![ent[cur].domain_socket] = None]
     /\ removeFromCache(closed, closed[cur])

\* The connection of the entry the walk is at.
Client == fdtab[entry[cur].domain_socket]

ReadRequest == req' = [req EXCEPT ![Client] = None]

\* The search of handle_areq found a completed entry, list[k].
Cached(a, k) ==
  /\ IsFirst(k, getCacheByIpAddr(a))
  /\ entry[list[k]].state = "COMPLETE"

\* A slip: the family of the address is not looked at.
SupportedAny(a) == a # None

\* The switch on the family of the address.
Supported(a) == a \in IP

\* handle_areq reads the end of the connection, or a request it does not
\* implement.  With neither a request nor a hang-up, recv would wait.
AreqInvalid(i) ==
  /\ AtReadable(i, "CONNECTION")
  /\ \/ req[Client] # None /\ ~Supported(req[Client])
     \/ req[Client] = None /\ HungUp(Client)
  /\ ReadRequest
  /\ DropEntry(i, entry)
  /\ UNCHANGED <<cst, want, ans, backlog, pfq, out>>

\* handle_areq answers from the cache; send to a client that has hung up
\* raises SIGPIPE.
AreqCached(i, k) ==
  /\ AtReadable(i, "CONNECTION")
  /\ Cached(req[Client], k)
  /\ ReadRequest
  /\ \/ /\ ~HungUp(Client)
        /\ ans' = [ans EXCEPT ![Client] = entry[list[k]].hw]
        /\ DropEntry(i, entry)
        /\ UNCHANGED <<backlog, pfq>>
     \/ /\ HungUp(Client)
        /\ Die("sigpipe")
        /\ UNCHANGED ans
  /\ UNCHANGED <<cst, want, out>>

\* handle_areq makes the connection an incomplete entry and broadcasts the
\* request on every device; it stops at the first send that fails.
AreqMiss(i, sent) ==
  LET a == req[Client]
      ent == [entry EXCEPT ![cur].state = "INCOMPLETE", ![cur].ip = a]
  IN /\ AtReadable(i, "CONNECTION")
     /\ Supported(a)
     /\ ~ \E k \in DOMAIN list : Cached(a, k)
     /\ ReadRequest
     /\ out' = out \cup {RequestFor(a, p, EthIf) : p \in sent}
     /\ \/ /\ sent = OwnIp
           /\ Step(i)
           /\ entry' = ent
           /\ UNCHANGED <<list, dangling, fault, fdtab>>
        \/ /\ sent # OwnIp
           /\ DropEntry(i, ent)
     /\ UNCHANGED <<cst, want, ans, backlog, pfq>>

\* A readable incomplete entry: its client hung up (or wrote again).
IncompleteReadable(i) ==
  /\ AtReadable(i, "INCOMPLETE")
  /\ DropEntry(i, entry)
  /\ UNCHANGED <<clientVars, backlog, pfq, out>>

EntriesDone ==
  /\ pc = "entries" /\ cur = NULL
  /\ pc' = "accept"
  /\ UNCHANGED <<listVars, clientVars, sockVars, cur, rset, pfq, out>>

FreeFd == {d \in Fd : fdtab[d] = None}

\* What follows accept in run_arp with its result sfd: an entry that is
\* linked already when getCacheBySocket finds one, or else a new one.
AddConnection(sfd, n) ==
  /\ \/ /\ getCacheBySocket(sfd) = {}
        /\ n \notin Linked
        /\ entry' = [entry EXCEPT ![n] = [Blank EXCEPT !.domain_socket = sfd]]
     \/ /\ \E i \in DOMAIN list : n = list[i] /\ IsFirst(i, getCacheBySocket(sfd))
        /\ entry' = [entry EXCEPT ![n].domain_socket = sfd, ![n].state = "CONNECTION"]
  /\ addToCache(n)

\* accept takes the lowest free descriptor; without one it fails, the
\* connection stays in the backlog and sfd is -1.
Accept(n) ==
  /\ pc = "accept" /\ rset.unix /\ backlog # << >>
  /\ pc' = "packet"
  /\ \/ \E d \in FreeFd :
          /\ \A x \in FreeFd : d <= x
          /\ fdtab' = [fdtab EXCEPT ![d] = Head(backlog)]
          /\ backlog' = Tail(backlog)
          /\ AddConnection(d, n)
     \/ /\ FreeFd = {}
        /\ AddConnection(-1, n)
        /\ UNCHANGED sockVars
  /\ UNCHANGED <<clientVars, cur, rset, pfq, out>>

\* calloc has no memory for the entry of a new connection: the null pointer
\* is written through.
AcceptNoMemory ==
  /\ pc = "accept" /\ rset.unix /\ backlog # << >>
  /\ FreeFd # {} \/ getCacheBySocket(-1) = {}
  /\ Die("nomem")
  /\ UNCHANGED <<clientVars, out>>

NoAccept ==
  /\ pc = "accept" /\ ~rset.unix
  /\ pc' = "packet"
  /\ UNCHANGED <<listVars, clientVars, sockVars, cur, rset, pfq, out>>

\* recv_frame is to return f.
Frames(f) == pc = "packet" /\ rset.pf /\ pfq # << >> /\ f = Head(pfq)

\* The round is over: nothing reads rset before FD_ZERO clears it.
EndRound == pc' = "select" /\ rset' = NoneReady /\ UNCHANGED cur

Take(f) == Frames(f) /\ pfq' = Tail(pfq) /\ EndRound

NoFrame ==
  /\ pc = "packet" /\ ~rset.pf
  /\ EndRound
  /\ UNCHANGED <<listVars, clientVars, sockVars, pfq, out>>

valid_arp(f) == f.valid

\* One of the devices has the address.
isDestination(a) == a \in OwnIp

\* Not a valid frame, or a request for another host.
IgnoreFrame(f) ==
  /\ Take(f)
  /\ ~valid_arp(f) \/ (f.op = "REQUEST" /\ ~isDestination(f.tpa))
  /\ UNCHANGED <<listVars, clientVars, sockVars, out>>

\* The address of the device with that index: all devices are of eth0.
mac_by_ifindex(i) == IF i = EthIf THEN MacOf[CHOOSE p \in OwnIp : TRUE] ELSE NULL

\* A valid frame for which a handler calls mac_by_ifindex on an interface
\* that is not in the device list: the null result is dereferenced.
NullMac(f) ==
  /\ Frames(f)
  /\ valid_arp(f) /\ (f.op = "REPLY" \/ isDestination(f.tpa))
  /\ mac_by_ifindex(f.ifindex) = NULL
  /\ Die("nullmac")
  /\ UNCHANGED <<clientVars, out>>

\* A slip: the address of the interface is taken for the sender's.
ReverseEntryOwnMac(f) ==
  [Blank EXCEPT !.ip = f.spa, !.state = "COMPLETE",
                !.hw = [ifindex |-> f.ifindex, ifhatype |-> ARPHRD_ETHER,
                        ifaddr |-> mac_by_ifindex(f.ifindex), hatype |-> ARPHRD_ETHER,
                        halen |-> ETH_ALEN, addr |-> mac_by_ifindex(f.ifindex)]]

\* The entry handle_req makes of the sender of a request.
ReverseEntry(f) ==
  [Blank EXCEPT !.ip = f.spa, !.state = "COMPLETE",
                !.hw = [ifindex |-> f.ifindex, ifhatype |-> ARPHRD_ETHER,
                        ifaddr |-> mac_by_ifindex(f.ifindex), hatype |-> ARPHRD_ETHER,
                        halen |-> ETH_ALEN, addr |-> f.esrc]]

\* A slip: the sender is cached unless a completed entry has its address.
handle_reqUnlessComplete(f, n) ==
  /\ Take(f)
  /\ valid_arp(f) /\ f.op = "REQUEST" /\ isDestination(f.tpa)
  /\ mac_by_ifindex(f.ifindex) # NULL
  /\ out' = out \cup {ReplyTo(f, EthIf)}
  /\ \A i \in getCacheByIpAddr(f.spa) : entry[list[i]].state # "COMPLETE"
  /\ n \notin Linked
  /\ entry' = [entry EXCEPT ![n] = ReverseEntry(f)]
  /\ addToCache(n)
  /\ UNCHANGED <<clientVars, sockVars>>

\* A request for an address of this host: reply, and cache the sender unless
\* any entry has its address.
handle_req(f, n) ==
  /\ Take(f)
  /\ valid_arp(f) /\ f.op = "REQUEST" /\ isDestination(f.tpa)
  /\ mac_by_ifindex(f.ifindex) # NULL
  /\ \E sent \in SUBSET {ReplyTo(f, EthIf)} : out' = out \cup sent
  /\ \/ /\ getCacheByIpAddr(f.spa) = {}
        /\ n \notin Linked
        /\ entry' = [entry EXCEPT ![n] = ReverseEntry(f)]
        /\ addToCache(n)
     \/ /\ getCacheByIpAddr(f.spa) # {}
        /\ UNCHANGED listVars
  /\ UNCHANGED <<clientVars, sockVars>>

\* calloc has no memory for the sender: handle_req has replied and exits.
handle_reqNoMemory(f) ==
  /\ Frames(f)
  /\ valid_arp(f) /\ f.op = "REQUEST" /\ isDestination(f.tpa)
  /\ mac_by_ifindex(f.ifindex) # NULL
  /\ \E sent \in SUBSET {ReplyTo(f, EthIf)} : out' = out \cup sent
  /\ getCacheByIpAddr(f.spa) = {}
  /\ Die("nomem")
  /\ UNCHANGED clientVars

\* The address handle_reply reads off a reply: it sets sll_hatype twice and
\* sll_ifhatype never.
HwRead(f, addr) ==
  [ifindex |-> f.ifindex, ifhatype |-> 0, ifaddr |-> mac_by_ifindex(f.ifindex),
   hatype |-> htons_ARPHRD_ETHER, halen |-> ETH_ALEN, addr |-> addr]

\* A slip: the sender's address is taken for the answer.
ReplyHwOfSender(f) == HwRead(f, f.sha)

ReplyHw(f) == HwRead(f, f.tha)

\* The entries that wait for the address of reply f.
Waiting(f) == {i \in DOMAIN list : /\ entry[list[i]].ip = f.tpa
                                   /\ entry[list[i]].state = "INCOMPLETE"}

\* The connection of list[i]; None for a descriptor that is not open.
ClientOf(i) == IF entry[list[i]].domain_socket \in Fd
               THEN fdtab[entry[list[i]].domain_socket] ELSE None

\* The entries among W whose client has hung up: send raises SIGPIPE there.
Broken(W) == {i \in W : ClientOf(i) # None /\ HungUp(ClientOf(i))}

\* Those the loop reaches before the first broken one, all without one.
Reached(W) == {i \in W : \A j \in Broken(W) : i < j}

\* What the loop leaves behind: the answers, and the completed entries.
Answers(f, W) ==
  [c \in Call |-> IF \E i \in Reached(W) : ClientOf(i) = c THEN ReplyHw(f) ELSE ans[c]]

Completed(f, W) ==
  [n \in Node |-> IF \E i \in W : list[i] = n
                  THEN [ip |-> entry[n].ip, domain_socket |-> -1,
                        state |-> "COMPLETE", hw |-> ReplyHw(f)]
                  ELSE entry[n]]

\* A slip: the connections are not closed after the answer.
ClosedNone(W) == fdtab

Closed(W) ==
  [d \in Fd |-> IF \E i \in W : entry[list[i]].domain_socket = d THEN None ELSE fdtab[d]]

\* Every client that waits is answered and its entry completed, in the order
\* of the list; send to a descriptor that is not open fails and is ignored.
handle_reply(f) ==
  LET W == Waiting(f)
  IN /\ valid_arp(f) /\ f.op = "REPLY" /\ mac_by_ifindex(f.ifindex) # NULL
     /\ ans' = Answers(f, W)
     /\ \/ /\ Broken(W) = {}
           /\ Take(f)
           /\ fdtab' = Closed(W)
           /\ entry' = Completed(f, W)
           /\ UNCHANGED <<list, dangling, fault, backlog>>
        \/ /\ Broken(W) # {}
           /\ Frames(f)
           /\ Die("sigpipe")
     /\ UNCHANGED <<cst, want, req, out>>

\* SIGINT arrives (cleanup), or select or recvfrom fails and run_arp returns.
Exit ==
  /\ Die("exit")
  /\ UNCHANGED <<clientVars, out>>

-----------------------------------------------------------------------------
Walk ==
  \/ \E i \in DOMAIN list : SkipEntry(i) \/ AreqInvalid(i) \/ IncompleteReadable(i)
  \/ \E i, k \in DOMAIN list : AreqCached(i, k)
  \/ \E i \in DOMAIN list, sent \in SUBSET OwnIp : AreqMiss(i, sent)
  \/ EntriesDone

Packet ==
  \/ NoFrame
  \/ \E f \in {pfq[i] : i \in DOMAIN pfq} :
       \/ IgnoreFrame(f) \/ NullMac(f) \/ handle_reqNoMemory(f) \/ handle_reply(f)
       \/ \E n \in Node : handle_req(f, n)

Daemon ==
  /\ fault = "none"
  /\ \/ Select
     \/ Walk
     \/ \E n \in Node : Accept(n)
     \/ AcceptNoMemory \/ NoAccept
     \/ Packet

areq(c) == Connect(c) \/ SendReq(c) \/ Receive(c) \/ TimeOut(c) \/ Close(c)

Clients ==
  \/ \E c \in Call, a \in IP \cup {NonInet} : Ask(c, a)
  \/ \E c \in Call : areq(c) \/ ReadFails(c) \/ Cancel(c) \/ Kill(c)

Network ==
  \/ \E i \in {EthIf} \cup OtherIf :
       \/ \E p, a \in IP : PeerRequest(p, a, i)
       \/ \E f \in out : PeerReply(f, i)
  \/ \E p \in IP : Junk(p)

Failure == fault = "none" /\ Exit

Next == Daemon \/ Clients \/ Network \/ Failure

Spec == Init /\ [][Next]_vars

\* The daemon and the processes that call areq are scheduled; nothing is
\* assumed of the network, of failures or of when a process calls areq.
FairSpec == Spec /\ WF_vars(Daemon) /\ \A c \in Call : WF_vars(areq(c))

-----------------------------------------------------------------------------
(* The walk of run_arp is never at an entry that was freed: it saves the   *)
(* next pointer before removeFromCache, which removes by key and may free  *)
(* another entry than the one at hand.                                     *)
CursorLinked == fault = "none" /\ cur # NULL => cur \in Linked

(* The descriptors of connections are never mixed up: every entry that     *)
(* select watches holds -1 or an open descriptor that no other such entry  *)
(* holds, although closed descriptors are handed out again by accept.      *)
FdOwnership ==
  fault = "none" =>
    \A m \in Linked :
      entry[m].state # "COMPLETE" /\ entry[m].domain_socket # -1 =>
        /\ entry[m].domain_socket \in Fd
        /\ fdtab[entry[m].domain_socket] # None
        /\ \A n \in Linked :
             entry[n].domain_socket = entry[m].domain_socket => n = m

(* An address is never both resolved and being resolved: the searches by   *)
(* address look at the first entry only, so a second kind of entry behind  *)
(* it would be missed.                                                     *)
NoMixedStates ==
  \A m, n \in Linked :
    entry[m].state = "COMPLETE" /\ entry[n].state = "INCOMPLETE"
      => entry[m].ip # entry[n].ip

(* No client hears anything but the hardware address of the host it asked  *)
(* for, on the interface that host is reached by, whichever of the two     *)
(* ways (handle_req and handle_reply) the cache learned it and however     *)
(* late, often or mixed up with other frames.                              *)
AnswerCorrect ==
  \A c \in Call :
    ans[c] # NoHw => /\ want[c] \in IP
                     /\ ans[c].addr = MacOf[want[c]]
                     /\ ans[c].ifindex = EthIf

(* The daemon only reads what select reported and what is still there: no  *)
(* recv, accept or recvfrom of run_arp can block the single thread.        *)
NeverBlocks ==
  fault = "none" =>
    /\ \A i \in DOMAIN list : AtReadable(i, "CONNECTION") =>
         Readable(entry[cur].domain_socket)
    /\ pc \in {"entries", "accept"} /\ rset.unix => backlog # << >>
    /\ pc # "select" /\ rset.pf => pfq # << >>

(* A resolved address stays in the cache as it is until the daemon fails:  *)
(* no removal by key and no late or repeated frame touches it.             *)
CompleteStable ==
  [][fault' = "none" =>
       \A n \in Linked : entry[n].state = "COMPLETE" =>
         n \in Linked' /\ entry'[n] = entry[n]]_vars

(* A call is answered at most once, however many replies arrive: with the  *)
(* answer the daemon's end of the connection is gone.                      *)
AnsweredClosed == \A c \in Call : ans[c] # NoHw => ~ServerOpen(c)

(* Every round of run_arp ends: the walk over a list that shrinks under it *)
(* reaches the end, and nothing between two calls of select waits.         *)
RoundEnds == pc # "select" ~> (pc = "select" \/ fault # "none")

(* A connection in the backlog is accepted in the end, unless the daemon   *)
(* fails first.                                                            *)
BacklogDrains ==
  \A c \in Call :
    (\E i \in DOMAIN backlog : backlog[i] = c)
      ~> ((\A i \in DOMAIN backlog : backlog[i] # c) \/ fault # "none")

(* With a single connection its descriptor is closed in the end once the   *)
(* client has hung up, unless the daemon fails first.                      *)
HangupReaped ==
  \A c \in Call :
    (HungUp(c) /\ \E d \in Fd : fdtab[d] = c)
      ~> ((\A d \in Fd : fdtab[d] # c) \/ fault # "none")

(* areq returns, or its thread is cancelled: also when connect finds the   *)
(* backlog full, and when the daemon ends, drops the connection or answers *)
(* at any moment.  Only connect to a daemon whose memory is corrupted, and *)
(* which therefore accepts no more, may wait for ever.                     *)
AreqReturns ==
  \A c \in Call :
    cst[c] \in InAreq
      ~> (cst[c] \notin InAreq \/ (cst[c] = "connecting" /\ fault \in {"uaf", "cycle"}))

-----------------------------------------------------------------------------
(* What a client sees of the daemon.                                       *)

\* A call that was cancelled never returns.
Phase == [c \in Call |-> IF cst[c] \in InAreq \cup {"cancelled"} THEN "waiting" ELSE cst[c]]
Heard == [c \in Call |-> IF ans[c] = NoHw THEN None ELSE ans[c].addr]

R == INSTANCE Resolver WITH Other <- {NonInet}, phase <- Phase, asked <- want, heard <- Heard

(* The daemon, its cache and areq together are a resolver: a call of areq  *)
(* succeeds only with the truth, which it is told at most once and never   *)
(* after it returned, although answers cross timeouts, hang-ups and frames.*)
ImplementsResolver == R!Spec

-----------------------------------------------------------------------------
(* What the properties rest on: the parts of an inductive invariant.       *)

\* No entry is linked twice, and the walk holds an entry only while it runs.
ListInv ==
  /\ \A i, j \in DOMAIN list : list[i] = list[j] => i = j
  /\ pc # "entries" => cur = NULL
  /\ CursorLinked

\* Only entries that are not complete hold a descriptor of a connection, and
\* each its own; they hold no hardware address yet.
EntryInv ==
  fault = "none" =>
    \A m \in Linked :
      /\ entry[m].state = "COMPLETE" => entry[m].domain_socket \notin Fd
      /\ entry[m].state # "COMPLETE" =>
           /\ entry[m].hw.ifindex = 0
           /\ \/ entry[m].domain_socket = -1
              \/ entry[m].domain_socket \in Fd /\ fdtab[entry[m].domain_socket] # None
      /\ entry[m].domain_socket \in Fd =>
           \A n \in Linked : entry[n].domain_socket = entry[m].domain_socket => n = m

\* A call has at most one connection and one end of it, from its connect to
\* its answer; what it sent is what it wants.
CallInv ==
  /\ \A d, e \in Fd : fdtab[d] = fdtab[e] /\ fdtab[d] # None => d = e
  /\ \A i, j \in DOMAIN backlog : backlog[i] = backlog[j] => i = j
  /\ \A i \in DOMAIN backlog, d \in Fd : fdtab[d] # backlog[i]
  /\ \A c \in Call :
       /\ cst[c] \in {"idle", "connecting"} => ~ServerOpen(c) /\ ans[c] = NoHw /\ req[c] = None
       /\ ans[c] # NoHw => ~ServerOpen(c)
       /\ req[c] # None => req[c] = want[c]

\* Frames tell the truth, and so does the cache; the address of an entry is
\* the one its client asked for.
DataInv ==
  /\ \A i \in DOMAIN pfq :
       /\ pfq[i].op = "REPLY" => pfq[i].tha = MacOf[pfq[i].tpa]
       /\ pfq[i].op = "REQUEST" => pfq[i].esrc = MacOf[pfq[i].spa]
  /\ fault = "none" =>
       \A m \in Linked :
         /\ entry[m].state = "CONNECTION" => entry[m].ip = NoIp
         /\ entry[m].state # "CONNECTION" => entry[m].ip \in IP
         /\ entry[m].state = "INCOMPLETE" /\ entry[m].domain_socket \in Fd =>
              want[fdtab[entry[m].domain_socket]] = entry[m].ip
         /\ entry[m].state = "COMPLETE" =>
              entry[m].hw.addr = MacOf[entry[m].ip] /\ entry[m].hw.ifindex = EthIf

\* What select reported stays true until it is used: every connection of a
\* reported descriptor that the walk has not served yet, not only the one at
\* hand, is readable; the backlog and the packet socket are not emptied.
ReadyInv ==
  /\ \A c \in Call : cst[c] # "idle" => want[c] # None
  /\ fault = "none" =>
       /\ pc = "entries" =>
            \A m \in Linked :
              entry[m].state = "CONNECTION" /\ entry[m].domain_socket \in rset.fds =>
                Readable(entry[m].domain_socket)
       /\ pc \in {"entries", "accept"} /\ rset.unix => backlog # << >>
       /\ pc # "select" /\ rset.pf => pfq # << >>

(* The daemon's invariant, which with the types is inductive: all parts,   *)
(* with the answers and the states of entries they explain.                *)
ArpInv ==
  ListInv /\ EntryInv /\ CallInv /\ DataInv /\ AnswerCorrect /\ NoMixedStates /\ ReadyInv
=============================================================================
