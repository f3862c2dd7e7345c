-------------------------- MODULE ArpResolverProofs --------------------------
(***************************************************************************)
(* The daemon and areq implement Resolver: every step of Arp is a step of  *)
(* Resolver for the clients' view of the state, or changes nothing there.  *)
(***************************************************************************)
EXTENDS ArpDataProofs

-----------------------------------------------------------------------------
(* Answers that go to open connections whose clients have not hung up are  *)
(* a Tell, provided that they are true.                                    *)
LEMMA TellStep ==
  ASSUME TypeOK, CallInv, TypeOK', AnswerCorrect', UNCHANGED <<cst, want>>,
         \A c \in Call : ans'[c] # ans[c] => ServerOpen(c) /\ ~HungUp(c)
  PROVE  R!Next
<1> DEFINE S == {c \in Call : ans'[c] # ans[c]}
<1>1. ASSUME NEW c \in S
      PROVE  /\ Phase[c] = "waiting" /\ Heard[c] = None /\ want[c] \in IP
             /\ Heard'[c] = MacOf[want[c]]
  <2>1. c \in Call /\ ans'[c] # ans[c] /\ ServerOpen(c) /\ ~HungUp(c)
    OBVIOUS
  <2>2. cst[c] \in InAreq \cup {"cancelled"}
    BY <2>1 DEF CallInv, HungUp, TypeOK, CallState, InAreq
  <2>3. ans[c] = NoHw
    BY <2>1 DEF CallInv
  <2>4. want'[c] \in IP /\ ans'[c].addr = MacOf[want'[c]] /\ ans'[c] # NoHw
    BY <2>1, <2>3 DEF AnswerCorrect
  <2> QED
    BY <2>1, <2>2, <2>3, <2>4 DEF Phase, Heard
<1>2. ASSUME NEW c \in Call \ S PROVE Heard'[c] = Heard[c]
  BY <1>2 DEF Heard
<1>3. Heard' = [c \in Call |-> IF c \in S THEN MacOf[want[c]] ELSE Heard[c]]
  <2>1. Heard' = [c \in Call |-> Heard'[c]]
    BY DEF Heard
  <2> QED
    BY <1>1, <1>2, <2>1
<1>4. UNCHANGED <<Phase, want>>
  BY DEF Phase
<1>5. R!Tell(S)
  BY <1>1, <1>3, <1>4 DEF R!Tell
<1> QED
  BY <1>5 DEF R!Next

(* The daemon never answers a client that has hung up, nor one without an  *)
(* open connection.                                                        *)
LEMMA AnswersOpen ==
  ASSUME TypeOK, Daemon, NEW c \in Call, ans'[c] # ans[c]
  PROVE  ServerOpen(c) /\ ~HungUp(c)
<1>0. ans \in [Call -> Hwaddr] /\ c # None
  BY ArpAssumption DEF TypeOK
<1>1. ASSUME NEW i \in DOMAIN list, NEW k \in DOMAIN list, AreqCached(i, k)
      PROVE  ServerOpen(c) /\ ~HungUp(c)
  <2>1. /\ ~HungUp(Client) /\ entry[cur].domain_socket \in Fd
        /\ ans' = [ans EXCEPT ![Client] = entry[list[k]].hw]
    BY <1>1 DEF AreqCached, AtReadable, TypeOK
  <2>2. c = Client
    BY <1>0, <2>1
  <2> QED
    BY <2>1, <2>2 DEF Client, ServerOpen
<1>2. ASSUME NEW f, handle_reply(f) PROVE ServerOpen(c) /\ ~HungUp(c)
  <2> DEFINE W == Waiting(f)
  <2>1. ans' = Answers(f, W)
    BY <1>2 DEF handle_reply
  <2>2. PICK i \in Reached(W) : ClientOf(i) = c
    BY <2>1 DEF Answers
  <2>3. i \notin Broken(W) /\ i \in W
    BY DEF Reached, Waiting, TypeOK
  <2>4. ~HungUp(c)
    BY <1>0, <2>2, <2>3 DEF Broken
  <2>5. entry[list[i]].domain_socket \in Fd /\ fdtab[entry[list[i]].domain_socket] = c
    BY <1>0, <2>2 DEF ClientOf
  <2> QED
    BY <2>4, <2>5 DEF ServerOpen
<1>3. CASE Walk
  BY <1>1, <1>3 DEF Walk, SkipEntry, AreqInvalid, IncompleteReadable, AreqMiss, EntriesDone,
                    clientVars
<1>4. CASE Packet
  BY <1>2, <1>4 DEF Packet, NoFrame, IgnoreFrame, NullMac, handle_req, handle_reqNoMemory,
                    clientVars
<1> QED
  BY <1>3, <1>4 DEF Daemon, Select, Reported, Accept, AcceptNoMemory, NoAccept, clientVars

(* A step of a client is a call or a return.                               *)
LEMMA ClientStep ==
  ASSUME TypeOK, AnswerCorrect, Clients
  PROVE  R!Next \/ UNCHANGED <<Phase, want, Heard>>
<1>0. cst \in [Call -> CallState]
  BY DEF TypeOK
<1>1. ASSUME NEW c \in Call, NEW how \in CallState \ {"idle"}, Return(c, how)
      PROVE  Phase' = [Phase EXCEPT ![c] = IF how \in {"ok", "failed"} THEN how ELSE "waiting"]
  BY <1>0, <1>1 DEF Return, Phase, CallState, InAreq
<1>2. ASSUME NEW c \in Call, NEW a \in IP \cup {NonInet}, Ask(c, a) PROVE R!Next
  <2>1. Phase[c] = "idle" /\ want' = [want EXCEPT ![c] = a] /\ UNCHANGED ans
    BY <1>2 DEF Ask, Phase, InAreq
  <2>2. Return(c, "failed") \/ Return(c, "connecting")
    BY <1>2 DEF Ask
  <2>3. \E how \in {"waiting", "failed"} : Phase' = [Phase EXCEPT ![c] = how]
    BY <1>1, <2>2 DEF CallState, InAreq
  <2>4. UNCHANGED Heard
    BY <2>1 DEF Heard
  <2>5. R!Ask(c, a)
    BY <2>1, <2>3, <2>4 DEF R!Ask
  <2> QED
    BY <2>5 DEF R!Next
<1>3. ASSUME NEW c \in Call, areq(c) \/ ReadFails(c) \/ Cancel(c) \/ Kill(c)
      PROVE  R!Next \/ UNCHANGED <<Phase, want, Heard>>
  <2>1. /\ cst[c] \in InAreq \cup {"cancelled"} /\ Phase[c] = "waiting"
        /\ UNCHANGED <<want, ans>>
    BY <1>3
    DEF areq, Connect, SendReq, Receive, TimeOut, ReadFails, Close, Cancel, Kill, Phase, InAreq
  <2>2. UNCHANGED Heard
    BY <2>1 DEF Heard
  <2>3. \/ \E how \in {"connected", "waiting", "late", "cancelled", "failed"} : Return(c, how)
        \/ Return(c, "ok") /\ ans[c] # NoHw
    BY <1>3 DEF areq, Connect, SendReq, Receive, TimeOut, ReadFails, Close, Cancel, Kill
  <2>4. ASSUME NEW how \in {"connected", "waiting", "late", "cancelled"}, Return(c, how)
        PROVE  UNCHANGED <<Phase, want, Heard>>
    <3>1. Phase' = [Phase EXCEPT ![c] = "waiting"]
      BY <1>1, <2>4 DEF CallState, InAreq
    <3>2. Phase' = Phase
      BY <2>1, <3>1 DEF Phase
    <3> QED
      BY <2>1, <2>2, <3>2
  <2>5. ASSUME NEW how \in {"ok", "failed"}, Return(c, how), how = "ok" => Heard[c] # None
        PROVE  R!Next
    <3>1. Phase' = [Phase EXCEPT ![c] = how]
      BY <1>1, <2>5 DEF CallState
    <3>2. R!Return(c)
      BY <2>1, <2>2, <2>5, <3>1 DEF R!Return
    <3> QED
      BY <3>2 DEF R!Next
  <2>6. ans[c] # NoHw <=> Heard[c] # None
    BY ArpAssumption DEF Heard, AnswerCorrect
  <2> QED
    BY <2>3, <2>4, <2>5, <2>6
<1> QED
  BY <1>2, <1>3 DEF Clients

-----------------------------------------------------------------------------
(* At first nobody has called areq.                                        *)
LEMMA ResolverInit == Init => R!Init
  BY DEF Init, R!Init, Phase, Heard, InAreq

(* Every step of the daemon, its clients and the network is a step of the  *)
(* resolver or invisible to the clients.                                   *)
LEMMA ResolverStep ==
  TypeOK /\ ArpInv /\ TypeOK' /\ ArpInv' /\ [Next]_vars => [R!Next]_<<Phase, want, Heard>>
<1> SUFFICES ASSUME TypeOK, ArpInv, TypeOK', ArpInv', [Next]_vars
             PROVE  R!Next \/ UNCHANGED <<Phase, want, Heard>>
  OBVIOUS
<1>0. CallInv /\ AnswerCorrect /\ AnswerCorrect'
  BY DEF ArpInv
<1>1. CASE UNCHANGED clientVars
  BY <1>1 DEF clientVars, Phase, Heard
<1>2. CASE Clients
  BY <1>0, <1>2, ClientStep
<1>3. CASE Daemon
  <2>1. UNCHANGED <<cst, want>>
    <3>1. CASE Walk
      BY <3>1 DEF Walk, SkipEntry, AreqInvalid, IncompleteReadable, AreqCached, AreqMiss,
                  EntriesDone, clientVars
    <3>2. CASE Packet
      BY <3>2 DEF Packet, NoFrame, IgnoreFrame, NullMac, handle_req, handle_reqNoMemory,
                  handle_reply, clientVars
    <3> QED
      BY <1>3, <3>1, <3>2
      DEF Daemon, Select, Reported, Accept, AcceptNoMemory, NoAccept, clientVars
  <2>2. \A c \in Call : ans'[c] # ans[c] => ServerOpen(c) /\ ~HungUp(c)
    BY <1>3, AnswersOpen
  <2> QED
    BY <1>0, <2>1, <2>2, TellStep
<1> QED
  BY <1>1, <1>2, <1>3
  DEF Next, Network, PeerRequest, PeerReply, Junk, Arrive, Failure, Exit, vars, clientVars

(* The daemon and areq are a resolver, for any clients, hosts, descriptors *)
(* and memory: a call succeeds only with the truth, hears it at most once, *)
(* and hears nothing after it returned.                                    *)
THEOREM Resolves == Spec => ImplementsResolver
  BY ResolverInit, ResolverStep, TypeCorrect, Invariant, PTL
  DEF Spec, ImplementsResolver, R!Spec, R!vars
=============================================================================
