------------------------------- MODULE ArpMain -------------------------------
(***************************************************************************)
(* How ARP daemons of one host start and end (main, create_unix_domain,    *)
(* create_pf_socket, set_sig_cleanup and cleanup of arp.c), on a host      *)
(* whose interfaces change meanwhile (HwAddrs).                            *)
(*                                                                         *)
(* All daemons use one well-known path for their socket.  A process is a d *)
(* of Proc and starts once; a restart is another d.  Each call that looks  *)
(* at the path or changes it is a step.  Any call may fail and a process   *)
(* may be killed at any time, MaxFaults times in all.                      *)
(***************************************************************************)
EXTENDS HwAddrs

CONSTANTS
  None,       \* no daemon
  MaxFaults   \* how often a call fails or a signal kills a process

ASSUME MainAssumption == None \notin Proc /\ MaxFaults \in Nat

VARIABLES
  pc,         \* where each daemon is in main
  file,       \* the daemon whose socket is bound to the path, or None
  writable,   \* the file has the mode that lets any process connect
  listening,  \* the daemons that listen on their sockets
  faults,     \* how often a call failed or a process was killed
  hurt,       \* the daemons it happened to (a history)
  aborted,    \* those that ended without passing the end of main or cleanup
  quiet       \* those that no other daemon's start or end overlapped

fileVars == <<file, writable>>
ghostVars == <<faults, hurt, aborted, quiet>>
mainVars == <<pc, fileVars, listening, ghostVars>>
vars == <<kernelVars, hwVars, mainVars>>

-----------------------------------------------------------------------------
Starting == {"devices", "unlink", "bind", "chmod", "listen", "pf", "signal"}
Ending == {"failed", "closing"}

TypeOK ==
  /\ HwTypeOK
  /\ pc \in [Proc -> Starting \cup Ending \cup {"off", "run", "gone"}]
  /\ file \in Proc \cup {None} /\ writable \in BOOLEAN
  /\ listening \subseteq Proc
  /\ faults \in 0..MaxFaults
  /\ hurt \subseteq Proc /\ aborted \subseteq Proc /\ quiet \subseteq Proc

Init ==
  /\ HwInit
  /\ pc = [d \in Proc |-> "off"]
  /\ file = None /\ writable = FALSE
  /\ listening = {}
  /\ faults = 0 /\ hurt = {} /\ aborted = {} /\ quiet = {}

Goto(d, where) == pc' = [pc EXCEPT ![d] = where]

\* unlink(ARP_WELL_KNOWN_PATH); without a file it fails, which is ignored.
Unlink == file' = None /\ writable' = FALSE

\* Something outside the program goes wrong for d.
Fault(d) ==
  /\ faults < MaxFaults /\ faults' = faults + 1
  /\ hurt' = hurt \cup {d}

-----------------------------------------------------------------------------
(* main                                                                    *)

\* A daemon starts: it disturbs the others, and is itself undisturbed when
\* the others are not there or have come to serve.
Start(d) ==
  /\ pc[d] = "off"
  /\ Goto(d, "devices")
  /\ quiet' = IF \A e \in Proc : pc[e] \in {"off", "run", "gone"} THEN {d} ELSE {}
  /\ UNCHANGED <<kernelVars, hwVars, fileVars, listening, faults, hurt, aborted>>

\* A step of get_hw_addrs.
Devices(d) ==
  /\ pc[d] = "devices"
  /\ get_hw_addrs(d)
  /\ UNCHANGED mainVars

\* A call in get_hw_addrs fails, or the first ioctl finds the buffer small.
DevicesFail(d) ==
  /\ pc[d] = "devices"
  /\ GiveUp(d) \/ Invalid(d)
  /\ Fault(d)
  /\ UNCHANGED <<pc, fileVars, listening, aborted, quiet>>

DevicesFound(d) ==
  /\ pc[d] = "devices" /\ hpc[d] = "list"
  /\ Goto(d, "unlink")
  /\ UNCHANGED <<kernelVars, hwVars, fileVars, listening, ghostVars>>

\* No device: main returns and leaves the path alone.
NO_HW_DEVICES(d) ==
  /\ pc[d] = "devices" /\ hpc[d] = "null"
  /\ Goto(d, "gone")
  /\ UNCHANGED <<kernelVars, hwVars, fileVars, listening, ghostVars>>

-----------------------------------------------------------------------------
(* create_unix_domain                                                      *)

\* A slip: the path is left as it is.
ClearNothing(d) ==
  /\ pc[d] = "unlink"
  /\ Goto(d, "bind")
  /\ UNCHANGED <<kernelVars, hwVars, fileVars, listening, ghostVars>>

\* A file that an earlier daemon may have left is removed.
Clear(d) ==
  /\ pc[d] = "unlink"
  /\ Unlink
  /\ Goto(d, "bind")
  /\ UNCHANGED <<kernelVars, hwVars, listening, ghostVars>>

\* bind makes the file, with a mode that keeps others out; it fails when
\* there is a file by now.
Bind(d) ==
  /\ pc[d] = "bind"
  /\ \/ /\ file = None
        /\ file' = d /\ writable' = FALSE
        /\ Goto(d, "chmod")
     \/ /\ file # None
        /\ Goto(d, "failed")
        /\ UNCHANGED fileVars
  /\ UNCHANGED <<kernelVars, hwVars, listening, ghostVars>>

\* A slip: the mode is left as bind made it.
ChmodNothing(d) ==
  /\ pc[d] = "chmod"
  /\ Goto(d, "listen")
  /\ UNCHANGED <<kernelVars, hwVars, fileVars, listening, ghostVars>>

\* chmod sets the mode of the file at the path, whoever made it; without one
\* it fails, and the path is unlinked again.
Chmod(d) ==
  /\ pc[d] = "chmod"
  /\ \/ /\ file # None
        /\ writable' = TRUE
        /\ Goto(d, "listen")
        /\ UNCHANGED file
     \/ /\ file = None
        /\ Unlink
        /\ Goto(d, "failed")
  /\ UNCHANGED <<kernelVars, hwVars, listening, ghostVars>>

Listen(d) ==
  /\ pc[d] = "listen"
  /\ listening' = listening \cup {d}
  /\ Goto(d, "pf")
  /\ UNCHANGED <<kernelVars, hwVars, fileVars, ghostVars>>

\* socket or bind fails: the path is left alone.
UnixFails(d) ==
  /\ pc[d] \in {"unlink", "bind"}
  /\ Fault(d)
  /\ Goto(d, "failed")
  /\ UNCHANGED <<kernelVars, hwVars, fileVars, listening, aborted, quiet>>

\* chmod or listen fails: the socket is closed and the path unlinked.
UnixBackOut(d) ==
  /\ pc[d] \in {"chmod", "listen"}
  /\ Fault(d)
  /\ Unlink
  /\ Goto(d, "failed")
  /\ UNCHANGED <<kernelVars, hwVars, listening, aborted, quiet>>

-----------------------------------------------------------------------------
(* The rest of main, and signals.                                          *)

create_pf_socket(d) ==
  /\ pc[d] = "pf"
  /\ Goto(d, "signal")
  /\ UNCHANGED <<kernelVars, hwVars, fileVars, listening, ghostVars>>

PfFails(d) ==
  /\ pc[d] = "pf"
  /\ Fault(d)
  /\ listening' = listening \ {d}
  /\ Goto(d, "failed")
  /\ UNCHANGED <<kernelVars, hwVars, fileVars, aborted, quiet>>

set_sig_cleanup(d) ==
  /\ pc[d] = "signal"
  /\ Goto(d, "run")
  /\ UNCHANGED <<kernelVars, hwVars, fileVars, listening, ghostVars>>

\* sigaction fails: the process exits and leaves the file.
SigFails(d) ==
  /\ pc[d] = "signal"
  /\ Fault(d)
  /\ aborted' = aborted \cup {d}
  /\ listening' = listening \ {d}
  /\ Goto(d, "gone")
  /\ UNCHANGED <<kernelVars, hwVars, fileVars, quiet>>

\* run_arp returns after a call that failed; the socket is closed.
RunReturns(d) ==
  /\ pc[d] = "run"
  /\ Fault(d)
  /\ listening' = listening \ {d}
  /\ quiet' = quiet \cap {d}
  /\ Goto(d, "closing")
  /\ UNCHANGED <<kernelVars, hwVars, fileVars, aborted>>

\* handle_req has no memory for an entry: it exits in the middle of run_arp,
\* and the file stays.
handle_reqExits(d) ==
  /\ pc[d] = "run"
  /\ Fault(d)
  /\ aborted' = aborted \cup {d}
  /\ listening' = listening \ {d}
  /\ Goto(d, "gone")
  /\ UNCHANGED <<kernelVars, hwVars, fileVars, quiet>>

\* A slip: only a daemon that ran removes the file.
RemoveAfterRun(d) ==
  /\ pc[d] \in Ending
  /\ \/ pc[d] = "closing" /\ Unlink
     \/ pc[d] = "failed" /\ UNCHANGED fileVars
  /\ Goto(d, "gone")
  /\ UNCHANGED <<kernelVars, hwVars, listening, ghostVars>>

\* The end of main.
UNIX_DOMAIN_FAIL(d) ==
  /\ pc[d] \in Ending
  /\ Unlink
  /\ Goto(d, "gone")
  /\ UNCHANGED <<kernelVars, hwVars, listening, ghostVars>>

\* SIGINT with the handler in place.
cleanup(d) ==
  /\ pc[d] \in {"run", "closing"}
  /\ Unlink
  /\ listening' = listening \ {d}
  /\ quiet' = quiet \cap {d}
  /\ Goto(d, "gone")
  /\ UNCHANGED <<kernelVars, hwVars, faults, hurt, aborted>>

\* Any other signal, or SIGINT before the handler is there: the process is
\* gone and the file stays.
Kill(d) ==
  /\ pc[d] \notin {"off", "gone"}
  /\ Fault(d)
  /\ aborted' = aborted \cup {d}
  /\ listening' = listening \ {d}
  /\ Goto(d, "gone")
  /\ UNCHANGED <<kernelVars, hwVars, fileVars, quiet>>

-----------------------------------------------------------------------------
create_unix_domain(d) == Clear(d) \/ Bind(d) \/ Chmod(d) \/ Listen(d)

main(d) ==
  \/ Devices(d) \/ DevicesFound(d) \/ NO_HW_DEVICES(d)
  \/ create_unix_domain(d) \/ create_pf_socket(d) \/ set_sig_cleanup(d)
  \/ UNIX_DOMAIN_FAIL(d)

Failure(d) ==
  \/ DevicesFail(d) \/ UnixFails(d) \/ UnixBackOut(d) \/ PfFails(d) \/ SigFails(d)
  \/ RunReturns(d) \/ handle_reqExits(d) \/ Kill(d)

Next ==
  \/ \E d \in Proc : Start(d) \/ main(d) \/ Failure(d) \/ cleanup(d)
  \/ Kernel /\ UNCHANGED mainVars

Spec == Init /\ [][Next]_vars

\* A process that was started is scheduled; nothing is assumed of when one is
\* started or interrupted, of failures or of the interfaces.
FairSpec == Spec /\ \A d \in Proc : WF_vars(main(d))

-----------------------------------------------------------------------------
\* Any process can connect to d.
Serves(d) == pc[d] = "run" /\ file = d /\ writable /\ d \in listening

(* A file without its daemon is left only by one that a signal killed or   *)
(* that called exit: when sigaction failed, or handle_req had no memory.   *)
(* Every other end removes it (the labels of main, create_unix_domain and  *)
(* cleanup), however many daemons start and end in between.                *)
StaleOnlyAfterAbort == \A d \in Proc : file = d /\ pc[d] = "gone" => d \in aborted

(* A daemon in run_arp can be connected to by any process, unless another  *)
(* daemon was starting or ended after this one started: whatever a killed  *)
(* daemon left at the path, or a daemon that still runs has there, is      *)
(* replaced.                                                               *)
UndisturbedServes == \A d \in quiet : pc[d] = "run" => Serves(d)

(* The device list of a daemon is complete: it has every address that eth0 *)
(* had when the interfaces were read, however small the first buffer was   *)
(* and whatever changed between the calls, with the first one marked as no *)
(* alias; and it is the hardware address and index of one device, unless   *)
(* that device went away in the middle.  Arp assumes a list like this.     *)
DevicesTrue ==
  \A d \in Proc : hpc[d] = "list" =>
    /\ {hwa[d][k].ip : k \in DOMAIN hwa[d]} = {seen[d][j] : j \in DOMAIN seen[d]} \cap Eth
    /\ \A k \in DOMAIN hwa[d] : hwa[d][k].alias <=> k # 1
    /\ steady[d] => \E e \in Dev : \A k \in DOMAIN hwa[d] :
                      hwa[d][k].haddr = e /\ hwa[d][k].index = e

(* A daemon that is started comes to serve, or finds no address of eth0,   *)
(* unless another one disturbs it, a call fails or a signal ends it; so    *)
(* reading the interfaces ends although they change, and a file left by a  *)
(* daemon that was killed is no obstacle.                                  *)
StartServes ==
  \A d \in Proc :
    pc[d] = "devices" ~> \/ Serves(d)
                         \/ pc[d] = "gone" /\ hwa[d] = << >>
                         \/ d \notin quiet \/ d \in hurt

-----------------------------------------------------------------------------
(* What the invariants rest on.                                            *)

\* The addresses of eth0 among the first items of the table that was read.
SeenOf(p, n) == {seen[p][j] : j \in {i \in DOMAIN seen[p] : i < n}} \cap Eth
Listed(p) == {hwa[p][k].ip : k \in DOMAIN hwa[p]}

\* The device of the items of eth0 has not changed: the items listed so far
\* agree on it, except that the last one may have no index yet.
OneDevice(p) ==
  steady[p] =>
    /\ (\E j \in DOMAIN seen[p] : seen[p][j] \in Eth) => dev # NoDev
    /\ \A k \in DOMAIN hwa[p] :
         /\ hwa[p][k].haddr = dev
         /\ hpc[p] # "index" \/ k # Len(hwa[p]) => hwa[p][k].index = dev

\* The buffer is always larger than the last answer, so an answer of the same
\* length is the whole table; the list has the items that were passed.
ListInv(p) ==
  /\ lastlen[p] < len[p] /\ next[p] > 0
  /\ \A k \in DOMAIN hwa[p] : hwa[p][k].alias <=> k # 1
  /\ hpc[p] \in {"socket", "conf"} => hwa[p] = << >> /\ next[p] = 1
  /\ hpc[p] = "item" => ifc[p] = seen[p] /\ Listed(p) = SeenOf(p, next[p])
  /\ hpc[p] = "index" =>
       /\ ifc[p] = seen[p] /\ hwa[p] # << >>
       /\ next[p] \in DOMAIN seen[p]
       /\ Listed(p) = SeenOf(p, next[p] + 1)
  /\ hpc[p] = "list" =>
       hwa[p] # << >> /\ Listed(p) = {seen[p][j] : j \in DOMAIN seen[p]} \cap Eth
  /\ hpc[p] \in {"item", "index", "list"} => OneDevice(p)

HwInv == (dev = NoDev => ~Up) /\ \A p \in Proc : ListInv(p)

\* The path is an undisturbed daemon's from its bind on.
Owns(d) ==
  /\ pc[d] = "bind" => file = None
  /\ pc[d] \in {"chmod", "listen", "pf", "signal", "run"} => file = d
  /\ pc[d] \in {"listen", "pf", "signal", "run"} => writable
  /\ pc[d] \in {"pf", "signal", "run"} => d \in listening

PathInv ==
  /\ \A d \in Proc :
       file = d => /\ pc[d] \notin {"off", "devices", "unlink", "bind"}
                   /\ pc[d] = "gone" => d \in aborted
  /\ \A d \in quiet :
       /\ Owns(d)
       /\ \A e \in Proc \ {d} : pc[e] \in {"off", "run", "gone"}

(* The invariant of starting and ending daemons, inductive with the types: *)
(* what has been read of the interfaces, and whose file is at the path.    *)
MainInv == HwInv /\ PathInv
=============================================================================
