-------------------------- MODULE NativeConnection --------------------------
(***************************************************************************)
(* The native socket from construction to destruction: the SocketHost of    *)
(* the main app and the SocketClients of its plugins over the kernel's      *)
(* sockets, with the rest of each process, signals, and processes that die  *)
(* and are started again.                                                  *)
(***************************************************************************)
EXTENDS SocketHost, SocketClient

kernelVars == <<listener, backlog, appOpen, pluginOpen, maker, inRecv, toHost, toClient>>
vars == <<kernelVars, hostVars, clientVars>>

Init == KernelInit /\ HostInit /\ ClientInit

-----------------------------------------------------------------------------
(* A process dies, and with it its threads, objects and descriptors.       *)
AppDies ==
  /\ listener' = "none" /\ backlog' = << >> /\ appOpen' = {}
  /\ hostObj' = FALSE /\ hostServer' = NoNumber /\ hostClient' = NoNumber
  /\ hostPc' = "idle" /\ hostLoop' = "none"
  /\ writer' = "idle" /\ meant' = NoNumber /\ replaced' = FALSE
  /\ toHost' = {}
  /\ UNCHANGED <<hostInits, stray, pluginOpen, maker, inRecv, toClient, clientVars>>

PluginDies(p) ==
  LET its == {k \in Conns : maker[k] = p}
  IN  /\ pluginOpen' = pluginOpen \ its
      /\ inRecv' = inRecv \ its
      /\ clientObj' = [clientObj EXCEPT ![p] = FALSE]
      /\ clientServer' = [clientServer EXCEPT ![p] = NoNumber]
      /\ clientPc' = [clientPc EXCEPT ![p] = "idle"]
      /\ clientThread' = [clientThread EXCEPT ![p] = 0]
      /\ clientLoop' = [k \in Conns |-> IF k \in its THEN "dead" ELSE clientLoop[k]]
      /\ toClient' = toClient \ its
      /\ UNCHANGED <<reinits, appEnd, backlog, maker, toHost, hostVars>>

-----------------------------------------------------------------------------
HostOwnerStep == HostJoin \/ HostListens \/ HostBindFails \/ HostShuts \/ HostFrees
HostThreadStep ==
  \/ HostTest \/ HostAccepts \/ HostSeesShut
  \/ HostReceives \/ HostSeesEnd \/ HostForgets

ClientOwnerStep(p) ==
  ClientJoin(p) \/ ClientRefused(p) \/ \E k \in Conns : ClientConnects(p, k)
ClientThreadStep(k) == ClientTest(k) \/ ClientReceives(k) \/ ClientSeesEnd(k)

Host(A) == A /\ UNCHANGED clientVars
Plugin(A) == A /\ UNCHANGED hostVars

Next ==
  \/ Host(HostConstruct) \/ Host(HostInitialize) \/ Host(HostDestroy)
  \/ Host(HostJoin) \/ Host(HostListens) \/ Host(HostBindFails)
  \/ Host(HostShuts) \/ Host(HostFrees)
  \/ Host(HostTest) \/ Host(HostAccepts) \/ Host(HostAcceptFails)
  \/ Host(HostReceives) \/ Host(HostDrops) \/ Host(HostForgets)
  \/ Host(HostWrites) \/ Host(HostSendsAll) \/ Host(HostSendsPart) \/ Host(HostSendFails)
  \/ \E p \in Plugins :
       \/ Plugin(ClientConstruct(p)) \/ Plugin(ClientInitialize(p))
       \/ Plugin(ClientReinitialize(p)) \/ Plugin(ClientDestroy(p))
       \/ Plugin(ClientJoin(p)) \/ Plugin(ClientRefused(p))
       \/ \E k \in Conns : Plugin(ClientConnects(p, k))
       \/ Plugin(ClientWrites(p))
       \/ PluginDies(p)
  \/ \E k \in Conns :
       \/ Plugin(ClientTest(k)) \/ Plugin(ClientReceives(k)) \/ Plugin(ClientSeesEnd(k))
       \/ Plugin(ClientInterrupted(k))
  \/ AppDies

Spec == Init /\ [][Next]_vars

(* Threads that can run do.  Nothing forces a call, a frame, a signal or   *)
(* the end of a process.                                                   *)
Fairness ==
  /\ WF_vars(Host(HostOwnerStep)) /\ WF_vars(Host(HostThreadStep))
  /\ \A p \in Plugins : WF_vars(Plugin(ClientOwnerStep(p)))
  /\ \A k \in Conns : WF_vars(Plugin(ClientThreadStep(k)))

FairSpec == Spec /\ Fairness

-----------------------------------------------------------------------------
(* Type correctness of the kernel's tables, the host and the clients.      *)
TypeOK == KernelTypeOK /\ HostTypeOK /\ ClientTypeOK

(* The app has open, of all the connections it accepted, the one m_Client   *)
(* stands for: none is accepted and forgotten while the event thread is     *)
(* there to serve it.  And m_Client stands for an open connection but       *)
(* between close(m_Client) and m_Client = -1.                               *)
HostDescriptors ==
  /\ hostLoop # "none" => appOpen \subseteq {hostClient}
  /\ hostClient # NoNumber /\ hostLoop # "gap" => hostClient \in appOpen

(* m_Server stands for an open connection of its own plugin, whatever its  *)
(* thread met, unless the last initialize failed: only then may a write or *)
(* the destructor's close() hit another file of the process.               *)
ClientDescriptors ==
  \A p \in Plugins : clientServer[p] \notin {NoNumber, Stale} =>
    clientServer[p] \in pluginOpen /\ maker[clientServer[p]] = p

(* At most one event thread works for a client object at any time, however *)
(* often it is initialized.                                                *)
OneThreadPerClient ==
  \A k \in Conns : clientLoop[k] = "loop" => clientThread[maker[k]] = k

(* What a plugin keeps open: its current connection, one for each time it  *)
(* initialized a running client (the old one is never closed), and one for *)
(* each deleted client whose thread is still blocked in recv().            *)
LeakBounded ==
  \A p \in Plugins :
    Cardinality({k \in Conns : maker[k] = p /\ ClientHas(k)})
      <= (IF clientServer[p] \in Conns THEN 1 ELSE 0) + reinits[p]
         + Cardinality({k \in Conns : maker[k] = p /\ clientLoop[k] = "orphan"})

(* A piece of a frame goes to another client than the frame was for, or to *)
(* no client at all, only after the event thread has dropped a client in   *)
(* the course of a write.                                                  *)
StrayNeedsDrop == ~stray

InService == hostPc = "idle" /\ hostServer = Listening /\ hostLoop # "dead"

(* A client that waits is served as soon as the clients before it have     *)
(* gone, as long as the host is in service and its plugin holds on.        *)
TurnComes ==
  \A k \in Conns :
    InService /\ InBacklog(k) ~>
      ~InService \/ ~InBacklog(k) \/ (hostClient # NoNumber /\ ClientHas(hostClient))

(* An initialize that has an event thread to stop returns once that thread *)
(* has something to read, or the other end is gone: "Ensure we stop        *)
(* previous events" waits for the other process.                           *)
JoinEnds ==
  /\ \A p \in Plugins :
       clientPc[p] = "join" /\ (clientThread[p] \in toClient \/ ~HostHas(clientThread[p]))
         ~> clientPc[p] # "join"
  /\ hostPc = "join" /\ hostClient # NoNumber /\ (hostClient \in toHost \/ ~ClientHas(hostClient))
       ~> hostPc # "join"
=============================================================================
