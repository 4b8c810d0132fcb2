----------------------------- MODULE SocketHost -----------------------------
(***************************************************************************)
(* The main app: a SocketHost, the thread that owns it (constructor,        *)
(* initialize, destructor), its event thread, and another thread of the app *)
(* that writes to the client.  Frames are whole messages, except that a     *)
(* write may take two send()s, as m_Client is read again for each.          *)
(* Once it has listened, the name stays bound for as long as the process    *)
(* lives, since the listening socket is never closed: no initialize but the *)
(* first successful one starts an event thread, and one variable does.      *)
(***************************************************************************)
EXTENDS LocalSockets

CONSTANT MaxInits  \* bound on the calls of SocketHost::initialize

ASSUME HostBounds == MaxInits \in Nat

Listening == 1  \* m_Server is the number of the listening socket

VARIABLES
  hostObj,     \* whether there is a SocketHost
  hostServer,  \* its m_Server: Listening, NoNumber or Stale
  hostClient,  \* its m_Client
  hostPc,      \* where its owner is in a call
  hostLoop,    \* where m_EventThread is, "none" if it is not joinable
  hostInits,   \* calls of initialize so far
  writer,      \* where the writing thread is in writeToSocket
  meant,       \* the connection m_Client stood for as its write began
  replaced,    \* history: a client has been dropped since its write began
  stray        \* history: a piece of a frame went elsewhere without that

hostOwner  == <<hostObj, hostServer, hostPc, hostInits>>
writerVars == <<writer, meant, replaced, stray>>
hostVars   == <<hostOwner, hostClient, hostLoop, writerVars>>

pluginEnds == <<pluginOpen, maker, inRecv>>

HostInit ==
  /\ hostObj = FALSE /\ hostServer = NoNumber /\ hostClient = NoNumber
  /\ hostPc = "idle" /\ hostLoop = "none" /\ hostInits = 0
  /\ writer = "idle" /\ meant = NoNumber /\ replaced = FALSE /\ stray = FALSE

-----------------------------------------------------------------------------
(* The owner                                                               *)

OwnerStep(from, to) ==
  /\ hostPc = from
  /\ hostPc' = to
  /\ UNCHANGED <<writerVars, backlog, appOpen, toHost, pluginEnds>>

HostConstruct ==
  /\ ~hostObj
  /\ OwnerStep("idle", "idle")
  /\ hostObj' = TRUE
  /\ UNCHANGED <<hostServer, hostClient, hostLoop, hostInits, listener, toClient>>

(* "Ensure we stop previous events": m_Server = -1, and a join to come.    *)
HostInitialize ==
  /\ hostObj /\ hostInits < MaxInits
  /\ OwnerStep("idle", IF hostLoop = "none" THEN "bind" ELSE "join")
  /\ hostInits' = hostInits + 1
  /\ hostServer' = NoNumber
  /\ UNCHANGED <<hostObj, hostClient, hostLoop, listener, toClient>>

HostJoin ==
  /\ OwnerStep("join", "bind")
  /\ hostLoop = "dead"
  /\ hostLoop' = "none"
  /\ UNCHANGED <<hostObj, hostServer, hostClient, hostInits, listener, toClient>>

(* socket, bind, listen, and the thread.                                   *)
HostListens ==
  /\ OwnerStep("bind", "idle")
  /\ listener = "none"
  /\ listener' = "open" /\ hostServer' = Listening
  /\ hostLoop' = "test"
  /\ UNCHANGED <<hostObj, hostClient, hostInits, toClient>>

(* socket() fails, or else bind() or listen(): the name is taken, by this  *)
(* process or another.  The new socket is closed, and m_Server keeps its   *)
(* number.                                                                 *)
HostBindFails ==
  /\ OwnerStep("bind", "idle")
  /\ hostServer' \in {NoNumber, Stale}
  /\ UNCHANGED <<hostObj, hostClient, hostLoop, hostInits, listener, toClient>>

Reachable == hostClient \in appOpen /\ ClientHas(hostClient)

(* The destructor first tells the client, if it has one, unless a signal   *)
(* interrupts that.                                                        *)
HostDestroy ==
  /\ hostObj /\ writer = "idle"
  /\ OwnerStep("idle", "shut")
  /\ \/ toClient' = toClient
     \/ Reachable /\ toClient' = toClient \union {hostClient}
  /\ UNCHANGED <<hostObj, hostServer, hostClient, hostLoop, hostInits, listener>>

(* shutdown(m_Server): of a stale number, it is done to whatever other     *)
(* file of the app has the number now, if any, which no part here is.      *)
HostShuts ==
  /\ OwnerStep("shut", "free")
  /\ listener' = IF hostServer = Listening THEN "shut" ELSE listener
  /\ hostServer' = NoNumber
  /\ UNCHANGED <<hostObj, hostClient, hostLoop, hostInits, toClient>>

(* detach, and the object is gone; neither socket is closed.  If the       *)
(* thread has not ended, all it does from here on it does with freed       *)
(* memory, and the model follows it no further.                            *)
HostFrees ==
  /\ OwnerStep("free", "idle")
  /\ hostLoop' = "none"
  /\ hostObj' = FALSE /\ hostClient' = NoNumber
  /\ UNCHANGED <<hostServer, hostInits, listener, toClient>>

-----------------------------------------------------------------------------
(* The event thread: processEventsThread and processEvents                 *)

LoopStep(from, to) ==
  /\ hostLoop = from
  /\ hostLoop' = to
  /\ UNCHANGED <<hostOwner, writer, meant, stray, listener, toClient, pluginEnds>>

(* Mutant: the thread goes back to accept() with a client in m_Client.     *)
HostTestAccepts ==
  /\ LoopStep("test", IF hostServer # NoNumber THEN "accept" ELSE "dead")
  /\ UNCHANGED <<hostClient, replaced, appOpen, backlog, toHost>>

(* while (m_Server >= 0), if (m_Client < 0); a callback is over by then.   *)
(* accept() of an m_Server that has become -1 ends the thread as the test  *)
(* does.                                                                   *)
HostTest ==
  /\ LoopStep("test", IF hostServer = NoNumber THEN "dead"
                      ELSE IF hostClient = NoNumber THEN "accept" ELSE "recv")
  /\ UNCHANGED <<hostClient, replaced, appOpen, backlog, toHost>>

HostAccepts ==
  /\ LoopStep("accept", "recv")
  /\ backlog # << >>
  /\ hostClient' = Head(backlog)
  /\ appOpen' = appOpen \union {Head(backlog)}
  /\ backlog' = Tail(backlog)
  /\ UNCHANGED <<replaced, toHost>>

(* Mutant: m_Client keeps an error of accept(), whose sign is not tested.   *)
HostAcceptKeepsError ==
  /\ LoopStep("accept", "dead")
  /\ hostClient' = Stale
  /\ UNCHANGED <<replaced, appOpen, backlog, toHost>>

(* accept() fails once the socket is shut down, and on any signal.         *)
HostAcceptFails ==
  /\ LoopStep("accept", "dead")
  /\ hostClient' = NoNumber
  /\ UNCHANGED <<replaced, appOpen, backlog, toHost>>

HostSeesShut == listener = "shut" /\ backlog = << >> /\ HostAcceptFails

(* A message that processMessage takes; one it refuses is a HostDrops.     *)
HostReceives ==
  /\ LoopStep("recv", "test")
  /\ hostClient \in appOpen \intersect toHost
  /\ toHost' = toHost \ {hostClient}
  /\ UNCHANGED <<hostClient, replaced, appOpen, backlog>>

(* recv() or processMessage has failed, a signal say: close(m_Client).     *)
HostDrops ==
  /\ LoopStep("recv", "gap")
  /\ appOpen' = appOpen \ {hostClient}
  /\ toHost' = toHost \ {hostClient}
  /\ replaced' = (writer # "idle")
  /\ UNCHANGED <<hostClient, backlog>>

HostSeesEnd ==
  /\ hostClient \in appOpen => hostClient \notin toHost /\ ~ClientHas(hostClient)
  /\ HostDrops

(* Mutant: m_Client = -1 is left out.                                      *)
HostKeepsNumber ==
  /\ LoopStep("gap", "test")
  /\ UNCHANGED <<hostClient, replaced, appOpen, backlog, toHost>>

(* m_Client = -1.                                                          *)
HostForgets ==
  /\ LoopStep("gap", "test")
  /\ hostClient' = NoNumber
  /\ UNCHANGED <<replaced, appOpen, backlog, toHost>>

-----------------------------------------------------------------------------
(* writeToSocket, on a thread that plays music                             *)

HostWrites ==
  /\ hostObj /\ hostPc \notin {"shut", "free"}
  /\ writer = "idle" /\ hostClient # NoNumber
  /\ writer' = "first"
  /\ meant' = hostClient
  /\ replaced' = (hostLoop = "gap")
  /\ UNCHANGED <<hostOwner, hostClient, hostLoop, stray,
                 listener, backlog, appOpen, toHost, toClient, pluginEnds>>

WriterStep(to) ==
  /\ writer # "idle"
  /\ writer' = to
  /\ IF to = "idle" THEN meant' = NoNumber /\ replaced' = FALSE ELSE UNCHANGED <<meant, replaced>>
  /\ UNCHANGED <<hostOwner, hostClient, hostLoop,
                 listener, backlog, appOpen, toHost, pluginEnds>>

(* send() takes all that is left, or a first part of it.  The number of a  *)
(* client just closed may take it as well.                                 *)
Sends ==
  /\ hostClient # NoNumber /\ (hostClient \in appOpen => Reachable)
  /\ toClient' = IF Reachable THEN toClient \union {hostClient} ELSE toClient
  /\ stray' = (stray \/ (~replaced /\ (hostClient # meant \/ hostClient \notin appOpen)))

HostSendsAll  == Sends /\ WriterStep("idle")
HostSendsPart == writer = "first" /\ Sends /\ WriterStep("rest")

(* The client has gone, or a signal interrupts send() before it has moved  *)
(* a byte: the write returns false.                                        *)
HostSendFails == WriterStep("idle") /\ UNCHANGED <<stray, toClient>>

-----------------------------------------------------------------------------
HostTypeOK ==
  /\ hostObj \in BOOLEAN /\ hostServer \in {NoNumber, Stale, Listening}
  /\ hostClient \in Conns \union {NoNumber}
  /\ hostPc \in {"idle", "join", "bind", "shut", "free"}
  /\ hostLoop \in {"none", "test", "accept", "recv", "gap", "dead"}
  /\ hostInits \in 0..MaxInits
  /\ writer \in {"idle", "first", "rest"}
  /\ meant \in Conns \union {NoNumber} /\ replaced \in BOOLEAN /\ stray \in BOOLEAN
=============================================================================
