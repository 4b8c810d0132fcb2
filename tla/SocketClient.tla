---------------------------- MODULE SocketClient ----------------------------
(***************************************************************************)
(* The plugins: in each, a SocketClient, the thread that owns it, the event *)
(* threads its successful initialize calls have started (named by the       *)
(* connection they were started for), and threads that write.               *)
(***************************************************************************)
EXTENDS LocalSockets

CONSTANT MaxReinits  \* bound on the calls of initialize on a running client

ASSUME ClientBounds == MaxReinits \in Nat

VARIABLES
  clientObj,     \* whether there is a SocketClient in each plugin
  clientServer,  \* its m_Server
  clientPc,      \* where its owner is in a call
  clientThread,  \* m_EventThread: the connection of its thread, 0 if none
  reinits,       \* calls of initialize with an event thread to stop
  clientLoop     \* where each event thread is

clientOwner == <<clientObj, clientServer, clientPc, clientThread, reinits>>
clientVars  == <<clientOwner, clientLoop>>

appEnd == <<appOpen, listener>>

ClientInit ==
  /\ clientObj = [p \in Plugins |-> FALSE]
  /\ clientServer = [p \in Plugins |-> NoNumber]
  /\ clientPc = [p \in Plugins |-> "idle"]
  /\ clientThread = [p \in Plugins |-> 0]
  /\ reinits = [p \in Plugins |-> 0]
  /\ clientLoop = [k \in Conns |-> "none"]

-----------------------------------------------------------------------------
(* The owner                                                               *)

CallStep(p, from, to) ==
  /\ clientPc[p] = from
  /\ clientPc' = [clientPc EXCEPT ![p] = to]
  /\ UNCHANGED <<appEnd, inRecv, toHost, toClient>>

ClientConstruct(p) ==
  /\ CallStep(p, "idle", "idle")
  /\ ~clientObj[p]
  /\ clientObj' = [clientObj EXCEPT ![p] = TRUE]
  /\ UNCHANGED <<clientServer, clientThread, reinits, clientLoop,
                 pluginOpen, backlog, maker>>

ClientInitialize(p) ==
  /\ CallStep(p, "idle", "connect")
  /\ clientObj[p] /\ clientThread[p] = 0
  /\ UNCHANGED <<clientObj, clientServer, clientThread, reinits, clientLoop,
                 pluginOpen, backlog, maker>>

(* "Ensure we stop previous events": m_Server = -1, and a join to come.    *)
ClientReinitialize(p) ==
  /\ CallStep(p, "idle", "join")
  /\ clientObj[p] /\ clientThread[p] # 0 /\ reinits[p] < MaxReinits
  /\ clientServer' = [clientServer EXCEPT ![p] = NoNumber]
  /\ reinits' = [reinits EXCEPT ![p] = @ + 1]
  /\ UNCHANGED <<clientObj, clientThread, clientLoop, pluginOpen, backlog, maker>>

(* Mutant: the thread is detached, as the destructor does, not joined.     *)
ClientDetaches(p) ==
  /\ CallStep(p, "join", "connect")
  /\ clientThread' = [clientThread EXCEPT ![p] = 0]
  /\ UNCHANGED <<clientObj, clientServer, reinits, clientLoop, pluginOpen, backlog, maker>>

ClientJoin(p) ==
  /\ CallStep(p, "join", "connect")
  /\ clientLoop[clientThread[p]] = "dead"
  /\ clientThread' = [clientThread EXCEPT ![p] = 0]
  /\ UNCHANGED <<clientObj, clientServer, reinits, clientLoop, pluginOpen, backlog, maker>>

(* connect() succeeds as soon as the kernel can queue the connection, and  *)
(* the event thread starts.                                                *)
ClientConnects(p, k) ==
  /\ CallStep(p, "connect", "idle")
  /\ listener = "open" /\ Len(backlog) < Backlog
  /\ maker[k] = NoPlugin /\ \A j \in 1..(k - 1) : maker[j] # NoPlugin
  /\ maker' = [maker EXCEPT ![k] = p]
  /\ backlog' = Append(backlog, k)
  /\ pluginOpen' = pluginOpen \union {k}
  /\ clientServer' = [clientServer EXCEPT ![p] = k]
  /\ clientThread' = [clientThread EXCEPT ![p] = k]
  /\ clientLoop' = [clientLoop EXCEPT ![k] = "loop"]
  /\ UNCHANGED <<clientObj, reinits>>

(* socket() fails, or else connect(), which nobody listens to or a signal  *)
(* interrupts: the socket is closed and m_Server keeps its number.         *)
ClientRefused(p) ==
  /\ CallStep(p, "connect", "idle")
  /\ \E n \in {NoNumber, Stale} : clientServer' = [clientServer EXCEPT ![p] = n]
  /\ UNCHANGED <<clientObj, clientThread, reinits, clientLoop, pluginOpen, backlog, maker>>

(* detach: a thread inside recv() keeps the connection open.  Otherwise,   *)
(* and once recv() returns, the thread goes on with freed memory, and the  *)
(* model follows it no further.                                            *)
Deletes(p) ==
  /\ CallStep(p, "idle", "idle")
  /\ clientObj[p]
  /\ clientObj' = [clientObj EXCEPT ![p] = FALSE]
  /\ clientServer' = [clientServer EXCEPT ![p] = NoNumber]
  /\ clientLoop' = [k \in Conns |-> IF k # clientThread[p] THEN clientLoop[k]
                                    ELSE IF k \in inRecv THEN "orphan" ELSE "dead"]
  /\ clientThread' = [clientThread EXCEPT ![p] = 0]
  /\ UNCHANGED <<reinits, backlog, maker>>

(* Mutant: the destructor leaves the socket to the kernel.                 *)
ClientDestroyLeaks(p) == Deletes(p) /\ UNCHANGED pluginOpen

(* The destructor: close(m_Server) and detach.                             *)
ClientDestroy(p) == Deletes(p) /\ pluginOpen' = pluginOpen \ {clientServer[p]}

(* writeToSocket.                                                          *)
ClientWrites(p) ==
  LET k == clientServer[p]
  IN  /\ k \in pluginOpen /\ HostHas(k)
      /\ toHost' = toHost \union {k}
      /\ UNCHANGED <<clientVars, appEnd, pluginOpen, backlog, maker, inRecv, toClient>>

-----------------------------------------------------------------------------
(* The event thread: processEventsThread and processEvents                 *)

ThreadStep(k, to) ==
  /\ clientLoop' = [clientLoop EXCEPT ![k] = to]
  /\ UNCHANGED <<clientOwner, appEnd, backlog, maker, toHost>>

Outside(k) == clientLoop[k] = "loop" /\ k \notin inRecv

(* Mutant: while (true).                                                   *)
ClientLoopsForever(k) ==
  /\ Outside(k)
  /\ inRecv' = inRecv \union {k}
  /\ ThreadStep(k, "loop") /\ UNCHANGED <<pluginOpen, toClient>>

(* while (m_Server >= 0), then recv(), with its own connection in m_Server. *)
ClientTest(k) ==
  /\ Outside(k)
  /\ IF clientServer[maker[k]] # NoNumber
     THEN ThreadStep(k, "loop") /\ inRecv' = inRecv \union {k}
     ELSE ThreadStep(k, "dead") /\ UNCHANGED inRecv
  /\ UNCHANGED <<pluginOpen, toClient>>

(* recv() returns.                                                         *)
Returns(k, to) ==
  /\ k \in inRecv
  /\ inRecv' = inRecv \ {k}
  /\ ThreadStep(k, IF clientLoop[k] = "orphan" THEN "dead" ELSE to)

(* A message; the client ignores what processMessage returns.              *)
ClientReceives(k) ==
  /\ k \in toClient
  /\ toClient' = toClient \ {k}
  /\ Returns(k, "loop") /\ UNCHANGED pluginOpen

AtEnd(k) == k \notin toClient /\ ~HostHas(k) /\ Returns(k, "dead") /\ UNCHANGED toClient

(* Mutant: the thread closes the socket, and m_Server keeps its number.    *)
ClientClosesAtEnd(k) == AtEnd(k) /\ pluginOpen' = pluginOpen \ {k}

(* The end of the stream ends the thread, and leaves the socket as it is.  *)
ClientSeesEnd(k) == AtEnd(k) /\ UNCHANGED pluginOpen

(* So does a signal.                                                       *)
ClientInterrupted(k) == Returns(k, "dead") /\ UNCHANGED <<pluginOpen, toClient>>

-----------------------------------------------------------------------------
ClientTypeOK ==
  /\ clientObj \in [Plugins -> BOOLEAN]
  /\ clientServer \in [Plugins -> Conns \union {NoNumber, Stale}]
  /\ clientPc \in [Plugins -> {"idle", "join", "connect"}]
  /\ clientThread \in [Plugins -> Conns \union {0}]
  /\ reinits \in [Plugins -> 0..MaxReinits]
  /\ clientLoop \in [Conns -> {"none", "loop", "dead", "orphan"}]
=============================================================================
