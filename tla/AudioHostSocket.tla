--------------------------- MODULE AudioHostSocket ---------------------------
(***************************************************************************)
(* The Java host (AudioHostSocket): connect and disconnectSocket on threads *)
(* of the app or, from the listener and the callbacks, on a loop thread;    *)
(* the accept loops, and the clients.  connect() takes no lock: calls may   *)
(* overlap, each step of one between any two steps of another.  Server      *)
(* socket k and loop thread k are the k-th made.  Client 0 is a connection  *)
(* of the host to itself; what another client sends is as much of a frame   *)
(* as the loop can tell apart.                                             *)
(***************************************************************************)
EXTENDS Integers, Sequences

CONSTANTS
  Names,       \* names the app connects to
  NoName,      \* mSocketName before the first connect
  Apps,        \* threads of the app that call connect
  MaxCalls,    \* bound on the calls of connect
  MaxServers,  \* bound on the server sockets, and so on the loop threads
  MaxClients   \* bound on the clients that connect

Servers == 1..MaxServers
Callers == Apps \union Servers
Clients == 0..MaxClients

ASSUME NamesAssumption == NoName \notin Names

ASSUME BoundsAssumption ==
  MaxCalls \in Nat /\ MaxServers \in Nat /\ MaxClients \in Nat

ASSUME AppsAssumption == Apps \intersect Servers = {}

VARIABLES
  pc,       \* where each caller is in connect()
  target,   \* the name it connects to
  joins,    \* the thread its join() is on
  name,     \* mSocketName
  failed,   \* whether the last connect to end has thrown
  socket,   \* mSocket, 0 if null
  mName,    \* the name of the last server socket set up
  bound,    \* the name of each server socket
  closed,   \* server sockets on which close() has been called
  thread,   \* mLoopThread, 0 if null
  loopRun,  \* mLoopRun
  loop,     \* where each loop thread is
  on,       \* the server socket its accept() is on
  src,      \* the client it has accepted or reads from
  in,       \* mInStream, by its client
  queue,    \* connections to each server socket not yet accepted
  inbox,    \* what each client has sent and no loop read
  told,     \* loop threads that have called notifySocketError
  crashed,  \* history: a loop thread has ended in a NullPointerException
  crossed,  \* history: two calls of connect have overlapped
  calls, made, started, clients  \* counters for the bounds

connector == <<pc, target, joins, name, failed, mName, bound, calls, crossed>>
fields    == <<socket, thread, made, started>>
kernel    == <<closed, queue, clients>>
loops     == <<loop, on, src, in, inbox, told, crashed>>
vars == <<connector, fields, loopRun, kernel, loops>>

Init ==
  /\ pc = [c \in Callers |-> "idle"] /\ target = [c \in Callers |-> NoName]
  /\ joins = [c \in Callers |-> 0]
  /\ name = NoName /\ failed = FALSE /\ mName = NoName
  /\ bound = [k \in Servers |-> NoName]
  /\ socket = 0 /\ closed = {} /\ thread = 0
  /\ loopRun = FALSE /\ loop = [k \in Servers |-> "none"]
  /\ on = [k \in Servers |-> 0] /\ src = [k \in Servers |-> 0] /\ in = 0
  /\ queue = [k \in Servers |-> << >>]
  /\ inbox = [s \in Clients |-> IF s = 0 THEN "ended" ELSE "empty"]
  /\ told = {} /\ crashed = FALSE /\ crossed = FALSE
  /\ calls = 0 /\ made = 0 /\ started = 0 /\ clients = 0

Alive(k) == loop[k] \notin {"none", "dead"}

LoopAlive == thread # 0 /\ Alive(thread)

Busy(c) == pc[c] # "idle"

(* A thread inside accept() keeps a closed socket listening.               *)
Listening(s) ==
  s \in 1..made /\ (s \in closed => \E k \in Servers : loop[k] = "accepting" /\ on[k] = s)

-----------------------------------------------------------------------------
(* connect, disconnectSocket, initializeSocket, on thread c                *)

ConnectorStep(c, from, to) ==
  /\ pc[c] = from
  /\ pc' = [pc EXCEPT ![c] = to]

(* The call returns, or throws an IOException.                             *)
Returns(c, from) ==
  /\ ConnectorStep(c, from, "idle")
  /\ target' = [target EXCEPT ![c] = NoName]
  /\ joins' = [joins EXCEPT ![c] = 0]

(* A NullPointerException, which ends the thread if it is a loop thread.   *)
Throws(c, from) ==
  /\ Returns(c, from)
  /\ failed' = TRUE
  /\ loop' = [k \in Servers |-> IF k = c THEN "dead" ELSE loop[k]]
  /\ crashed' = (crashed \/ c \in Servers)
  /\ UNCHANGED <<name, mName, bound, calls, crossed, thread, made, started, clients, on, src, in,
                 inbox, told>>

(* The name is compared with mSocketName: connect does nothing if it is    *)
(* the same.  A callback or the listener may call it: on the loop thread.  *)
Connect(c, n) ==
  /\ calls < MaxCalls
  /\ c \in Servers => loop[c] \in {"handle", "notify"}
  /\ ConnectorStep(c, "idle", IF n = name THEN "idle" ELSE "test")
  /\ calls' = calls + 1
  /\ target' = [target EXCEPT ![c] = IF n = name THEN NoName ELSE n]
  /\ crossed' = (crossed \/ (n # name /\ \E d \in Callers : Busy(d)))
  /\ UNCHANGED <<joins, name, failed, mName, bound, fields, loopRun, kernel, loops>>

(* mSocket != null; if it is null, mSocketName = socketName comes next.    *)
TestSocket(c) ==
  /\ ConnectorStep(c, "test", IF socket = 0 THEN "init" ELSE "close")
  /\ name' = IF socket = 0 THEN target[c] ELSE name
  /\ UNCHANGED <<target, joins, failed, mName, bound, calls, crossed, fields, loopRun,
                 kernel, loops>>

(* Mutant: a null mSocket is closed like any other.                        *)
CloseUnasked(c) ==
  /\ ConnectorStep(c, "close", "wake")
  /\ loopRun' = FALSE
  /\ closed' = closed \union {socket}
  /\ UNCHANGED <<target, joins, name, failed, mName, bound, calls, crossed, fields, queue, clients,
                 loops>>

(* Mutant: mSocket is set to null before the close.                        *)
CloseForgets(c) ==
  /\ ConnectorStep(c, "close", "wake")
  /\ loopRun' = FALSE
  /\ closed' = closed \union {socket}
  /\ socket' = 0
  /\ UNCHANGED <<target, joins, name, failed, mName, bound, calls, crossed, thread, made, started,
                 queue, clients, loops>>

(* mLoopRun = false and mSocket.close(), which drops the connections that  *)
(* nobody will accept.                                                     *)
Close(c) ==
  /\ loopRun' = FALSE
  /\ \/ /\ socket # 0
        /\ ConnectorStep(c, "close", "wake")
        /\ closed' = closed \union {socket}
        /\ queue' = IF \E k \in Servers : loop[k] = "accepting" /\ on[k] = socket
                    THEN queue ELSE [queue EXCEPT ![socket] = << >>]
        /\ UNCHANGED <<target, joins, name, failed, mName, bound, calls, crossed, fields, clients,
                       loops>>
     \/ /\ socket = 0
        /\ Throws(c, "close")
        /\ UNCHANGED <<socket, closed, queue>>

(* Mutant: without the workaround for Android bug 29939.                   *)
NoWake(c) ==
  /\ ConnectorStep(c, "wake", "forget")
  /\ UNCHANGED <<target, joins, name, failed, mName, bound, calls, crossed, fields, loopRun, kernel,
                 loops>>

(* The workaround: a connection to itself, refused if nobody listens.      *)
Wake(c) ==
  /\ ConnectorStep(c, "wake", "forget")
  /\ queue' = [s \in Servers |-> IF Listening(s) /\ bound[s] = mName
                                 THEN Append(queue[s], 0) ELSE queue[s]]
  /\ UNCHANGED <<target, joins, name, failed, mName, bound, calls, crossed, fields, loopRun, closed,
                 clients, loops>>

(* mSocket = null, and mLoopThread as join() finds it.                     *)
Forget(c) ==
  /\ socket' = 0
  /\ \/ /\ thread # 0
        /\ ConnectorStep(c, "forget", "join")
        /\ joins' = [joins EXCEPT ![c] = thread]
        /\ UNCHANGED <<target, name, failed, mName, bound, calls, crossed, thread, made, started,
                       loopRun, kernel, loops>>
     \/ /\ thread = 0
        /\ Throws(c, "forget")
        /\ UNCHANGED <<loopRun, closed, queue>>

(* Mutant: no join().                                                      *)
NoJoin(c) ==
  /\ ConnectorStep(c, "join", "init")
  /\ name' = target[c]
  /\ joins' = [joins EXCEPT ![c] = 0]
  /\ UNCHANGED <<target, failed, mName, bound, calls, crossed, fields, loopRun, kernel, loops>>

(* mLoopThread.join() returns, then mSocketName = socketName.              *)
Join(c) ==
  /\ ConnectorStep(c, "join", "init")
  /\ ~Alive(joins[c])
  /\ name' = target[c]
  /\ joins' = [joins EXCEPT ![c] = 0]
  /\ UNCHANGED <<target, failed, mName, bound, calls, crossed, fields, loopRun, kernel, loops>>

(* The name is taken: the constructor of LocalServerSocket throws.         *)
InitializeFails(c) ==
  /\ Returns(c, "init")
  /\ failed' = TRUE
  /\ UNCHANGED <<name, mName, bound, calls, crossed, fields, loopRun, kernel, loops>>

(* mSocket = new LocalServerSocket(socketName).                            *)
Initialize(c) ==
  /\ ConnectorStep(c, "init", "start")
  /\ made < MaxServers
  /\ \A s \in Servers : Listening(s) => bound[s] # target[c]
  /\ made' = made + 1
  /\ socket' = made + 1
  /\ bound' = [bound EXCEPT ![made + 1] = target[c]]
  /\ UNCHANGED <<target, joins, name, failed, mName, calls, crossed, thread, started, loopRun,
                 kernel, loops>>

(* mName, mLoopRun = true, and the new mLoopThread is started.             *)
StartLoop(c) ==
  /\ Returns(c, "start")
  /\ started < MaxServers
  /\ failed' = FALSE
  /\ mName' = target[c]
  /\ started' = started + 1
  /\ thread' = started + 1
  /\ loopRun' = TRUE
  /\ loop' = [loop EXCEPT ![started + 1] = "check"]
  /\ UNCHANGED <<name, bound, calls, crossed, socket, made, kernel, on, src, in, inbox, told,
                 crashed>>

-----------------------------------------------------------------------------
(* mLoop                                                                   *)

LoopStep(k, from, to) ==
  /\ loop[k] = from
  /\ loop' = [loop EXCEPT ![k] = to]
  /\ UNCHANGED <<connector, fields, closed, clients>>

(* while (mLoopRun).                                                       *)
LoopCheck(k) ==
  /\ LoopStep(k, "check", IF loopRun THEN "accept" ELSE "dead")
  /\ UNCHANGED <<loopRun, queue, on, src, in, inbox, told, crashed>>

(* mSocket.accept(): a null mSocket is an exception nothing catches, a     *)
(* closed one an IOException, after which the loop goes on.                *)
LoopAccept(k) ==
  /\ LoopStep(k, "accept", IF socket = 0 THEN "dead"
                           ELSE IF socket \in closed THEN "check" ELSE "accepting")
  /\ on' = IF socket \in closed THEN on ELSE [on EXCEPT ![k] = socket]
  /\ crashed' = (crashed \/ socket = 0)
  /\ UNCHANGED <<loopRun, queue, src, in, inbox, told>>

LoopAccepted(k) ==
  /\ LoopStep(k, "accepting", "accepted")
  /\ queue[on[k]] # << >>
  /\ queue' = [queue EXCEPT ![on[k]] = Tail(@)]
  /\ src' = [src EXCEPT ![k] = Head(queue[on[k]])]
  /\ on' = [on EXCEPT ![k] = 0]
  /\ UNCHANGED <<loopRun, in, inbox, told, crashed>>

(* mSocket == null.                                                        *)
LoopTestsNull(k) ==
  /\ LoopStep(k, "accepted", IF socket = 0 THEN "dead" ELSE "address")
  /\ loopRun' = (loopRun /\ socket # 0)
  /\ UNCHANGED <<queue, on, src, in, inbox, told, crashed>>

(* mSocket.getLocalSocketAddress(), which may have become null since, then *)
(* the streams of the client become mInStream and mOutStream.              *)
LoopTestsAddress(k) ==
  /\ LoopStep(k, "address", IF socket = 0 THEN "dead" ELSE "log")
  /\ crashed' = (crashed \/ socket = 0)
  /\ in' = IF socket = 0 THEN in ELSE src[k]
  /\ UNCHANGED <<loopRun, queue, on, src, inbox, told>>

(* Here the NullPointerException is caught.                                *)
LoopLogs(k) ==
  /\ LoopStep(k, "log", IF socket = 0 THEN "dead" ELSE "poll")
  /\ loopRun' = (loopRun /\ socket # 0)
  /\ UNCHANGED <<queue, on, src, in, inbox, told, crashed>>

(* while (mLoopRun), and available(): 0 before a frame and after the end.  *)
LoopPolls(k) ==
  /\ ~loopRun \/ inbox[in] \in {"part", "good", "bad", "cut"}
  /\ LoopStep(k, "poll", IF loopRun THEN "read" ELSE "check")
  /\ src' = [src EXCEPT ![k] = in]
  /\ UNCHANGED <<loopRun, queue, on, in, inbox, told, crashed>>

(* processInputStream has read a frame and calls the callback.             *)
LoopReceives(k) ==
  /\ LoopStep(k, "read", "handle")
  /\ inbox[src[k]] = "good"
  /\ inbox' = [inbox EXCEPT ![src[k]] = "empty"]
  /\ UNCHANGED <<loopRun, queue, on, src, in, told, crashed>>

CallbackReturns(k) ==
  /\ ~Busy(k)
  /\ LoopStep(k, "handle", "poll")
  /\ UNCHANGED <<loopRun, queue, on, src, in, inbox, told, crashed>>

(* What is left after a frame that is refused, or that ends early.         *)
Rest(frame) == IF frame = "bad" THEN "empty" ELSE "ended"

(* Mutant: without notifySocketError().                                    *)
LoopStopsSilently(k) ==
  /\ LoopStep(k, "read", "notify")
  /\ inbox[src[k]] \in {"bad", "cut", "ended"}
  /\ inbox' = [inbox EXCEPT ![src[k]] = Rest(@)]
  /\ loopRun' = FALSE
  /\ UNCHANGED <<queue, on, src, in, told, crashed>>

(* Mutant: what read() returns is not looked at.                           *)
LoopIgnoresEnd(k) ==
  /\ LoopStep(k, "read", IF inbox[src[k]] = "bad" THEN "notify" ELSE "handle")
  /\ inbox[src[k]] \in {"bad", "cut", "ended"}
  /\ inbox' = [inbox EXCEPT ![src[k]] = Rest(@)]
  /\ loopRun' = (loopRun /\ inbox[src[k]] # "bad")
  /\ told' = IF inbox[src[k]] = "bad" THEN told \union {k} ELSE told
  /\ UNCHANGED <<queue, on, src, in, crashed>>

(* It returns false for SHUTDOWN, a frame it refuses, and a frame cut off. *)
LoopStops(k) ==
  /\ LoopStep(k, "read", "notify")
  /\ inbox[src[k]] \in {"bad", "cut", "ended"}
  /\ inbox' = [inbox EXCEPT ![src[k]] = Rest(@)]
  /\ loopRun' = FALSE
  /\ told' = told \union {k}
  /\ UNCHANGED <<queue, on, src, in, crashed>>

(* read() throws if the client's process left data of the host unread.     *)
LoopThrows(k) ==
  /\ LoopStep(k, "read", "check")
  /\ inbox[src[k]] = "cut"
  /\ inbox' = [inbox EXCEPT ![src[k]] = "ended"]
  /\ UNCHANGED <<loopRun, queue, on, src, in, told, crashed>>

ListenerReturns(k) ==
  /\ ~Busy(k)
  /\ LoopStep(k, "notify", "check")
  /\ UNCHANGED <<loopRun, queue, on, src, in, inbox, told, crashed>>

-----------------------------------------------------------------------------
(* The clients                                                             *)

ClientConnects(s) ==
  /\ clients < MaxClients
  /\ Listening(s)
  /\ clients' = clients + 1
  /\ queue' = [queue EXCEPT ![s] = Append(@, clients + 1)]
  /\ UNCHANGED <<connector, fields, loopRun, closed, loops>>

(* A client being served sends a frame or a part of one, or ends.          *)
ClientSends(from, to) ==
  /\ \E k \in Servers :
       /\ loop[k] \in {"poll", "read"}
       /\ inbox[src[k]] = from
       /\ inbox' = [inbox EXCEPT ![src[k]] = to]
  /\ UNCHANGED <<connector, fields, loopRun, kernel, loop, on, src, in, told, crashed>>

-----------------------------------------------------------------------------
(* A caller waits for good in join(), or no more calls are made.           *)
Over ==
  /\ \A c \in Callers : pc[c] \in {"idle", "join"}
  /\ calls = MaxCalls \/ \E c \in Callers : Busy(c)
  /\ UNCHANGED vars

ConnectorProgress(c) ==
  \/ TestSocket(c) \/ Close(c) \/ Wake(c) \/ Forget(c) \/ Join(c)
  \/ InitializeFails(c) \/ Initialize(c) \/ StartLoop(c)

LoopProgress(k) ==
  \/ LoopCheck(k) \/ LoopAccept(k) \/ LoopAccepted(k)
  \/ LoopTestsNull(k) \/ LoopTestsAddress(k) \/ LoopLogs(k) \/ LoopPolls(k)
  \/ LoopReceives(k) \/ CallbackReturns(k) \/ LoopStops(k) \/ LoopThrows(k) \/ ListenerReturns(k)

Next ==
  \/ \E c \in Callers : ConnectorProgress(c) \/ \E n \in Names : Connect(c, n)
  \/ \E k \in Servers : LoopProgress(k) \/ ClientConnects(k)
  \/ \E sent \in {"part", "good", "bad", "ended"} : ClientSends("empty", sent)
  \/ \E sent \in {"good", "bad", "cut"} : ClientSends("part", sent)
  \/ Over

Spec == Init /\ [][Next]_vars

(* Threads run.  Nothing forces a call, or a client to do anything.        *)
Fairness ==
  /\ \A c \in Callers : WF_vars(ConnectorProgress(c))
  /\ \A k \in Servers : WF_vars(LoopProgress(k))

FairSpec == Spec /\ Fairness

-----------------------------------------------------------------------------
(* Type correctness of the socket's fields, its threads and the clients.   *)
TypeOK ==
  /\ pc \in [Callers -> {"idle", "test", "close", "wake", "forget", "join", "init", "start"}]
  /\ target \in [Callers -> Names \union {NoName}]
  /\ name \in Names \union {NoName} /\ mName \in Names \union {NoName}
  /\ bound \in [Servers -> Names \union {NoName}]
  /\ failed \in BOOLEAN /\ loopRun \in BOOLEAN /\ crashed \in BOOLEAN /\ crossed \in BOOLEAN
  /\ made \in 0..MaxServers /\ started \in 0..MaxServers
  /\ socket \in 0..made /\ thread \in 0..started /\ joins \in [Callers -> 0..started]
  /\ closed \subseteq 1..made /\ told \subseteq 1..started
  /\ loop \in [Servers -> {"none", "check", "accept", "accepting", "accepted", "address", "log",
                           "poll", "read", "handle", "notify", "dead"}]
  /\ on \in [Servers -> 0..made] /\ src \in [Servers -> Clients] /\ in \in Clients
  /\ queue \in [Servers -> Seq(Clients)]
  /\ inbox \in [Clients -> {"empty", "part", "good", "bad", "cut", "ended"}]
  /\ calls \in 0..MaxCalls /\ clients \in 0..MaxClients

(* At most one loop thread is alive, however the socket is switched and    *)
(* wherever the loop then is, as long as no two calls of connect overlap:  *)
(* none stops the next one's loop through mLoopRun, nor reads its          *)
(* mInStream.  (A second call that finds mSocket null, while the first is  *)
(* in join(), sets mLoopRun again under the loop that should end.)         *)
OneLoop ==
  crossed \/ \A j, k \in Servers : Alive(j) /\ Alive(k) => j = k

(* The loop thread ends in an exception nothing catches only while         *)
(* disconnectSocket is taking mSocket away from it, if calls do not        *)
(* overlap.                                                                *)
CrashNeedsDisconnect == [][crashed' = crashed \/ crossed \/ \E c \in Callers : pc[c] = "join"]_vars

(* Connects that have returned leave a thread that serves the name, unless *)
(* the last one failed, the listener has been told that the thread has     *)
(* stopped, or calls have overlapped.                                      *)
LoopOrNotice ==
  (\A c \in Callers : ~Busy(c)) /\ name # NoName =>
    failed \/ LoopAlive \/ thread \in told \/ crossed

(* disconnectSocket gets the loop thread out of accept(), and connect      *)
(* returns to the app (on the loop thread itself it would wait for itself), *)
(* unless calls have overlapped, when the loop to be joined may go on, or  *)
(* the loop stays for good inside a frame that its client does not end.    *)
DisconnectReturns ==
  \A c \in Apps :
    Busy(c) ~> \/ ~Busy(c) \/ crossed
               \/ [](\E k \in Servers : loop[k] = "read" /\ inbox[src[k]] = "part")

(* A client that is cut off inside a frame does not hold the loop.  (One   *)
(* that goes away between frames does: available() is 0 for ever.)         *)
CutClientLeaves ==
  \A k \in Servers :
    loop[k] = "read" /\ inbox[src[k]] = "cut" ~> loop[k] \in {"accepting", "notify", "dead"}
=============================================================================
