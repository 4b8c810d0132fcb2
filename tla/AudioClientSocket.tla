------------------------- MODULE AudioClientSocket -------------------------
(***************************************************************************)
(* The life of a Java plugin's AudioClientSocket: connect() on binder       *)
(* threads or, from a callback, on a loop thread; the loop threads, the     *)
(* player threads that write frames, and the app at the other end.          *)
(* connect() takes no lock: calls may overlap.  Connections and loop        *)
(* threads are numbered from 1 as they are made; 0 stands for a null field. *)
(*                                                                         *)
(* A frame to the plugin is one item, SHUTDOWN or not.  A frame from the    *)
(* plugin is two writes, its header (size and opcode) and its body, since   *)
(* it is between these that another thread gets in.                         *)
(***************************************************************************)
EXTENDS Integers, FiniteSets

CONSTANTS
  Names,        \* socket names the app hands to the plugin
  NoName,       \* mSocketName before the first connect
  Binders,      \* threads of the plugin that call connect
  Players,      \* threads of the plugin that write
  BytesApi,     \* they use writeAudioData(byte[], int, int)
  MaxCalls,     \* bound on the calls of connect
  MaxConnects,  \* bound on the connections made, and so on the loop threads
  MaxWrites,    \* bound on the frames written
  MaxMessages   \* bound on the frames the app sends

Conns == 1..MaxConnects
Callers == Binders \union Conns

ASSUME ClientAssumption ==
  /\ NoName \notin Names
  /\ BytesApi \in BOOLEAN
  /\ MaxCalls \in Nat /\ MaxConnects \in Nat /\ MaxWrites \in Nat /\ MaxMessages \in Nat
  /\ Binders \intersect Conns = {}

VARIABLES
  pc,         \* where each caller is in connect()
  target,     \* its argument
  joins,      \* the thread its join() is on
  name,       \* mSocketName
  socket,     \* mSocket: "null", "unconnected" or "connected"
  in, out,    \* mInStream and mOutStream
  coded,      \* the stream mCodedOutputStream wraps, -1 if it is null
  loopRun,    \* mLoopRun
  thread,     \* mLoopThread
  loop,       \* where each loop thread is
  src,        \* the stream its read() is on
  interrupted, \* loop threads whose interrupt flag is set
  ppc, dst,   \* where each player is, and the stream it got
  closed,     \* connections whose LocalSocket the plugin has closed
  host,       \* the app's end: "up", "shut" (SHUTDOWN sent) or "gone"
  inbox,      \* the frame the app has sent and the plugin not read
  made, started, calls, writes, messages, \* counters for the bounds
  unfinished, \* history: connections with a header and no body after it
  torn,       \* history: connections that are no sequence of frames
  overlapped, \* history: two players have been writing at once
  reentered,  \* history: connect() has switched the socket from a callback
  crossed     \* history: two calls of connect have overlapped

connectVars == <<pc, target, joins, name, interrupted, calls, reentered, crossed>>
fieldVars  == <<socket, in, out, thread, made, started>>
loopVars   == <<loop, src>>
playerVars == <<ppc, dst, coded, writes, unfinished, torn, overlapped>>
hostVars   == <<host, inbox, messages>>
vars == <<connectVars, fieldVars, loopRun, loopVars, playerVars, closed, hostVars>>

-----------------------------------------------------------------------------
Init ==
  /\ pc = [c \in Callers |-> "idle"] /\ target = [c \in Callers |-> NoName]
  /\ joins = [c \in Callers |-> 0]
  /\ name = NoName /\ socket = "null" /\ in = 0 /\ out = 0 /\ coded = -1
  /\ loopRun = FALSE /\ thread = 0 /\ interrupted = {}
  /\ loop = [k \in Conns |-> "none"] /\ src = [k \in Conns |-> 0]
  /\ ppc = [p \in Players |-> "idle"] /\ dst = [p \in Players |-> 0]
  /\ closed = {}
  /\ host = [k \in Conns |-> "up"] /\ inbox = [k \in Conns |-> "empty"]
  /\ made = 0 /\ started = 0 /\ calls = 0 /\ writes = 0 /\ messages = 0
  /\ unfinished = {} /\ torn = {}
  /\ overlapped = FALSE /\ reentered = FALSE /\ crossed = FALSE

Alive(k) == loop[k] \notin {"none", "dead"}

Busy(c) == pc[c] # "idle"

-----------------------------------------------------------------------------
(* connect, disconnectSocket, initializeSocket, on thread c                *)

ConnectStep(c, from, to) ==
  /\ pc[c] = from
  /\ pc' = [pc EXCEPT ![c] = to]

(* The call returns, or throws an IOException.                             *)
Returns(c, from) ==
  /\ ConnectStep(c, from, "idle")
  /\ target' = [target EXCEPT ![c] = NoName]
  /\ joins' = [joins EXCEPT ![c] = 0]

(* A NullPointerException, which ends the thread if it is a loop thread.   *)
Throws(c, from) ==
  /\ Returns(c, from)
  /\ loop' = [k \in Conns |-> IF k = c THEN "dead" ELSE loop[k]]
  /\ UNCHANGED <<name, interrupted, in, out, thread, made, started, src>>

(* The name is compared with mSocketName: connect does nothing if it is    *)
(* the same.  It is called on a binder thread, or by a callback.           *)
Connect(c, n) ==
  /\ calls < MaxCalls
  /\ c \in Conns => loop[c] = "handle"
  /\ ConnectStep(c, "idle", IF n = name THEN "idle" ELSE "test")
  /\ calls' = calls + 1
  /\ target' = [target EXCEPT ![c] = IF n = name THEN NoName ELSE n]
  /\ crossed' = (crossed \/ (n # name /\ \E d \in Callers : Busy(d)))
  /\ UNCHANGED <<joins, name, interrupted, reentered, fieldVars, loopRun, loopVars, playerVars,
                 closed, hostVars>>

(* mSocket != null; if it is null, mSocketName = socketName comes next.    *)
TestSocket(c) ==
  /\ ConnectStep(c, "test", IF socket = "null" THEN "init" ELSE "disconnect")
  /\ name' = IF socket = "null" THEN target[c] ELSE name
  /\ UNCHANGED <<target, joins, interrupted, calls, reentered, crossed, fieldVars, loopRun, loopVars,
                 playerVars, closed, hostVars>>

(* mLoopRun = false, the streams are closed, which closes the LocalSocket, *)
(* mSocket = null, and mLoopThread.interrupt().  After a first connection  *)
(* that failed mInStream is still null; mSocket, or mLoopThread, is null   *)
(* only if another call has got in between.                                *)
Disconnect(c) ==
  /\ loopRun' = FALSE
  /\ closed' = closed \union ({in} \ {0})
  /\ socket' = IF in = 0 THEN socket ELSE "null"
  /\ IF in = 0 \/ socket = "null" \/ thread = 0
     THEN Throws(c, "disconnect") /\ UNCHANGED reentered
     ELSE /\ ConnectStep(c, "disconnect", "join")
          /\ joins' = [joins EXCEPT ![c] = thread]
          /\ interrupted' = IF Alive(thread) THEN interrupted \union {thread} ELSE interrupted
          /\ reentered' = (reentered \/ c \in Conns)
          /\ UNCHANGED <<target, name, in, out, thread, made, started, loopVars>>
  /\ UNCHANGED <<calls, crossed, playerVars, hostVars>>

(* Mutant: mLoopThread.interrupt() without the join().                     *)
NoJoin(c) ==
  /\ ConnectStep(c, "join", "init")
  /\ name' = target[c]
  /\ joins' = [joins EXCEPT ![c] = 0]
  /\ UNCHANGED <<target, interrupted, calls, reentered, crossed, fieldVars, loopRun, loopVars,
                 playerVars, closed, hostVars>>

(* join() returns, or throws on a thread that is interrupted, as one that  *)
(* joins itself is: either way mSocketName = socketName.                   *)
Join(c) ==
  /\ ConnectStep(c, "join", "init")
  /\ \/ loop[joins[c]] = "dead" /\ UNCHANGED interrupted
     \/ c \in interrupted /\ interrupted' = interrupted \ {c}
  /\ name' = target[c]
  /\ joins' = [joins EXCEPT ![c] = 0]
  /\ UNCHANGED <<target, calls, reentered, crossed, fieldVars, loopRun, loopVars, playerVars, closed,
                 hostVars>>

(* Mutant: the streams are taken from the LocalSocket before it connects.  *)
FailsWithStream(c) ==
  /\ Returns(c, "init")
  /\ socket' = "unconnected"
  /\ out' = made + 1
  /\ UNCHANGED <<name, interrupted, calls, reentered, crossed, in, thread, made, started, loopRun,
                 loopVars, playerVars, closed, hostVars>>

(* Nothing listens under that name: LocalSocket.connect throws, and the    *)
(* new LocalSocket stays in mSocket.                                       *)
ConnectFails(c) ==
  /\ Returns(c, "init")
  /\ socket' = "unconnected"
  /\ UNCHANGED <<name, interrupted, calls, reentered, crossed, in, out, thread, made, started, loopRun,
                 loopVars, playerVars, closed, hostVars>>

ConnectSucceeds(c) ==
  /\ ConnectStep(c, "init", "start")
  /\ made < MaxConnects
  /\ made' = made + 1
  /\ socket' = "connected"
  /\ in' = made + 1 /\ out' = made + 1
  /\ UNCHANGED <<target, joins, name, interrupted, calls, reentered, crossed, thread, started, loopRun,
                 loopVars, playerVars, closed, hostVars>>

(* mLoopRun = true, and the new mLoopThread is started.                    *)
StartLoop(c) ==
  /\ Returns(c, "start")
  /\ started < MaxConnects
  /\ started' = started + 1
  /\ thread' = started + 1
  /\ loopRun' = TRUE
  /\ loop' = [loop EXCEPT ![started + 1] = "check"]
  /\ UNCHANGED <<name, interrupted, calls, reentered, crossed, socket, in, out, made, src, playerVars,
                 closed, hostVars>>

-----------------------------------------------------------------------------
(* mLoop, and processInputStream for the frames it takes                   *)

LoopStep(k, from, to) ==
  /\ loop[k] = from
  /\ loop' = [loop EXCEPT ![k] = to]
  /\ UNCHANGED <<connectVars, fieldVars, playerVars, closed, host, messages>>

(* Mutant: while (true).                                                   *)
LoopForever(k) == LoopStep(k, "check", "call") /\ UNCHANGED <<loopRun, src, inbox>>

(* while (mLoopRun).                                                       *)
LoopCheck(k) ==
  /\ LoopStep(k, "check", IF loopRun THEN "call" ELSE "dead")
  /\ UNCHANGED <<loopRun, src, inbox>>

(* mInStream.read() blocks in the kernel, or throws if the stream has been *)
(* closed by then.                                                         *)
LoopCall(k) ==
  \/ /\ in \notin closed
     /\ LoopStep(k, "call", "read")
     /\ src' = [src EXCEPT ![k] = in]
     /\ UNCHANGED <<loopRun, inbox>>
  \/ /\ in \in closed
     /\ LoopStep(k, "call", "check")
     /\ loopRun' = FALSE
     /\ UNCHANGED <<src, inbox>>

(* A frame arrives.  processInputStream handles it, returns false for      *)
(* SHUTDOWN, and throws if the stream has been closed since.               *)
LoopReceive(k) ==
  LET s    == src[k]
      good == inbox[s] = "message" /\ s \notin closed
  IN  /\ LoopStep(k, "read", IF good THEN "handle" ELSE "check")
      /\ inbox[s] # "empty"
      /\ inbox' = [inbox EXCEPT ![s] = "empty"]
      /\ loopRun' = (loopRun /\ good)
      /\ src' = IF good THEN src ELSE [src EXCEPT ![k] = 0]

(* The app's end is closed: read() returns -1 and the loop breaks.         *)
LoopSeesEnd(k) ==
  /\ LoopStep(k, "read", "dead")
  /\ inbox[src[k]] = "empty" /\ host[src[k]] = "gone"
  /\ loopRun' = FALSE
  /\ src' = [src EXCEPT ![k] = 0]
  /\ UNCHANGED inbox

(* close() may wake a read() that is blocked in the kernel; it may also    *)
(* leave it there until the app sends something or ends.                   *)
LoopWoken(k) ==
  /\ LoopStep(k, "read", "check")
  /\ src[k] \in closed
  /\ loopRun' = FALSE
  /\ src' = [src EXCEPT ![k] = 0]
  /\ UNCHANGED inbox

CallbackReturns(k) ==
  /\ ~Busy(k)
  /\ LoopStep(k, "handle", "check")
  /\ src' = [src EXCEPT ![k] = 0]
  /\ UNCHANGED <<loopRun, inbox>>

-----------------------------------------------------------------------------
(* writeAudioData and the other writes                                     *)

(* The stream takes what is written to it.                                 *)
Usable(s) == s \in Conns /\ s \notin closed /\ host[s] # "gone"

EndWrite(p) ==
  /\ ppc' = [ppc EXCEPT ![p] = "idle"]
  /\ dst' = [dst EXCEPT ![p] = 0]

(* A player gets the stream; mOutStream is not volatile, and it may see    *)
(* one from before.  The byte[] method makes a CodedOutputStream of it the *)
(* first time, and keeps that.                                             *)
BeginWrite(p) ==
  /\ ppc[p] = "idle" /\ writes < MaxWrites
  /\ writes' = writes + 1
  /\ ppc' = [ppc EXCEPT ![p] = "header"]
  /\ \E s \in 0..out :
       /\ dst' = [dst EXCEPT ![p] = s]
       /\ coded' = IF BytesApi /\ coded = -1 THEN s ELSE coded
  /\ overlapped' = (overlapped \/ \E q \in Players \ {p} : ppc[q] # "idle")
  /\ UNCHANGED <<connectVars, fieldVars, loopRun, loopVars, unfinished, torn, closed, hostVars>>

WriteHeader(p) ==
  LET s == dst[p]
  IN  /\ ppc[p] = "header"
      /\ Usable(s)
      /\ ppc' = [ppc EXCEPT ![p] = "body"]
      /\ torn' = IF s \in unfinished THEN torn \union {s} ELSE torn
      /\ unfinished' = unfinished \union {s}
      /\ UNCHANGED <<connectVars, fieldVars, loopRun, loopVars, dst, coded, writes, overlapped,
                     closed, hostVars>>

(* Mutant: the body goes to what getOutputStream() returns by now.         *)
BodyToLatestStream(p) == out

(* The stream the body is written to.                                      *)
BodyStream(p) == IF BytesApi THEN coded ELSE dst[p]

WriteBody(p) ==
  LET s == BodyStream(p)
  IN  /\ ppc[p] = "body"
      /\ Usable(s)
      /\ EndWrite(p)
      /\ torn' = IF s \in unfinished THEN torn ELSE torn \union {s}
      /\ unfinished' = unfinished \ {s}
      /\ UNCHANGED <<connectVars, fieldVars, loopRun, loopVars, coded, writes, overlapped,
                     closed, hostVars>>

(* write() throws: the caller gets the exception, and the frame is left    *)
(* where it is.                                                            *)
WriteThrows(p) ==
  /\ \/ ppc[p] = "header" /\ ~Usable(dst[p])
     \/ ppc[p] = "body" /\ ~Usable(BodyStream(p))
  /\ EndWrite(p)
  /\ UNCHANGED <<connectVars, fieldVars, loopRun, loopVars, coded, writes, unfinished, torn,
                 overlapped, closed, hostVars>>

-----------------------------------------------------------------------------
(* The app: a SocketHost or an AudioHostSocket per connection.             *)

HostStep(k, kind) ==
  /\ k <= made
  /\ messages < MaxMessages
  /\ messages' = messages + 1
  /\ host[k] = "up" /\ inbox[k] = "empty"
  /\ inbox' = [inbox EXCEPT ![k] = kind]
  /\ UNCHANGED <<connectVars, fieldVars, loopRun, loopVars, playerVars, closed>>

HostSends(k) == HostStep(k, "message") /\ UNCHANGED host

(* The destructor of a SocketHost sends SHUTDOWN; it leaves the connection *)
(* of its client open.                                                     *)
HostShutdown(k) ==
  /\ HostStep(k, "shutdown")
  /\ host' = [host EXCEPT ![k] = "shut"]

HostDies(k) ==
  /\ k <= made
  /\ host[k] # "gone"
  /\ host' = [host EXCEPT ![k] = "gone"]
  /\ UNCHANGED <<connectVars, fieldVars, loopRun, loopVars, playerVars, closed, inbox, messages>>

-----------------------------------------------------------------------------
(* No more calls and writes, or join() waits: the loop may stay in its     *)
(* read() for good, on a stream that is closed too.                        *)
Over ==
  /\ \A c \in Callers : pc[c] \in {"idle", "join"}
  /\ calls = MaxCalls \/ \E c \in Callers : Busy(c)
  /\ writes = MaxWrites /\ \A p \in Players : ppc[p] = "idle"
  /\ UNCHANGED vars

ConnectProgress(c) ==
  \/ TestSocket(c) \/ Disconnect(c) \/ Join(c)
  \/ ConnectFails(c) \/ ConnectSucceeds(c) \/ StartLoop(c)

LoopProgress(k) ==
  LoopCheck(k) \/ LoopCall(k) \/ LoopReceive(k) \/ LoopSeesEnd(k) \/ CallbackReturns(k)

Next ==
  \/ \E c \in Callers : ConnectProgress(c) \/ \E n \in Names : Connect(c, n)
  \/ \E k \in Conns : \/ LoopProgress(k) \/ LoopWoken(k)
                      \/ HostSends(k) \/ HostShutdown(k) \/ HostDies(k)
  \/ \E p \in Players : BeginWrite(p) \/ WriteHeader(p) \/ WriteBody(p) \/ WriteThrows(p)
  \/ Over

Spec == Init /\ [][Next]_vars

(* Threads run.  Nothing forces close() to wake a read(), or the app to    *)
(* send anything on a connection, to release it, or to end.                *)
Fairness ==
  /\ \A c \in Callers : WF_vars(ConnectProgress(c))
  /\ \A k \in Conns : WF_vars(LoopProgress(k))

FairSpec == Spec /\ Fairness

-----------------------------------------------------------------------------
(* Type correctness of the socket's fields, its threads and the app.       *)
TypeOK ==
  /\ pc \in [Callers -> {"idle", "test", "disconnect", "join", "init", "start"}]
  /\ target \in [Callers -> Names \union {NoName}] /\ name \in Names \union {NoName}
  /\ joins \in [Callers -> 0..started]
  /\ socket \in {"null", "unconnected", "connected"}
  /\ in \in 0..made /\ out \in 0..made /\ coded \in -1..made /\ thread \in 0..started
  /\ loopRun \in BOOLEAN
  /\ loop \in [Conns -> {"none", "check", "call", "read", "handle", "dead"}]
  /\ src \in [Conns -> 0..made] /\ interrupted \subseteq 1..started
  /\ ppc \in [Players -> {"idle", "header", "body"}] /\ dst \in [Players -> 0..made]
  /\ closed \subseteq 1..made
  /\ host \in [Conns -> {"up", "shut", "gone"}]
  /\ inbox \in [Conns -> {"empty", "message", "shutdown"}]
  /\ made \in 0..MaxConnects /\ started \in 0..MaxConnects /\ calls \in 0..MaxCalls
  /\ writes \in 0..MaxWrites /\ messages \in 0..MaxMessages
  /\ unfinished \subseteq Conns /\ torn \subseteq Conns
  /\ overlapped \in BOOLEAN /\ reentered \in BOOLEAN /\ crossed \in BOOLEAN

(* "the provider must handle switching audio socket on the fly"            *)
(* (IMusicProvider.aidl): whenever the socket is switched, with the loop   *)
(* blocked in read() or inside a callback, at most one loop thread is      *)
(* alive, so none resets mLoopRun after connect has set it for the next,   *)
(* and it reads no stream but the current mInStream.  Two things break     *)
(* that: a switch from inside a callback, whose thread goes on, and a call *)
(* of connect that overlaps another, which may find mSocket null and start *)
(* a loop while the other is still in join().                              *)
OneLoopReads ==
  \/ reentered \/ crossed
  \/ /\ \A j, k \in Conns : Alive(j) /\ Alive(k) => j = k
     /\ \A k \in Conns : loop[k] \in {"read", "handle"} => src[k] = in /\ in = k

(* A header is followed by its own body on the connection it was written   *)
(* to, whatever connections come and go between the two writes, and        *)
(* however calls of connect overlap, unless two players write at once.     *)
WholeFrames == torn = {} \/ overlapped

(* connect() returns, to a binder thread or a callback, as long as calls   *)
(* do not overlap, unless a loop thread stays for good in a read() that    *)
(* close() has not woken, on a connection on which the app neither sends   *)
(* anything nor ends.  (Nothing makes the app do either: it may itself be  *)
(* waiting for this call.)                                                 *)
ConnectReturns ==
  \A c \in Callers :
    Busy(c) ~> \/ ~Busy(c) \/ crossed
               \/ [](\E k \in Conns : /\ loop[k] = "read" /\ src[k] \in closed
                                      /\ inbox[src[k]] = "empty" /\ host[src[k]] # "gone")
=============================================================================
