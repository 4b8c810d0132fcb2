----------------------- MODULE AudioClientSocketProofs -----------------------
(***************************************************************************)
(* Proofs about AudioClientSocket, for every number of names, threads that  *)
(* call connect, players, connections, calls, writes and messages.         *)
(***************************************************************************)
EXTENDS AudioClientSocket, TLAPS

PcAt == {"idle", "test", "disconnect", "join", "init", "start"}
LoopAt == {"none", "check", "call", "read", "handle", "dead"}
InboxAt == {"empty", "message", "shutdown"}

(* A thread that is alive has been started.                                *)
Started == \A k \in Conns : Alive(k) => k <= started

TypeInv == TypeOK /\ Started

(* The calls of connect take turns, and what each finds at its steps.      *)
OneConnect ==
  /\ \A c, d \in Callers : Busy(c) /\ Busy(d) => c = d
  /\ \A c \in Callers : Busy(c) /\ c \in Conns =>
       loop[c] = "handle" /\ pc[c] \in {"test", "disconnect"}
  /\ \A c \in Callers : pc[c] \in {"disconnect", "start"} => socket # "null"
  /\ \A c \in Callers : pc[c] = "join" => thread # 0 /\ joins[c] = thread
  /\ \A c \in Callers : pc[c] = "start" => made = started + 1 /\ in = made
  /\ (\A c \in Callers : pc[c] # "start") => made = started

(* Only mLoopThread is alive, on mInStream, and it is gone where connect   *)
(* sets up the next.                                                       *)
OnlyThread ==
  /\ \A k \in Conns : Alive(k) => k = thread /\ in = k
  /\ \A k \in Conns : loop[k] \in {"read", "handle"} => src[k] = k
  /\ \A c \in Callers : pc[c] \in {"init", "start"} => \A k \in Conns : ~Alive(k)
  /\ socket = "null" /\ (\A c \in Callers : pc[c] \in {"idle", "test"}) => \A k \in Conns : ~Alive(k)

(* Without a switch from a callback and calls that overlap.                *)
Solo == ~crossed /\ ~reentered => OneConnect /\ OnlyThread

Inv == TypeInv /\ Solo

Writing(p) == ppc[p] # "idle"

(* A connection that takes data has a header without a body only while a   *)
(* player is between the two; and the players take turns until overlapped. *)
HalfWritten ==
  ~overlapped =>
    /\ torn = {}
    /\ \A p, q \in Players : Writing(p) /\ Writing(q) => p = q
    /\ \A p \in Players : ppc[p] = "body" => dst[p] \in unfinished
    /\ \A s \in unfinished : Usable(s) => \E p \in Players : ppc[p] = "body" /\ dst[p] = s

-----------------------------------------------------------------------------
LEMMA Initially == Init => Inv /\ HalfWritten
<1> SUFFICES ASSUME Init PROVE Inv /\ HalfWritten
  OBVIOUS
<1>1. \A k \in Conns : ~Alive(k) /\ loop[k] = "none"
  BY DEF Init, Alive
<1>2. TypeOK
  <2>1. /\ made \in 0..MaxConnects /\ started \in 0..MaxConnects /\ calls \in 0..MaxCalls
        /\ writes \in 0..MaxWrites /\ messages \in 0..MaxMessages /\ thread \in 0..started
        /\ in \in 0..made /\ out \in 0..made /\ coded \in -1..made
    BY ClientAssumption DEF Init
  <2>2. /\ loop \in [Conns -> LoopAt] /\ src \in [Conns -> 0..made]
        /\ host \in [Conns -> {"up", "shut", "gone"}] /\ inbox \in [Conns -> InboxAt]
    BY <2>1 DEF Init, LoopAt, InboxAt
  <2>3. /\ ppc \in [Players -> {"idle", "header", "body"}] /\ dst \in [Players -> 0..made]
    BY <2>1 DEF Init
  <2>4. /\ pc \in [Callers -> PcAt] /\ target \in [Callers -> Names \union {NoName}]
        /\ joins \in [Callers -> 0..started]
    BY <2>1 DEF Init, PcAt
  <2> QED BY <2>1, <2>2, <2>3, <2>4 DEF Init, TypeOK, PcAt, LoopAt, InboxAt
<1>3. OneConnect
  <2>1. (\A c \in Callers : pc[c] = "idle") /\ made = started
    BY DEF Init
  <2> QED BY <2>1 DEF OneConnect, Busy
<1>4. OnlyThread
  BY <1>1 DEF OnlyThread
<1>5. HalfWritten
  BY DEF Init, HalfWritten, Writing
<1> QED BY <1>1, <1>2, <1>3, <1>4, <1>5 DEF Inv, TypeInv, Started, Solo

-----------------------------------------------------------------------------
(* connect()                                                               *)

LEMMA ConnectType ==
  ASSUME TypeInv, NEW c \in Callers,
         ConnectProgress(c) \/ \E n \in Names : Connect(c, n)
  PROVE  TypeInv'
<1> USE ClientAssumption DEF TypeInv, Started, Alive
<1>1. ASSUME NEW n \in Names, Connect(c, n) PROVE TypeInv'
  <2>1. /\ pc' \in [Callers -> PcAt] /\ target' \in [Callers -> Names \union {NoName}]
        /\ calls' \in 0..MaxCalls /\ crossed' \in BOOLEAN
    BY <1>1 DEF Connect, ConnectStep, TypeOK, PcAt
  <2> QED
    BY <1>1, <2>1 DEF Connect, fieldVars, loopVars, playerVars, hostVars, TypeOK, PcAt
<1>2. CASE TestSocket(c)
  <2>1. pc' \in [Callers -> PcAt] /\ name' \in Names \union {NoName}
    BY <1>2 DEF TestSocket, ConnectStep, TypeOK, PcAt
  <2> QED BY <1>2, <2>1 DEF TestSocket, fieldVars, loopVars, playerVars, hostVars, TypeOK, PcAt
<1>3. CASE Disconnect(c)
  <2>0. /\ in \in 0..made /\ thread \in 0..started /\ made \in Nat /\ started \in Nat
        /\ closed \subseteq 1..made /\ interrupted \subseteq 1..started
        /\ joins \in [Callers -> 0..started] /\ pc \in [Callers -> PcAt]
        /\ reentered \in BOOLEAN /\ socket \in {"null", "unconnected", "connected"}
    BY DEF TypeOK, PcAt
  <2>a. /\ closed' = closed \union ({in} \ {0}) /\ loopRun' = FALSE
        /\ socket' = IF in = 0 THEN socket ELSE "null"
    BY <1>3 DEF Disconnect
  <2>b. {in} \ {0} \subseteq 1..made
    BY <2>0
  <2>1. /\ closed' \subseteq 1..made /\ loopRun' \in BOOLEAN
        /\ socket' \in {"null", "unconnected", "connected"}
    BY <2>0, <2>a, <2>b
  <2>2. UNCHANGED <<calls, crossed, playerVars, hostVars>>
    BY <1>3 DEF Disconnect
  <2>3. CASE in = 0 \/ socket = "null" \/ thread = 0
    <3>1. /\ pc' \in [Callers -> PcAt] /\ target' \in [Callers -> Names \union {NoName}]
          /\ joins' \in [Callers -> 0..started]
      BY <1>3, <2>3 DEF Disconnect, Throws, Returns, ConnectStep, TypeOK, PcAt
    <3>2. loop' \in [Conns -> LoopAt] /\ \A k \in Conns : loop'[k] \in {loop[k], "dead"}
      BY <1>3, <2>3 DEF Disconnect, Throws, TypeOK, LoopAt
    <3>3. UNCHANGED <<name, interrupted, reentered, in, out, thread, made, started, src>>
      BY <1>3, <2>3 DEF Disconnect, Throws
    <3> QED
      BY <2>1, <2>2, <3>1, <3>2, <3>3 DEF playerVars, hostVars, TypeOK, PcAt, LoopAt
  <2>4. CASE ~(in = 0 \/ socket = "null" \/ thread = 0)
    <3>1. thread \in 1..started
      BY <2>4 DEF TypeOK
    <3>a. /\ pc' = [pc EXCEPT ![c] = "join"] /\ joins' = [joins EXCEPT ![c] = thread]
          /\ interrupted' = interrupted \/ interrupted' = interrupted \union {thread}
          /\ reentered' = (reentered \/ c \in Conns)
      BY <1>3, <2>4 DEF Disconnect, ConnectStep
    <3>2. /\ pc' \in [Callers -> PcAt] /\ joins' \in [Callers -> 0..started]
          /\ interrupted' \subseteq 1..started /\ reentered' \in BOOLEAN
      BY <2>0, <3>1, <3>a DEF PcAt
    <3>3. UNCHANGED <<target, name, in, out, thread, made, started, loopVars>>
      BY <1>3, <2>4 DEF Disconnect
    <3> QED
      BY <2>1, <2>2, <3>2, <3>3 DEF playerVars, hostVars, loopVars, TypeOK, PcAt
  <2> QED BY <2>3, <2>4
<1>4. CASE Join(c)
  <2>0. /\ pc \in [Callers -> PcAt] /\ joins \in [Callers -> 0..started] /\ started \in Nat
        /\ target \in [Callers -> Names \union {NoName}] /\ interrupted \subseteq 1..started
    BY DEF TypeOK, PcAt
  <2>a. /\ pc' = [pc EXCEPT ![c] = "init"] /\ joins' = [joins EXCEPT ![c] = 0]
        /\ name' = target[c] /\ interrupted' \subseteq interrupted
    BY <1>4 DEF Join, ConnectStep
  <2>1. /\ pc' \in [Callers -> PcAt] /\ joins' \in [Callers -> 0..started]
        /\ name' \in Names \union {NoName} /\ interrupted' \subseteq 1..started
    BY <2>0, <2>a DEF PcAt
  <2> QED BY <1>4, <2>1 DEF Join, fieldVars, loopVars, playerVars, hostVars, TypeOK, PcAt
<1>5. CASE ConnectFails(c)
  <2>1. /\ pc' \in [Callers -> PcAt] /\ target' \in [Callers -> Names \union {NoName}]
        /\ joins' \in [Callers -> 0..started]
    BY <1>5 DEF ConnectFails, Returns, ConnectStep, TypeOK, PcAt
  <2> QED BY <1>5, <2>1 DEF ConnectFails, loopVars, playerVars, hostVars, TypeOK, PcAt
<1>6. CASE ConnectSucceeds(c)
  <2>1. /\ made' = made + 1 /\ made' \in 0..MaxConnects /\ 0..made \subseteq 0..made'
        /\ 1..made \subseteq 1..made' /\ -1..made \subseteq -1..made'
        /\ in' \in 0..made' /\ out' \in 0..made'
    BY <1>6 DEF ConnectSucceeds, TypeOK
  <2>2. /\ src' \in [Conns -> 0..made'] /\ dst' \in [Players -> 0..made']
        /\ coded' \in -1..made' /\ closed' \subseteq 1..made'
    BY <1>6, <2>1 DEF ConnectSucceeds, loopVars, playerVars, TypeOK
  <2>3. pc' \in [Callers -> PcAt]
    BY <1>6 DEF ConnectSucceeds, ConnectStep, TypeOK, PcAt
  <2>4. UNCHANGED <<target, joins, name, interrupted, calls, reentered, crossed, thread, started,
                    loopRun, loop, ppc, writes, unfinished, torn, overlapped, hostVars>>
        /\ socket' = "connected"
    BY <1>6 DEF ConnectSucceeds, loopVars, playerVars
  <2> QED BY <2>1, <2>2, <2>3, <2>4 DEF hostVars, TypeOK, PcAt
<1>7. CASE StartLoop(c)
  <2>1. /\ started' \in 0..MaxConnects /\ thread' \in 0..started' /\ 0..started \subseteq 0..started'
        /\ 1..started \subseteq 1..started' /\ started + 1 \in Conns /\ started' = started + 1
    BY <1>7 DEF StartLoop, TypeOK, Conns
  <2>2. joins' \in [Callers -> 0..started] /\ interrupted' \subseteq 1..started
    BY <1>7 DEF StartLoop, Returns, TypeOK
  <2>3. /\ pc' \in [Callers -> PcAt] /\ target' \in [Callers -> Names \union {NoName}]
        /\ joins' \in [Callers -> 0..started'] /\ interrupted' \subseteq 1..started'
        /\ loopRun' \in BOOLEAN
    BY <1>7, <2>1, <2>2 DEF StartLoop, Returns, ConnectStep, TypeOK, PcAt
  <2>4. loop' \in [Conns -> LoopAt] /\ \A k \in Conns : k # started + 1 => loop'[k] = loop[k]
    BY <1>7, <2>1 DEF StartLoop, TypeOK, LoopAt
  <2>5. UNCHANGED <<name, calls, reentered, crossed, socket, in, out, made, src, playerVars, closed,
                    hostVars>>
    BY <1>7 DEF StartLoop
  <2>6. Started'
    <3>1. started \in Nat
      BY DEF TypeOK
    <3> QED BY <2>1, <2>4, <3>1 DEF Conns
  <2> QED BY <2>1, <2>3, <2>4, <2>5, <2>6 DEF playerVars, hostVars, TypeOK, PcAt, LoopAt
<1> QED BY <1>1, <1>2, <1>3, <1>4, <1>5, <1>6, <1>7 DEF ConnectProgress

(* Where the calls take turns, only c is in one.                           *)
LEMMA ConnectSolo ==
  ASSUME TypeInv, Solo, NEW c \in Callers,
         ConnectProgress(c) \/ \E n \in Names : Connect(c, n)
  PROVE  Solo'
<1> SUFFICES ASSUME ~crossed', ~reentered' PROVE OneConnect' /\ OnlyThread'
  BY DEF Solo
<1>a. OneConnect /\ OnlyThread
  <2>1. ~crossed /\ ~reentered
    <3>1. CASE Disconnect(c)
      <4>1. crossed' = crossed
        BY <3>1 DEF Disconnect
      <4>2. CASE UNCHANGED reentered
        BY <4>1, <4>2
      <4>3. CASE reentered' = (reentered \/ c \in Conns)
        BY <4>1, <4>3
      <4>4. CASE in = 0 \/ socket = "null" \/ thread = 0
        BY <3>1, <4>2, <4>4 DEF Disconnect
      <4>5. CASE ~(in = 0 \/ socket = "null" \/ thread = 0)
        BY <3>1, <4>3, <4>5 DEF Disconnect
      <4> QED BY <4>4, <4>5
    <3>2. ASSUME NEW n \in Names, Connect(c, n) PROVE ~crossed /\ ~reentered
      <4>1. reentered' = reentered
        BY <3>2 DEF Connect
      <4>2. crossed' = (crossed \/ (n # name /\ \E d \in Callers : Busy(d)))
        BY <3>2 DEF Connect
      <4> QED BY <4>1, <4>2
    <3>3. CASE TestSocket(c) \/ Join(c) \/ ConnectFails(c) \/ ConnectSucceeds(c) \/ StartLoop(c)
      BY <3>3 DEF TestSocket, Join, ConnectFails, ConnectSucceeds, StartLoop
    <3> QED BY <3>1, <3>2, <3>3 DEF ConnectProgress
  <2> QED BY <2>1 DEF Solo
<1>b. /\ pc \in [Callers -> PcAt] /\ joins \in [Callers -> 0..started]
      /\ loop \in [Conns -> LoopAt] /\ thread \in 0..started /\ made \in Nat /\ started \in Nat
      /\ in \in 0..made
  BY DEF TypeInv, TypeOK, PcAt, LoopAt
<1>c. ASSUME Busy(c), \A d \in Callers : d # c => pc'[d] = pc[d]
      PROVE  \A d \in Callers : d # c => pc[d] = "idle" /\ pc'[d] = "idle"
  BY <1>a, <1>c DEF OneConnect, Busy
<1>1. ASSUME NEW n \in Names, Connect(c, n) PROVE OneConnect' /\ OnlyThread'
  <2>1. /\ pc[c] = "idle" /\ (c \in Conns => loop[c] = "handle")
        /\ pc' = pc \/ (pc' = [pc EXCEPT ![c] = "test"] /\ \A d \in Callers : pc[d] = "idle")
        /\ UNCHANGED <<joins, socket, in, thread, made, started, loop, src>>
    BY <1>1, <1>b DEF Connect, ConnectStep, Busy, fieldVars, loopVars
  <2> QED BY <1>a, <1>b, <2>1 DEF OneConnect, OnlyThread, Busy, Alive
<1>2. CASE TestSocket(c)
  <2>1. /\ pc[c] = "test" /\ pc' = [pc EXCEPT ![c] = IF socket = "null" THEN "init" ELSE "disconnect"]
        /\ UNCHANGED <<joins, socket, in, thread, made, started, loop, src>>
    BY <1>2 DEF TestSocket, ConnectStep, fieldVars, loopVars
  <2>2. \A d \in Callers : d # c => pc[d] = "idle" /\ pc'[d] = "idle"
    BY <1>b, <1>c, <2>1 DEF Busy
  <2>3. socket = "null" => \A k \in Conns : ~Alive(k)
    BY <1>a, <2>1, <2>2 DEF OnlyThread
  <2>4. socket = "null" => c \notin Conns
    BY <1>a, <2>1, <2>3 DEF OneConnect, Busy, Alive
  <2>5. OneConnect'
    BY <1>a, <1>b, <2>1, <2>2, <2>4 DEF OneConnect, Busy
  <2>6. OnlyThread'
    BY <1>a, <1>b, <2>1, <2>2, <2>3 DEF OnlyThread, Alive
  <2> QED BY <2>5, <2>6
<1>3. CASE Disconnect(c)
  <2>1. pc[c] = "disconnect" /\ socket # "null"
    BY <1>3, <1>a DEF Disconnect, Throws, Returns, ConnectStep, OneConnect
  <2>2. \A d \in Callers : d # c => pc[d] = "idle"
    BY <1>a, <2>1 DEF OneConnect, Busy
  <2>3. CASE in = 0 \/ thread = 0
    <3>1. /\ pc' = [pc EXCEPT ![c] = "idle"] /\ joins' = [joins EXCEPT ![c] = 0]
          /\ loop' = [k \in Conns |-> IF k = c THEN "dead" ELSE loop[k]]
          /\ UNCHANGED <<in, thread, made, started, src>>
      BY <1>3, <2>1, <2>3 DEF Disconnect, Throws, Returns, ConnectStep
    <3>2. \A k \in Conns : ~Alive(k)
      BY <1>a, <2>3 DEF OnlyThread, Conns
    <3>3. \A k \in Conns : ~Alive(k)'
      BY <3>1, <3>2 DEF Alive
    <3>4. \A d \in Callers : pc'[d] = "idle"
      BY <1>b, <2>2, <3>1
    <3>5. made' = started' /\ made = started
      BY <1>a, <2>1, <2>2, <3>1 DEF OneConnect
    <3>6. OneConnect'
      BY <3>4, <3>5 DEF OneConnect, Busy
    <3>7. OnlyThread'
      BY <3>3 DEF OnlyThread, Alive
    <3> QED BY <3>6, <3>7
  <2>4. CASE in # 0 /\ thread # 0
    <3>1. /\ pc' = [pc EXCEPT ![c] = "join"] /\ joins' = [joins EXCEPT ![c] = thread]
          /\ c \notin Conns
          /\ UNCHANGED <<in, thread, made, started, loop, src>>
      BY <1>3, <2>1, <2>4 DEF Disconnect, ConnectStep, loopVars
    <3>2. OneConnect'
      BY <1>a, <1>b, <2>1, <2>2, <2>4, <3>1 DEF OneConnect, Busy
    <3>3. OnlyThread'
      BY <1>a, <1>b, <2>2, <3>1 DEF OnlyThread, Alive
    <3> QED BY <3>2, <3>3
  <2> QED BY <2>3, <2>4
<1>4. CASE Join(c)
  <2>1. /\ pc[c] = "join" /\ pc' = [pc EXCEPT ![c] = "init"]
        /\ joins' = [joins EXCEPT ![c] = 0]
        /\ loop[joins[c]] = "dead" \/ c \in interrupted
        /\ UNCHANGED <<socket, in, thread, made, started, loop, src>>
    BY <1>4 DEF Join, ConnectStep, fieldVars, loopVars
  <2>2. \A d \in Callers : d # c => pc[d] = "idle" /\ pc'[d] = "idle"
    BY <1>b, <1>c, <2>1 DEF Busy
  <2>3. c \notin Conns /\ joins[c] = thread
    BY <1>a, <2>1 DEF OneConnect, Busy
  <2>4. interrupted \subseteq Conns
    BY ClientAssumption DEF TypeInv, TypeOK, Conns
  <2>5. \A k \in Conns : ~Alive(k)
    BY <1>a, <2>1, <2>3, <2>4 DEF OnlyThread, Alive
  <2>6. OneConnect'
    BY <1>a, <1>b, <2>1, <2>2, <2>3 DEF OneConnect, Busy
  <2>7. OnlyThread'
    BY <1>a, <2>1, <2>5 DEF OnlyThread, Alive
  <2> QED BY <2>6, <2>7
<1>5. CASE ConnectFails(c)
  <2>1. /\ pc[c] = "init" /\ pc' = [pc EXCEPT ![c] = "idle"] /\ socket' = "unconnected"
        /\ UNCHANGED <<in, thread, made, started, loop, src>>
    BY <1>5 DEF ConnectFails, Returns, ConnectStep, loopVars
  <2>2. \A d \in Callers : d # c => pc[d] = "idle" /\ pc'[d] = "idle"
    BY <1>b, <1>c, <2>1 DEF Busy
  <2>3. OneConnect'
    BY <1>a, <1>b, <2>1, <2>2 DEF OneConnect, Busy
  <2>4. OnlyThread'
    BY <1>a, <2>1 DEF OnlyThread, Alive
  <2> QED BY <2>3, <2>4
<1>6. CASE ConnectSucceeds(c)
  <2>1. /\ pc[c] = "init" /\ pc' = [pc EXCEPT ![c] = "start"]
        /\ socket' = "connected" /\ in' = made + 1 /\ made' = made + 1
        /\ UNCHANGED <<joins, thread, started, loop, src>>
    BY <1>6 DEF ConnectSucceeds, ConnectStep, loopVars
  <2>2. \A d \in Callers : d # c => pc[d] = "idle" /\ pc'[d] = "idle"
    BY <1>b, <1>c, <2>1 DEF Busy
  <2>3. c \notin Conns /\ made = started /\ pc'[c] = "start"
    BY <1>a, <1>b, <2>1, <2>2 DEF OneConnect, Busy
  <2>4. \A k \in Conns : ~Alive(k)
    BY <1>a, <2>1 DEF OnlyThread
  <2>5. OneConnect'
    BY <2>1, <2>2, <2>3 DEF OneConnect, Busy
  <2>6. OnlyThread'
    BY <2>1, <2>4 DEF OnlyThread, Alive
  <2> QED BY <2>5, <2>6
<1>7. CASE StartLoop(c)
  <2>1. /\ pc[c] = "start" /\ pc' = [pc EXCEPT ![c] = "idle"]
        /\ started' = started + 1 /\ thread' = started + 1
        /\ loop' = [loop EXCEPT ![started + 1] = "check"]
        /\ UNCHANGED <<socket, in, made, src>>
    BY <1>7 DEF StartLoop, Returns, ConnectStep
  <2>2. \A d \in Callers : d # c => pc[d] = "idle" /\ pc'[d] = "idle"
    BY <1>b, <1>c, <2>1 DEF Busy
  <2>3. (\A d \in Callers : pc'[d] = "idle") /\ made = started + 1 /\ in = made /\ socket # "null"
    BY <1>a, <1>b, <2>1, <2>2 DEF OneConnect
  <2>4. (\A k \in Conns : ~Alive(k)) /\ started + 1 \in Conns
    BY <1>7, <1>a, <1>b, <2>1, ClientAssumption DEF OnlyThread, StartLoop, Conns
  <2>5. OneConnect'
    BY <2>1, <2>3 DEF OneConnect, Busy
  <2>6. \A k \in Conns : k # started + 1 => ~Alive(k)'
    BY <1>b, <2>1, <2>4 DEF Alive
  <2>7. loop'[started + 1] = "check"
    BY <1>b, <2>1, <2>4
  <2>8. OnlyThread'
    BY <2>1, <2>3, <2>6, <2>7 DEF OnlyThread, Alive
  <2> QED BY <2>5, <2>8
<1> QED BY <1>1, <1>2, <1>3, <1>4, <1>5, <1>6, <1>7 DEF ConnectProgress

(* Connections only ever get harder to write to.                           *)
LEMMA ConnectHalfWritten ==
  ASSUME HalfWritten, NEW c \in Callers,
         ConnectProgress(c) \/ \E n \in Names : Connect(c, n)
  PROVE  HalfWritten'
<1>1. UNCHANGED <<playerVars, host>> /\ closed \subseteq closed'
  BY DEF ConnectProgress, Connect, TestSocket, Disconnect, Join, ConnectFails, ConnectSucceeds,
         StartLoop, hostVars
<1> QED BY <1>1 DEF HalfWritten, Usable, Writing, playerVars

-----------------------------------------------------------------------------
(* The loop                                                                *)

LEMMA LoopKeeps ==
  ASSUME Inv, NEW k \in Conns, LoopProgress(k) \/ LoopWoken(k)
  PROVE  Inv' /\ (HalfWritten => HalfWritten')
<1> DEFINE to == loop'[k]
<1>1. /\ loop' = [loop EXCEPT ![k] = to] /\ to \in LoopAt \ {"none"} /\ Alive(k)
      /\ UNCHANGED <<connectVars, fieldVars, playerVars, closed, host, messages>>
      /\ loop[k] = "handle" => ~Busy(k)
  BY DEF LoopProgress, LoopWoken, LoopCheck, LoopCall, LoopReceive, LoopSeesEnd, CallbackReturns,
         LoopStep, LoopAt, Alive, Inv, TypeInv, TypeOK
<1>2. /\ src' = [src EXCEPT ![k] = src'[k]] /\ src'[k] \in 0..made
      /\ loopRun' \in BOOLEAN
  <2>1. src \in [Conns -> 0..made] /\ in \in 0..made /\ loopRun \in BOOLEAN /\ 0 \in 0..made
    BY DEF Inv, TypeInv, TypeOK
  <2>2. PICK s \in 0..made : src' = [src EXCEPT ![k] = s]
    <3>1. src' = src \/ src' = [src EXCEPT ![k] = in] \/ src' = [src EXCEPT ![k] = 0]
      BY DEF LoopProgress, LoopWoken, LoopCheck, LoopCall, LoopReceive, LoopSeesEnd, CallbackReturns
    <3>2. src = [src EXCEPT ![k] = src[k]] /\ src[k] \in 0..made
      BY <2>1
    <3> QED BY <2>1, <3>1, <3>2
  <2>3. loopRun' \in BOOLEAN
    BY <2>1
    DEF LoopProgress, LoopWoken, LoopCheck, LoopCall, LoopReceive, LoopSeesEnd, CallbackReturns
  <2> QED BY <2>1, <2>2, <2>3
<1>3. inbox' \in [Conns -> InboxAt]
  BY DEF LoopProgress, LoopWoken, LoopCheck, LoopCall, LoopReceive, LoopSeesEnd, CallbackReturns,
         Inv, TypeInv, TypeOK, InboxAt
<1>4. to \in {"read", "handle"} => src'[k] = in \/ (src'[k] = src[k] /\ loop[k] = "read")
  BY DEF LoopProgress, LoopWoken, LoopCheck, LoopCall, LoopReceive, LoopSeesEnd, CallbackReturns,
         LoopStep, Inv, TypeInv, TypeOK
<1> HIDE DEF to
<1>5. TypeInv'
  <2>1. loop' \in [Conns -> LoopAt] /\ src' \in [Conns -> 0..made]
    BY <1>1, <1>2 DEF Inv, TypeInv, TypeOK, LoopAt
  <2>2. TypeOK'
    BY <1>1, <1>2, <1>3, <2>1
    DEF Inv, TypeInv, TypeOK, LoopAt, InboxAt, connectVars, fieldVars, playerVars
  <2> QED BY <1>1, <2>2 DEF Inv, TypeInv, TypeOK, Started, Alive, fieldVars
<1>6. Solo'
  <2> SUFFICES ASSUME ~crossed', ~reentered' PROVE OneConnect' /\ OnlyThread'
    BY DEF Solo
  <2>1. OneConnect /\ OnlyThread /\ loop \in [Conns -> LoopAt] /\ src \in [Conns -> 0..made]
    BY <1>1 DEF Inv, Solo, TypeInv, TypeOK, connectVars, LoopAt
  <2>2. UNCHANGED <<pc, joins, socket, in, thread, made, started>>
    BY <1>1 DEF connectVars, fieldVars
  <2>3. k = thread /\ in = k
    BY <1>1, <2>1 DEF OnlyThread
  <2>4. OneConnect'
    BY <1>1, <2>1, <2>2 DEF OneConnect, Busy
  <2>5. OnlyThread'
    BY <1>1, <1>2, <1>4, <2>1, <2>2, <2>3 DEF OnlyThread, Alive
  <2> QED BY <2>4, <2>5
<1>7. HalfWritten => HalfWritten'
  BY <1>1 DEF HalfWritten, Usable, Writing, playerVars
<1> QED BY <1>5, <1>6, <1>7 DEF Inv

-----------------------------------------------------------------------------
(* The players                                                             *)

LEMMA PlayerKeeps ==
  ASSUME Inv, NEW p \in Players,
         BeginWrite(p) \/ WriteHeader(p) \/ WriteBody(p) \/ WriteThrows(p)
  PROVE  Inv'
<1>1. UNCHANGED <<connectVars, fieldVars, loopRun, loopVars, closed, hostVars>>
  BY DEF BeginWrite, WriteHeader, WriteBody, WriteThrows
<1>2. /\ ppc' \in [Players -> {"idle", "header", "body"}] /\ dst' \in [Players -> 0..made]
      /\ coded' \in -1..made /\ writes' \in 0..MaxWrites /\ overlapped' \in BOOLEAN
  <2>1. CASE BeginWrite(p)
    <3>1. PICK s \in 0..out : dst' = [dst EXCEPT ![p] = s]
                              /\ coded' = IF BytesApi /\ coded = -1 THEN s ELSE coded
      BY <2>1 DEF BeginWrite
    <3>2. s \in 0..made
      BY <3>1 DEF Inv, TypeInv, TypeOK
    <3> QED BY <2>1, <3>1, <3>2, ClientAssumption DEF BeginWrite, Inv, TypeInv, TypeOK
  <2>2. CASE WriteHeader(p)
    BY <2>2 DEF WriteHeader, Inv, TypeInv, TypeOK
  <2>3. CASE WriteBody(p)
    BY <2>3 DEF WriteBody, EndWrite, Inv, TypeInv, TypeOK
  <2>4. CASE WriteThrows(p)
    BY <2>4 DEF WriteThrows, EndWrite, Inv, TypeInv, TypeOK
  <2> QED BY <2>1, <2>2, <2>3, <2>4
<1>3. unfinished' \subseteq Conns /\ torn' \subseteq Conns
  BY DEF BeginWrite, WriteHeader, WriteBody, WriteThrows, Usable, Inv, TypeInv, TypeOK
<1>4. TypeInv'
  <2>1. TypeOK'
    BY <1>1, <1>2, <1>3 DEF Inv, TypeInv, TypeOK, connectVars, fieldVars, loopVars, hostVars
  <2> QED BY <1>1, <2>1 DEF Inv, TypeInv, Started, Alive, fieldVars, loopVars
<1>5. Solo'
  BY <1>1 DEF Inv, Solo, OneConnect, OnlyThread, Busy, Alive, connectVars, fieldVars, loopVars
<1> QED BY <1>4, <1>5 DEF Inv

LEMMA PlayerHalfWritten ==
  ASSUME Inv, HalfWritten, ~BytesApi, NEW p \in Players,
         BeginWrite(p) \/ WriteHeader(p) \/ WriteBody(p) \/ WriteThrows(p)
  PROVE  HalfWritten'
<1> SUFFICES ASSUME ~overlapped' PROVE HalfWritten'
  BY DEF HalfWritten
<1>0. /\ ~overlapped
      /\ torn = {}
      /\ \A q, r \in Players : Writing(q) /\ Writing(r) => q = r
      /\ \A q \in Players : ppc[q] = "body" => dst[q] \in unfinished
      /\ \A s \in unfinished : Usable(s) => \E q \in Players : ppc[q] = "body" /\ dst[q] = s
      /\ ppc \in [Players -> {"idle", "header", "body"}] /\ dst \in [Players -> 0..made]
  BY DEF HalfWritten, BeginWrite, WriteHeader, WriteBody, WriteThrows, Inv, TypeInv, TypeOK
<1>1. \A s : Usable(s)' = Usable(s)
  BY DEF BeginWrite, WriteHeader, WriteBody, WriteThrows, Usable, hostVars
<1>2. CASE BeginWrite(p)
  <2>1. /\ ppc[p] = "idle" /\ ppc' = [ppc EXCEPT ![p] = "header"]
        /\ \A q \in Players : q # p => ppc[q] = "idle"
        /\ \A q \in Players : q # p => dst'[q] = dst[q]
        /\ UNCHANGED <<torn, unfinished>>
    BY <1>0, <1>2 DEF BeginWrite, Writing
  <2> QED BY <1>0, <1>1, <2>1 DEF HalfWritten, Writing
<1>3. CASE WriteHeader(p)
  <2>1. dst[p] \notin unfinished
    BY <1>0, <1>3 DEF WriteHeader, Writing
  <2>2. /\ ppc[p] = "header" /\ ppc' = [ppc EXCEPT ![p] = "body"] /\ dst' = dst
        /\ torn' = torn /\ unfinished' = unfinished \union {dst[p]}
    BY <1>3, <2>1 DEF WriteHeader
  <2> QED BY <1>0, <1>1, <2>2 DEF HalfWritten, Writing
<1>4. CASE WriteBody(p)
  <2>1. /\ ppc[p] = "body" /\ ppc' = [ppc EXCEPT ![p] = "idle"] /\ dst' = [dst EXCEPT ![p] = 0]
        /\ unfinished' = unfinished \ {dst[p]} /\ torn' = torn
    BY <1>0, <1>4 DEF WriteBody, BodyStream, EndWrite
  <2>2. \A q \in Players : q # p => ppc[q] = "idle" /\ ppc'[q] = "idle"
    BY <1>0, <2>1 DEF Writing
  <2> QED BY <1>0, <1>1, <2>1, <2>2 DEF HalfWritten, Writing
<1>5. CASE WriteThrows(p)
  <2>1. /\ ppc[p] # "idle" /\ ppc' = [ppc EXCEPT ![p] = "idle"]
        /\ dst' = [dst EXCEPT ![p] = 0]
        /\ ~Usable(dst[p])
        /\ UNCHANGED <<torn, unfinished>>
    BY <1>5 DEF WriteThrows, BodyStream, EndWrite
  <2>2. \A q \in Players : q # p => ppc[q] = "idle" /\ ppc'[q] = "idle"
    BY <1>0, <2>1 DEF Writing
  <2> QED BY <1>0, <1>1, <2>1, <2>2 DEF HalfWritten, Writing
<1> QED BY <1>2, <1>3, <1>4, <1>5

-----------------------------------------------------------------------------
(* The app                                                                 *)

LEMMA HostKeeps ==
  ASSUME Inv, NEW k \in Conns,
         HostSends(k) \/ HostShutdown(k) \/ HostDies(k)
  PROVE  Inv' /\ (HalfWritten => HalfWritten')
<1>1. UNCHANGED <<connectVars, fieldVars, loopRun, loopVars, playerVars, closed>>
  BY DEF HostSends, HostShutdown, HostDies, HostStep
<1>2. /\ inbox' \in [Conns -> InboxAt] /\ host' \in [Conns -> {"up", "shut", "gone"}]
      /\ messages' \in 0..MaxMessages
      /\ \A s \in Conns : host[s] = "gone" => host'[s] = "gone"
  BY ClientAssumption DEF HostSends, HostShutdown, HostDies, HostStep, Inv, TypeInv, TypeOK, InboxAt
<1>3. TypeInv'
  <2>1. TypeOK'
    BY <1>1, <1>2 DEF Inv, TypeInv, TypeOK, InboxAt, connectVars, fieldVars, loopVars, playerVars
  <2> QED BY <1>1, <2>1 DEF Inv, TypeInv, Started, Alive, fieldVars, loopVars
<1>4. Solo'
  BY <1>1 DEF Inv, Solo, OneConnect, OnlyThread, Busy, Alive, connectVars, fieldVars, loopVars
<1>5. HalfWritten => HalfWritten'
  BY <1>1, <1>2 DEF HalfWritten, Usable, Writing, playerVars, Inv, TypeInv, TypeOK
<1> QED BY <1>3, <1>4, <1>5 DEF Inv

-----------------------------------------------------------------------------
LEMMA Stutter ==
  ASSUME Inv, UNCHANGED vars
  PROVE  Inv' /\ (HalfWritten => HalfWritten')
<1>1. UNCHANGED <<connectVars, fieldVars, loopRun, loopVars, playerVars, closed, hostVars>>
  BY DEF vars
<1>2. TypeOK'
  BY <1>1 DEF Inv, TypeInv, TypeOK, connectVars, fieldVars, loopVars, playerVars, hostVars
<1>3. Started' /\ Solo'
  BY <1>1 DEF Inv, TypeInv, Started, Solo, OneConnect, OnlyThread, Busy, Alive, connectVars,
              fieldVars, loopVars
<1>4. HalfWritten => HalfWritten'
  BY <1>1 DEF HalfWritten, Usable, Writing, playerVars, hostVars
<1> QED BY <1>2, <1>3, <1>4 DEF Inv, TypeInv

LEMMA Step == Inv /\ [Next]_vars => Inv'
<1> SUFFICES ASSUME Inv, [Next]_vars PROVE Inv'
  OBVIOUS
<1>1. ASSUME NEW c \in Callers, ConnectProgress(c) \/ \E n \in Names : Connect(c, n) PROVE Inv'
  BY <1>1, ConnectType, ConnectSolo DEF Inv
<1>2. ASSUME NEW k \in Conns, LoopProgress(k) \/ LoopWoken(k) PROVE Inv'
  BY <1>2, LoopKeeps
<1>3. ASSUME NEW k \in Conns, HostSends(k) \/ HostShutdown(k) \/ HostDies(k) PROVE Inv'
  BY <1>3, HostKeeps
<1>4. ASSUME NEW p \in Players, BeginWrite(p) \/ WriteHeader(p) \/ WriteBody(p) \/ WriteThrows(p)
      PROVE  Inv'
  BY <1>4, PlayerKeeps
<1>5. CASE UNCHANGED vars
  BY <1>5, Stutter
<1> QED BY <1>1, <1>2, <1>3, <1>4, <1>5 DEF Next, Over

LEMMA FrameStep ==
  ASSUME ~BytesApi
  PROVE  Inv /\ HalfWritten /\ [Next]_vars => HalfWritten'
<1> SUFFICES ASSUME Inv, HalfWritten, [Next]_vars PROVE HalfWritten'
  OBVIOUS
<1>1. ASSUME NEW c \in Callers, ConnectProgress(c) \/ \E n \in Names : Connect(c, n)
      PROVE  HalfWritten'
  BY <1>1, ConnectHalfWritten
<1>2. ASSUME NEW k \in Conns, LoopProgress(k) \/ LoopWoken(k) PROVE HalfWritten'
  BY <1>2, LoopKeeps
<1>3. ASSUME NEW k \in Conns, HostSends(k) \/ HostShutdown(k) \/ HostDies(k) PROVE HalfWritten'
  BY <1>3, HostKeeps
<1>4. ASSUME NEW p \in Players, BeginWrite(p) \/ WriteHeader(p) \/ WriteBody(p) \/ WriteThrows(p)
      PROVE  HalfWritten'
  BY <1>4, PlayerHalfWritten
<1>5. CASE UNCHANGED vars
  BY <1>5, Stutter
<1> QED BY <1>1, <1>2, <1>3, <1>4, <1>5 DEF Next, Over

LEMMA Invariant == Spec => []Inv
BY Initially, Step, PTL DEF Spec

-----------------------------------------------------------------------------
(* Every variable of the socket, its threads and the app has its type,     *)
(* whatever calls of connect overlap.                                      *)
THEOREM TypeCorrect == Spec => []TypeOK
BY Invariant, PTL DEF Inv, TypeInv

(* Two loop threads are never alive at once, and the one reads the current *)
(* stream, as long as no two calls of connect overlap and no callback has  *)
(* switched the socket: interrupt() and join() leave nothing of the last   *)
(* loop behind.                                                            *)
THEOREM OneLoop == Spec => []OneLoopReads
<1>1. Inv => OneLoopReads
  BY DEF Inv, Solo, OnlyThread, Alive, OneLoopReads
<1> QED BY <1>1, Invariant, PTL

(* With writeAudioData(short[], int), the frames on a connection are whole *)
(* however the socket is switched, by overlapping calls too, as long as no *)
(* two players write at once: a header whose body could not be written is  *)
(* left on a connection to which nothing can be written any more.          *)
THEOREM FramesAreWhole == ASSUME ~BytesApi PROVE Spec => []WholeFrames
<1>1. HalfWritten => WholeFrames
  BY DEF HalfWritten, WholeFrames
<1>2. Spec => []HalfWritten
  BY Initially, FrameStep, Invariant, PTL DEF Spec
<1> QED BY <1>1, <1>2, PTL
=============================================================================
