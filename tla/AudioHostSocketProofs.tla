------------------------ MODULE AudioHostSocketProofs ------------------------
(***************************************************************************)
(* Proofs about the loop threads of AudioHostSocket, for every number of    *)
(* names, threads that call connect, calls, server sockets and clients.    *)
(***************************************************************************)
EXTENDS AudioHostSocket, SequenceTheorems, TLAPS

-----------------------------------------------------------------------------
PcAt == {"idle", "test", "close", "wake", "forget", "join", "init", "start"}
LoopAt == {"none", "check", "accept", "accepting", "accepted", "address", "log",
           "poll", "read", "handle", "notify", "dead"}
InboxAt == {"empty", "part", "good", "bad", "cut", "ended"}

(* A thread in accept() is on a server socket.                             *)
Accepting == \A k \in Servers : loop[k] = "accepting" => on[k] # 0

(* A thread that is alive has been started.                                *)
Started == \A k \in Servers : Alive(k) => k <= started

TypeInv == TypeOK /\ Accepting /\ Started

(* The calls of connect take turns, and what each finds at its steps.      *)
OneConnect ==
  /\ \A c, d \in Callers : Busy(c) /\ Busy(d) => c = d
  /\ \A c \in Callers : pc[c] \in {"close", "wake", "forget", "start"} => socket # 0
  /\ \A c \in Callers : pc[c] = "join" => socket = 0 /\ joins[c] = thread
  /\ \A c \in Callers : pc[c] = "init" => socket = 0
  /\ socket # 0 /\ thread = 0 => \E c \in Callers : pc[c] = "start"

(* Only mLoopThread is alive; mSocket is null only where no loop thread    *)
(* can be left, except in the join() that waits for the last.              *)
OnlyThread ==
  /\ \A k \in Servers : Alive(k) => k = thread
  /\ socket = 0 /\ (\A c \in Callers : pc[c] # "join") => \A k \in Servers : ~Alive(k)
  /\ \A c \in Callers : pc[c] = "start" => \A k \in Servers : ~Alive(k)

(* Between calls of connect, after one that has not failed.                *)
Served ==
  (\A c \in Callers : ~Busy(c)) /\ name # NoName /\ ~failed =>
    /\ socket # 0 /\ thread # 0
    /\ LoopAlive \/ thread \in told
    /\ loopRun \/ thread \in told

Solo == ~crossed => OneConnect /\ OnlyThread /\ Served

Inv == TypeInv /\ Solo

LEMMA Initially == Init => Inv
<1> SUFFICES ASSUME Init PROVE Inv
  OBVIOUS
<1>1. << >> \in Seq(Clients) /\ 0 \in Clients
  BY EmptySeq, BoundsAssumption DEF Clients
<1>2. TypeOK
  <2>1. /\ made \in 0..MaxServers /\ started \in 0..MaxServers
        /\ calls \in 0..MaxCalls /\ clients \in 0..MaxClients
        /\ socket \in 0..made /\ thread \in 0..started /\ in \in Clients
    BY <1>1, BoundsAssumption DEF Init
  <2>2. loop \in [Servers -> LoopAt] /\ queue \in [Servers -> Seq(Clients)]
        /\ on \in [Servers -> 0..made] /\ src \in [Servers -> Clients]
        /\ bound \in [Servers -> Names \union {NoName}]
    BY <1>1, <2>1 DEF Init, LoopAt
  <2>3. pc \in [Callers -> PcAt] /\ target \in [Callers -> Names \union {NoName}]
        /\ joins \in [Callers -> 0..started]
    BY <2>1 DEF Init, PcAt
  <2>4. inbox \in [Clients -> InboxAt]
    BY DEF Init, InboxAt
  <2> QED BY <2>1, <2>2, <2>3, <2>4 DEF Init, TypeOK, LoopAt, PcAt, InboxAt
<1>3. \A k \in Servers : ~Alive(k) /\ loop[k] = "none"
  BY DEF Init, Alive
<1>4. \A c \in Callers : pc[c] = "idle"
  BY DEF Init
<1>5. socket = 0 /\ name = NoName
  BY DEF Init
<1> QED
  BY <1>2, <1>3, <1>4, <1>5
  DEF Inv, TypeInv, Accepting, Started, Solo, OneConnect, OnlyThread, Served, Busy

-----------------------------------------------------------------------------
(* The steps of connect.                                                   *)

LEMMA ConnectType ==
  ASSUME TypeInv, NEW c \in Callers,
         ConnectorProgress(c) \/ \E n \in Names : Connect(c, n)
  PROVE  TypeInv'
<1> USE BoundsAssumption DEF TypeInv, Accepting, Started, Alive
<1>1. ASSUME NEW n \in Names, Connect(c, n) PROVE TypeInv'
  <2>1. /\ pc' \in [Callers -> PcAt] /\ target' \in [Callers -> Names \union {NoName}]
        /\ calls' \in 0..MaxCalls /\ crossed' \in BOOLEAN
    BY <1>1 DEF Connect, ConnectorStep, TypeOK, PcAt
  <2>2. UNCHANGED <<joins, name, failed, mName, bound, fields, loopRun, kernel, loops>>
    BY <1>1 DEF Connect
  <2> QED BY <2>1, <2>2 DEF fields, kernel, loops, TypeOK, PcAt
<1>2. CASE TestSocket(c)
  <2>1. pc' \in [Callers -> PcAt] /\ name' \in Names \union {NoName}
    BY <1>2 DEF TestSocket, ConnectorStep, TypeOK, PcAt
  <2> QED BY <1>2, <2>1 DEF TestSocket, fields, kernel, loops, TypeOK, PcAt
<1>3. ASSUME NEW from, Throws(c, from), loopRun' \in BOOLEAN, closed' = closed, queue' = queue,
             socket' \in 0..made
      PROVE  TypeInv'
  <2>1. /\ pc' \in [Callers -> PcAt] /\ target' \in [Callers -> Names \union {NoName}]
        /\ joins' \in [Callers -> 0..started] /\ crashed' \in BOOLEAN /\ failed' \in BOOLEAN
    BY <1>3 DEF Throws, Returns, ConnectorStep, TypeOK, PcAt
  <2>2. loop' \in [Servers -> LoopAt] /\ \A k \in Servers : loop'[k] \in {loop[k], "dead"}
    BY <1>3 DEF Throws, TypeOK, LoopAt
  <2>3. UNCHANGED <<name, mName, bound, calls, crossed, thread, made, started, clients, on, src, in,
                    inbox, told>>
    BY <1>3 DEF Throws
  <2> QED BY <1>3, <2>1, <2>2, <2>3 DEF TypeOK, PcAt, LoopAt
<1>4. CASE Close(c)
  <2>1. CASE socket # 0
    <3>0. << >> \in Seq(Clients)
      BY EmptySeq
    <3>a. queue' \in [Servers -> Seq(Clients)]
      <4>1. queue' = queue \/ queue' = [queue EXCEPT ![socket] = << >>]
        BY <1>4, <2>1 DEF Close
      <4>2. queue \in [Servers -> Seq(Clients)]
        BY DEF TypeOK
      <4> QED BY <3>0, <4>1, <4>2
    <3>b. socket \in 1..made /\ closed \subseteq 1..made
      BY <2>1 DEF TypeOK
    <3>c. closed' = closed \union {socket} /\ loopRun' = FALSE /\ pc' = [pc EXCEPT ![c] = "wake"]
      BY <1>4, <2>1 DEF Close, ConnectorStep
    <3>1. /\ pc' \in [Callers -> PcAt] /\ loopRun' \in BOOLEAN /\ closed' \subseteq 1..made
      BY <3>b, <3>c DEF TypeOK, PcAt
    <3>2. UNCHANGED <<target, joins, name, failed, mName, bound, calls, crossed, fields, clients,
                      loops>>
      BY <1>4, <2>1 DEF Close
    <3> QED BY <3>a, <3>1, <3>2 DEF fields, loops, TypeOK, PcAt
  <2>2. CASE socket = 0
    BY <1>3, <1>4, <2>2 DEF Close, TypeOK
  <2> QED BY <2>1, <2>2
<1>5. CASE Wake(c)
  <2>1. 0 \in Clients
    BY DEF Clients
  <2>2. queue' \in [Servers -> Seq(Clients)]
    BY <1>5, <2>1, AppendProperties DEF Wake, TypeOK
  <2>3. pc' \in [Callers -> PcAt]
    BY <1>5 DEF Wake, ConnectorStep, TypeOK, PcAt
  <2> QED BY <1>5, <2>2, <2>3 DEF Wake, fields, loops, TypeOK, PcAt
<1>6. CASE Forget(c)
  <2>0. 0 \in 0..made
    BY DEF TypeOK
  <2>1. CASE thread # 0
    <3>1. /\ pc' \in [Callers -> PcAt] /\ joins' \in [Callers -> 0..started] /\ socket' \in 0..made
      BY <1>6, <2>0, <2>1 DEF Forget, ConnectorStep, TypeOK, PcAt
    <3>2. UNCHANGED <<target, name, failed, mName, bound, calls, crossed, thread, made, started,
                      loopRun, kernel, loops>>
      BY <1>6, <2>1 DEF Forget
    <3> QED BY <3>1, <3>2 DEF kernel, loops, TypeOK, PcAt
  <2>2. CASE thread = 0
    BY <1>3, <1>6, <2>0, <2>2 DEF Forget, TypeOK
  <2> QED BY <2>1, <2>2
<1>7. CASE Join(c)
  <2>1. /\ pc' \in [Callers -> PcAt] /\ joins' \in [Callers -> 0..started]
        /\ name' \in Names \union {NoName}
    BY <1>7 DEF Join, ConnectorStep, TypeOK, PcAt
  <2> QED BY <1>7, <2>1 DEF Join, fields, kernel, loops, TypeOK, PcAt
<1>8. CASE InitializeFails(c)
  <2>1. /\ pc' \in [Callers -> PcAt] /\ target' \in [Callers -> Names \union {NoName}]
        /\ joins' \in [Callers -> 0..started] /\ failed' \in BOOLEAN
    BY <1>8 DEF InitializeFails, Returns, ConnectorStep, TypeOK, PcAt
  <2> QED BY <1>8, <2>1 DEF InitializeFails, fields, kernel, loops, TypeOK, PcAt
<1>9. CASE Initialize(c)
  <2>1. /\ made' \in 0..MaxServers /\ socket' \in 0..made' /\ 1..made \subseteq 1..made'
        /\ 0..made \subseteq 0..made'
    BY <1>9 DEF Initialize, TypeOK
  <2>2. /\ pc' \in [Callers -> PcAt] /\ bound' \in [Servers -> Names \union {NoName}]
    BY <1>9 DEF Initialize, ConnectorStep, TypeOK, PcAt
  <2>3. on' \in [Servers -> 0..made'] /\ closed' \subseteq 1..made'
    BY <1>9, <2>1 DEF Initialize, kernel, loops, TypeOK
  <2>4. UNCHANGED <<target, joins, name, failed, mName, calls, crossed, thread, started, loopRun,
                    kernel, loops>>
    BY <1>9 DEF Initialize
  <2> QED BY <2>1, <2>2, <2>3, <2>4 DEF kernel, loops, TypeOK, PcAt
<1>10. CASE StartLoop(c)
  <2>1. /\ started' \in 0..MaxServers /\ thread' \in 0..started' /\ 1..started \subseteq 1..started'
        /\ 0..started \subseteq 0..started' /\ started + 1 \in Servers
    BY <1>10 DEF StartLoop, TypeOK, Servers
  <2>2. joins' \in [Callers -> 0..started]
    BY <1>10 DEF StartLoop, Returns, TypeOK
  <2>3. /\ pc' \in [Callers -> PcAt] /\ target' \in [Callers -> Names \union {NoName}]
        /\ joins' \in [Callers -> 0..started'] /\ told' \subseteq 1..started'
        /\ mName' \in Names \union {NoName} /\ failed' \in BOOLEAN /\ loopRun' \in BOOLEAN
    BY <1>10, <2>1, <2>2 DEF StartLoop, Returns, ConnectorStep, TypeOK, PcAt
  <2>4. /\ loop' \in [Servers -> LoopAt]
        /\ \A k \in Servers : loop'[k] \in {loop[k], "check"}
        /\ \A k \in Servers : k # started + 1 => loop'[k] = loop[k]
    BY <1>10, <2>1 DEF StartLoop, TypeOK, LoopAt
  <2>a. Started'
    <3>1. started \in Nat /\ started' = started + 1
      BY <1>10 DEF StartLoop, TypeOK
    <3> QED BY <2>4, <3>1 DEF Servers
  <2>b. Accepting'
    <3>1. on' = on
      BY <1>10 DEF StartLoop
    <3> QED BY <2>4, <3>1
  <2>5. UNCHANGED <<name, bound, calls, crossed, socket, made, kernel, on, src, in, inbox, crashed>>
    BY <1>10 DEF StartLoop
  <2> QED BY <2>1, <2>3, <2>4, <2>5, <2>a, <2>b DEF kernel, TypeOK, PcAt, LoopAt
<1> QED
  BY <1>1, <1>2, <1>4, <1>5, <1>6, <1>7, <1>8, <1>9, <1>10 DEF ConnectorProgress

(* Where the calls take turns, only c is in one.                           *)
LEMMA ConnectSolo ==
  ASSUME TypeInv, Solo, NEW c \in Callers,
         ConnectorProgress(c) \/ \E n \in Names : Connect(c, n)
  PROVE  Solo'
<1> SUFFICES ASSUME ~crossed' PROVE OneConnect' /\ OnlyThread' /\ Served'
  BY DEF Solo
<1>0. ~crossed
  BY DEF ConnectorProgress, Connect, TestSocket, Close, Wake, Forget, Join, InitializeFails,
         Initialize, StartLoop, Throws
<1>a. OneConnect /\ OnlyThread /\ Served
  BY <1>0 DEF Solo
<1>b. /\ pc \in [Callers -> PcAt] /\ joins \in [Callers -> 0..started]
      /\ loop \in [Servers -> LoopAt] /\ thread \in 0..started /\ socket \in 0..made
      /\ started \in Nat /\ made \in Nat
  BY DEF TypeInv, TypeOK, PcAt, LoopAt
<1>1. ASSUME NEW n \in Names, Connect(c, n) PROVE OneConnect' /\ OnlyThread' /\ Served'
  <2>1. /\ pc[c] = "idle"
        /\ pc' = pc \/ (pc' = [pc EXCEPT ![c] = "test"] /\ \A d \in Callers : pc[d] = "idle")
        /\ UNCHANGED <<joins, name, failed, socket, thread, loopRun, loop, told>>
    BY <1>1, <1>b DEF Connect, ConnectorStep, Busy, fields, loops
  <2> QED
    BY <1>a, <1>b, <2>1 DEF OneConnect, OnlyThread, Served, Busy, Alive, LoopAlive
<1>c. ASSUME Busy(c), \A d \in Callers : d # c => pc'[d] = pc[d]
      PROVE  \A d \in Callers : d # c => pc[d] = "idle" /\ pc'[d] = "idle"
  BY <1>a, <1>c DEF OneConnect, Busy
<1>2. CASE TestSocket(c)
  <2>1. /\ pc[c] = "test" /\ pc' = [pc EXCEPT ![c] = IF socket = 0 THEN "init" ELSE "close"]
        /\ UNCHANGED <<joins, socket, thread, loop>>
    BY <1>2 DEF TestSocket, ConnectorStep, fields, loops
  <2>2. \A d \in Callers : d # c => pc[d] = "idle" /\ pc'[d] = "idle"
    BY <1>b, <1>c, <2>1 DEF Busy
  <2> QED
    BY <1>a, <1>b, <2>1, <2>2 DEF OneConnect, OnlyThread, Served, Busy, Alive, LoopAlive
<1>3. CASE Close(c)
  <2>0. pc[c] = "close" /\ socket # 0
    BY <1>3, <1>a DEF Close, Throws, Returns, ConnectorStep, OneConnect
  <2>1. /\ pc' = [pc EXCEPT ![c] = "wake"]
        /\ UNCHANGED <<joins, socket, thread, loop>>
    BY <1>3, <2>0 DEF Close, ConnectorStep, fields, loops
  <2>2. \A d \in Callers : d # c => pc[d] = "idle" /\ pc'[d] = "idle"
    BY <1>b, <1>c, <2>0, <2>1 DEF Busy
  <2> QED
    BY <1>a, <1>b, <2>0, <2>1, <2>2 DEF OneConnect, OnlyThread, Served, Busy, Alive, LoopAlive
<1>4. CASE Wake(c)
  <2>1. /\ pc[c] = "wake" /\ pc' = [pc EXCEPT ![c] = "forget"]
        /\ UNCHANGED <<joins, socket, thread, loop>>
    BY <1>4 DEF Wake, ConnectorStep, fields, loops
  <2>2. \A d \in Callers : d # c => pc[d] = "idle" /\ pc'[d] = "idle"
    BY <1>b, <1>c, <2>1 DEF Busy
  <2> QED
    BY <1>a, <1>b, <2>1, <2>2 DEF OneConnect, OnlyThread, Served, Busy, Alive, LoopAlive
<1>5. CASE Forget(c)
  <2>0. pc[c] = "forget"
    BY <1>5 DEF Forget, Throws, Returns, ConnectorStep
  <2>a. \A d \in Callers : d # c => pc[d] = "idle"
    BY <1>a, <2>0 DEF OneConnect, Busy
  <2>b. thread # 0
    BY <1>a, <2>0, <2>a DEF OneConnect
  <2>1. /\ pc' = [pc EXCEPT ![c] = "join"] /\ joins' = [joins EXCEPT ![c] = thread]
        /\ socket' = 0 /\ UNCHANGED <<thread, loop>>
    BY <1>5, <2>b DEF Forget, ConnectorStep, loops
  <2> QED
    BY <1>a, <1>b, <2>0, <2>a, <2>1 DEF OneConnect, OnlyThread, Served, Busy, Alive, LoopAlive
<1>6. CASE Join(c)
  <2>1. /\ pc[c] = "join" /\ pc' = [pc EXCEPT ![c] = "init"]
        /\ ~Alive(thread) /\ socket = 0
        /\ UNCHANGED <<socket, thread, loop>>
    BY <1>6, <1>a DEF Join, ConnectorStep, fields, loops, OneConnect
  <2>2. \A d \in Callers : d # c => pc[d] = "idle" /\ pc'[d] = "idle"
    BY <1>b, <1>c, <2>1 DEF Busy
  <2> QED
    BY <1>a, <1>b, <2>1, <2>2 DEF OneConnect, OnlyThread, Served, Busy, Alive, LoopAlive
<1>7. CASE InitializeFails(c)
  <2>1. /\ pc[c] = "init" /\ pc' = [pc EXCEPT ![c] = "idle"] /\ failed'
        /\ socket = 0
        /\ UNCHANGED <<socket, thread, loop>>
    BY <1>7, <1>a DEF InitializeFails, Returns, ConnectorStep, fields, loops, OneConnect
  <2>2. \A d \in Callers : d # c => pc[d] = "idle" /\ pc'[d] = "idle"
    BY <1>b, <1>c, <2>1 DEF Busy
  <2> QED
    BY <1>a, <1>b, <2>1, <2>2 DEF OneConnect, OnlyThread, Served, Busy, Alive, LoopAlive
<1>8. CASE Initialize(c)
  <2>1. /\ pc[c] = "init" /\ pc' = [pc EXCEPT ![c] = "start"]
        /\ socket = 0 /\ socket' # 0
        /\ UNCHANGED <<thread, loop>>
    BY <1>8, <1>a, <1>b DEF Initialize, ConnectorStep, loops, OneConnect
  <2>2. \A d \in Callers : d # c => pc[d] = "idle" /\ pc'[d] = "idle"
    BY <1>b, <1>c, <2>1 DEF Busy
  <2> QED
    BY <1>a, <1>b, <2>1, <2>2 DEF OneConnect, OnlyThread, Served, Busy, Alive, LoopAlive
<1>9. CASE StartLoop(c)
  <2>1. /\ pc[c] = "start" /\ pc' = [pc EXCEPT ![c] = "idle"]
        /\ started + 1 \in Servers /\ thread' = started + 1 /\ loopRun' = TRUE
        /\ loop' = [loop EXCEPT ![started + 1] = "check"]
        /\ socket' = socket
    BY <1>9, <1>b, BoundsAssumption DEF StartLoop, Returns, ConnectorStep, Servers
  <2>2. \A d \in Callers : d # c => pc[d] = "idle" /\ pc'[d] = "idle"
    BY <1>b, <1>c, <2>1 DEF Busy
  <2>3. \A k \in Servers : ~Alive(k)
    BY <1>a, <2>1 DEF OnlyThread
  <2>4. \A k \in Servers : k # started + 1 => ~Alive(k)'
    BY <1>b, <2>1, <2>3 DEF Alive
  <2>5. loop'[started + 1] = "check" /\ thread' # 0 /\ (socket' # 0)
    BY <1>a, <1>b, <2>1, <2>2, <2>3 DEF OneConnect
  <2> QED
    BY <1>b, <2>1, <2>2, <2>4, <2>5 DEF OneConnect, OnlyThread, Served, Busy, Alive, LoopAlive
<1> QED
  BY <1>1, <1>2, <1>3, <1>4, <1>5, <1>6, <1>7, <1>8, <1>9 DEF ConnectorProgress

-----------------------------------------------------------------------------
(* A step of a loop thread that leaves it alive, or ends it where it may.  *)
LEMMA LoopStepKeeps ==
  ASSUME Inv, NEW k \in Servers, NEW from \in LoopAt \ {"none", "dead"}, NEW to \in LoopAt \ {"none"},
         LoopStep(k, from, to),
         queue' \in [Servers -> Seq(Clients)],
         on' \in [Servers -> 0..made], src' \in [Servers -> Clients], in' \in Clients,
         loopRun' \in BOOLEAN, crashed' \in BOOLEAN,
         inbox' \in [Clients -> InboxAt],
         \A j \in Servers : j # k => on'[j] = on[j],
         to = "accepting" => on'[k] # 0,
         (told' = told) \/ (told' = told \union {k}),
         socket # 0 /\ to = "dead" => ~loopRun,
         socket # 0 /\ loopRun /\ ~loopRun' => k \in told'
  PROVE  Inv'
<1> USE BoundsAssumption DEF Alive, LoopAlive
<1>1. /\ loop[k] = from /\ loop' = [loop EXCEPT ![k] = to] /\ loop' \in [Servers -> LoopAt]
      /\ loop \in [Servers -> LoopAt]
      /\ UNCHANGED <<connector, fields, closed, clients>>
  BY DEF LoopStep, Inv, TypeInv, TypeOK, LoopAt
<1>2. told' \subseteq 1..started /\ k <= started
  <2>1. k <= started
    BY <1>1 DEF Inv, TypeInv, Started
  <2>2. told \subseteq 1..started /\ k \in 1..started
    BY <2>1 DEF Inv, TypeInv, TypeOK, Servers
  <2> QED BY <2>1, <2>2
<1>3. TypeOK'
  BY <1>1, <1>2 DEF connector, fields, Inv, TypeInv, TypeOK, LoopAt, InboxAt
<1>4. Accepting' /\ Started'
  BY <1>1, <1>2 DEF fields, Inv, TypeInv, Accepting, Started
<1>5. Solo'
  <2> SUFFICES ASSUME ~crossed' PROVE OneConnect' /\ OnlyThread' /\ Served'
    BY DEF Solo
  <2>1. OneConnect /\ OnlyThread /\ Served
    BY <1>1 DEF Inv, Solo, connector
  <2>2. UNCHANGED <<pc, joins, name, failed, socket, thread>>
    BY <1>1 DEF connector, fields
  <2>3. OneConnect'
    BY <2>1, <2>2 DEF OneConnect, Busy
  <2>4. k = thread /\ OnlyThread'
    BY <1>1, <2>1, <2>2 DEF OnlyThread, LoopAt
  <2>5. Served'
    BY <1>1, <2>1, <2>2, <2>4 DEF Served, Busy, LoopAt
  <2> QED BY <2>3, <2>4, <2>5
<1> QED BY <1>3, <1>4, <1>5 DEF Inv, TypeInv

LEMMA LoopKeeps ==
  ASSUME Inv, NEW k \in Servers, LoopProgress(k)
  PROVE  Inv'
<1>0. /\ queue \in [Servers -> Seq(Clients)]
      /\ on \in [Servers -> 0..made] /\ src \in [Servers -> Clients] /\ in \in Clients
      /\ loopRun \in BOOLEAN /\ crashed \in BOOLEAN
      /\ inbox \in [Clients -> InboxAt]
      /\ socket \in 0..made /\ made \in Nat
  BY DEF Inv, TypeInv, TypeOK, InboxAt
<1>1. CASE LoopCheck(k)
  BY <1>0, <1>1, LoopStepKeeps DEF LoopCheck, LoopAt
<1>2. CASE LoopAccept(k)
  <2>1. on' \in [Servers -> 0..made] /\ \A j \in Servers : j # k => on'[j] = on[j]
    BY <1>0, <1>2 DEF LoopAccept
  <2>2. socket # 0 /\ socket \notin closed => on'[k] # 0
    BY <1>0, <1>2 DEF LoopAccept
  <2> DEFINE to == IF socket = 0 THEN "dead" ELSE IF socket \in closed THEN "check" ELSE "accepting"
  <2>3. /\ LoopStep(k, "accept", to) /\ to \in LoopAt \ {"none"}
        /\ to = "accepting" => on'[k] # 0
        /\ socket # 0 => to # "dead"
    BY <1>2, <2>2 DEF LoopAccept, LoopAt
  <2>4. UNCHANGED <<loopRun, queue, src, in, inbox, told>> /\ crashed' \in BOOLEAN
    BY <1>0, <1>2 DEF LoopAccept
  <2> HIDE DEF to
  <2> QED BY <1>0, <2>1, <2>3, <2>4, LoopStepKeeps DEF LoopAt
<1>3. CASE LoopAccepted(k)
  <2>0. on[k] \in Servers /\ queue[on[k]] \in Seq(Clients) /\ queue[on[k]] # << >>
    BY <1>0, <1>3, BoundsAssumption
    DEF LoopAccepted, LoopStep, Inv, TypeInv, TypeOK, Accepting, Servers
  <2>1. Head(queue[on[k]]) \in Clients /\ Tail(queue[on[k]]) \in Seq(Clients)
    BY <2>0, HeadTailProperties
  <2>a. /\ queue' = [queue EXCEPT ![on[k]] = Tail(queue[on[k]])]
        /\ src' = [src EXCEPT ![k] = Head(queue[on[k]])] /\ on' = [on EXCEPT ![k] = 0]
    BY <1>3 DEF LoopAccepted
  <2>b. queue' \in [Servers -> Seq(Clients)] /\ src' \in [Servers -> Clients]
    BY <1>0, <2>1, <2>a
  <2>c. on' \in [Servers -> 0..made] /\ \A j \in Servers : j # k => on'[j] = on[j]
    BY <1>0, <2>a
  <2>2. queue' \in [Servers -> Seq(Clients)] /\ src' \in [Servers -> Clients]
        /\ on' \in [Servers -> 0..made] /\ \A j \in Servers : j # k => on'[j] = on[j]
    BY <2>b, <2>c
  <2> QED BY <1>0, <1>3, <2>2, LoopStepKeeps DEF LoopAccepted, LoopAt
<1>4. CASE LoopTestsNull(k)
  BY <1>0, <1>4, LoopStepKeeps DEF LoopTestsNull, LoopAt
<1>5. CASE LoopTestsAddress(k)
  BY <1>0, <1>5, LoopStepKeeps DEF LoopTestsAddress, LoopAt
<1>6. CASE LoopLogs(k)
  BY <1>0, <1>6, LoopStepKeeps DEF LoopLogs, LoopAt
<1>7. CASE LoopPolls(k)
  BY <1>0, <1>7, LoopStepKeeps DEF LoopPolls, LoopAt
<1>8. CASE LoopReceives(k)
  BY <1>0, <1>8, LoopStepKeeps DEF LoopReceives, LoopAt, InboxAt
<1>9. CASE CallbackReturns(k)
  BY <1>0, <1>9, LoopStepKeeps DEF CallbackReturns, LoopAt
<1>10. CASE LoopStops(k)
  BY <1>0, <1>10, LoopStepKeeps DEF LoopStops, Rest, LoopAt, InboxAt
<1>11. CASE LoopThrows(k)
  BY <1>0, <1>11, LoopStepKeeps DEF LoopThrows, LoopAt, InboxAt
<1>12. CASE ListenerReturns(k)
  BY <1>0, <1>12, LoopStepKeeps DEF ListenerReturns, LoopAt
<1> QED
  BY <1>1, <1>2, <1>3, <1>4, <1>5, <1>6, <1>7, <1>8, <1>9, <1>10, <1>11, <1>12 DEF LoopProgress

-----------------------------------------------------------------------------
LEMMA ClientKeeps ==
  ASSUME Inv
  PROVE  /\ \A s \in Servers : ClientConnects(s) => Inv'
         /\ \A from \in {"empty", "part"}, to \in {"part", "good", "bad", "cut", "ended"} :
              ClientSends(from, to) => Inv'
<1>1. ASSUME NEW s \in Servers, ClientConnects(s) PROVE Inv'
  <2>1. clients + 1 \in Clients /\ queue[s] \in Seq(Clients) /\ clients' \in 0..MaxClients
    BY <1>1, BoundsAssumption DEF ClientConnects, Inv, TypeInv, TypeOK, Clients
  <2>2. queue' \in [Servers -> Seq(Clients)]
    BY <1>1, <2>1, AppendProperties DEF ClientConnects, Inv, TypeInv, TypeOK
  <2>3. UNCHANGED <<connector, fields, loopRun, closed, loops>>
    BY <1>1 DEF ClientConnects
  <2> QED
    BY <2>1, <2>2, <2>3
    DEF connector, fields, loops, Inv, TypeInv, TypeOK, Accepting, Started, Solo, OneConnect, OnlyThread, Served,
        Busy, Alive, LoopAlive
<1>2. ASSUME NEW from \in {"empty", "part"},
             NEW to \in {"part", "good", "bad", "cut", "ended"}, ClientSends(from, to)
      PROVE  Inv'
  <2>1. inbox' \in [Clients -> InboxAt]
    BY <1>2 DEF ClientSends, Inv, TypeInv, TypeOK, InboxAt
  <2>2. UNCHANGED <<connector, fields, loopRun, kernel, loop, on, src, in, told, crashed>>
    BY <1>2 DEF ClientSends
  <2> QED
    BY <2>1, <2>2
    DEF connector, fields, kernel, Inv, TypeInv, TypeOK, InboxAt, Accepting, Started, Solo, OneConnect,
        OnlyThread, Served, Busy, Alive, LoopAlive
<1> QED BY <1>1, <1>2

LEMMA Step == Inv /\ [Next]_vars => Inv'
<1> SUFFICES ASSUME Inv, [Next]_vars PROVE Inv'
  OBVIOUS
<1>1. ASSUME NEW c \in Callers, ConnectorProgress(c) \/ \E n \in Names : Connect(c, n) PROVE Inv'
  BY <1>1, ConnectType, ConnectSolo DEF Inv
<1>3. CASE \E k \in Servers : LoopProgress(k)
  BY <1>3, LoopKeeps
<1>4. CASE \E s \in Servers : ClientConnects(s)
  BY <1>4, ClientKeeps
<1>5. CASE \/ \E sent \in {"part", "good", "bad", "ended"} : ClientSends("empty", sent)
           \/ \E sent \in {"good", "bad", "cut"} : ClientSends("part", sent)
  BY <1>5, ClientKeeps
<1>6. CASE UNCHANGED vars
  BY <1>6
  DEF vars, connector, fields, kernel, loops, Inv, TypeInv, TypeOK, Accepting, Started, Solo, OneConnect,
      OnlyThread, Served, Busy, Alive, LoopAlive
<1> QED BY <1>1, <1>3, <1>4, <1>5, <1>6 DEF Next, Over

LEMMA Invariant == Spec => []Inv
BY Initially, Step, PTL DEF Spec

-----------------------------------------------------------------------------
(* Every variable of the socket, its threads and its clients has its type, *)
(* whatever calls of connect overlap.                                      *)
THEOREM TypeCorrect == Spec => []TypeOK
BY Invariant, PTL DEF Inv, TypeInv

(* As long as no two calls of connect overlap, on any number of threads,   *)
(* two loop threads are never alive: a new one is started only after the   *)
(* last has been joined, or has ended by itself.                           *)
THEOREM AtMostOneLoop == Spec => []OneLoop
<1>1. Inv => OneLoop
  BY DEF Inv, Solo, OnlyThread, OneLoop
<1> QED BY <1>1, Invariant, PTL

(* A loop thread that has stopped has told the listener, unless connect is *)
(* in progress, has failed, or calls have overlapped.                      *)
THEOREM StoppedIsTold == Spec => []LoopOrNotice
<1>1. Inv => LoopOrNotice
  BY DEF Inv, Solo, Served, LoopOrNotice
<1> QED BY <1>1, Invariant, PTL

(* mSocket is null under a running loop only in disconnectSocket's join(), *)
(* as long as calls do not overlap.                                        *)
THEOREM CrashOnlyInDisconnect == Spec => CrashNeedsDisconnect
<1>1. ASSUME Inv, [Next]_vars
      PROVE  [crashed' = crashed \/ crossed \/ \E c \in Callers : pc[c] = "join"]_vars
  <2>0. SUFFICES ASSUME ~crossed, \A c \in Callers : pc[c] # "join"
                 PROVE  crashed' = crashed
    OBVIOUS
  <2>a. OneConnect /\ OnlyThread /\ crashed \in BOOLEAN
    BY <1>1, <2>0 DEF Inv, Solo, TypeInv, TypeOK
  <2>1. ASSUME NEW k \in Servers, LoopAccept(k) \/ LoopTestsAddress(k)
        PROVE  crashed' = crashed
    <3>1. Alive(k)
      BY <2>1 DEF LoopAccept, LoopTestsAddress, LoopStep, Alive
    <3>2. socket # 0
      BY <2>0, <2>a, <3>1 DEF OnlyThread
    <3> QED BY <2>1, <2>a, <3>2 DEF LoopAccept, LoopTestsAddress
  <2>2. ASSUME NEW k \in Servers, LoopProgress(k), ~LoopAccept(k), ~LoopTestsAddress(k)
        PROVE  crashed' = crashed
    BY <2>2 DEF LoopProgress, LoopCheck, LoopAccepted, LoopTestsNull, LoopLogs, LoopPolls,
                LoopReceives, CallbackReturns, LoopStops, LoopThrows, ListenerReturns
  <2>3. ASSUME NEW c \in Callers, NEW n \in Names, Connect(c, n)
        PROVE  crashed' = crashed
    BY <2>3 DEF Connect, loops
  <2>4. ASSUME NEW c \in Callers, Close(c) PROVE crashed' = crashed
    <3>1. socket # 0
      BY <2>4, <2>a DEF Close, Throws, Returns, ConnectorStep, OneConnect
    <3> QED BY <2>4, <3>1 DEF Close, loops
  <2>5. ASSUME NEW c \in Callers, Forget(c) PROVE crashed' = crashed
    <3>0. pc[c] = "forget"
      BY <2>5 DEF Forget, Throws, Returns, ConnectorStep
    <3>1. thread # 0
      BY <2>a, <3>0 DEF OneConnect, Busy
    <3> QED BY <2>5, <3>1 DEF Forget, loops
  <2>6. ASSUME NEW c \in Callers, ConnectorProgress(c), ~Close(c), ~Forget(c)
        PROVE  crashed' = crashed
    BY <2>6 DEF ConnectorProgress, TestSocket, Wake, Join, InitializeFails, Initialize, StartLoop,
                loops
  <2>7. ASSUME NEW s \in Servers, ClientConnects(s) PROVE crashed' = crashed
    BY <2>7 DEF ClientConnects, loops
  <2>8. ASSUME NEW from, NEW to, ClientSends(from, to) PROVE crashed' = crashed
    BY <2>8 DEF ClientSends
  <2>9. ASSUME UNCHANGED vars PROVE crashed' = crashed
    BY <2>9 DEF vars, loops
  <2> QED
    BY <1>1, <2>1, <2>2, <2>3, <2>4, <2>5, <2>6, <2>7, <2>8, <2>9 DEF Next, Over
<1> QED BY <1>1, Invariant, PTL DEF Spec, CrashNeedsDisconnect
=============================================================================
