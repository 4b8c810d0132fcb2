----------------------- MODULE NativeConnectionProofs -----------------------
(***************************************************************************)
(* Proofs about the native socket's lifecycle, for every number of plugins, *)
(* connections and calls of initialize.                                    *)
(***************************************************************************)
EXTENDS NativeConnection, FiniteSetTheorems, SequenceTheorems, TLAPS

LEMMA InitType == Init => TypeOK
<1> SUFFICES ASSUME Init PROVE TypeOK
  OBVIOUS
<1>1. /\ backlog = << >> /\ backlog \in Seq(Conns) /\ Len(backlog) <= Backlog
  BY EmptySeq, SocketsAssumption DEF Init, KernelInit
<1>2. maker \in [Conns -> Plugins \union {NoPlugin}]
  BY DEF Init, KernelInit
<1>3. KernelTypeOK
  BY <1>1, <1>2 DEF Init, KernelInit, KernelTypeOK
<1>4. hostInits \in 0..MaxInits
  BY HostBounds DEF Init, HostInit
<1>5. HostTypeOK
  BY <1>4, Zenon DEF Init, HostInit, HostTypeOK
<1>6. reinits \in [Plugins -> 0..MaxReinits]
  BY ClientBounds DEF Init, ClientInit
<1>7. ClientTypeOK
  BY <1>6 DEF Init, ClientInit, ClientTypeOK
<1> QED BY <1>3, <1>5, <1>7 DEF TypeOK

-----------------------------------------------------------------------------
(* Types, action by action: first those of the app, which leave the clients *)
(* alone,                                                                  *)
LEMMA HostKeepsClients ==
  ASSUME TypeOK, UNCHANGED clientVars
  PROVE  ClientTypeOK'
BY DEF TypeOK, ClientTypeOK, clientVars, clientOwner

LEMMA OwnerType ==
  ASSUME TypeOK, NEW from, NEW to \in {"idle", "join", "bind", "shut", "free"},
         OwnerStep(from, to),
         listener' \in {"none", "open", "shut"}, toClient' \subseteq Conns,
         hostObj' \in BOOLEAN, hostServer' \in {NoNumber, Stale, Listening},
         hostClient' \in Conns \union {NoNumber},
         hostLoop' \in {"none", "test", "accept", "recv", "gap", "dead"},
         hostInits' \in 0..MaxInits
  PROVE  KernelTypeOK' /\ HostTypeOK'
<1>1. KernelTypeOK'
  BY DEF TypeOK, KernelTypeOK, OwnerStep, pluginEnds
<1>2. HostTypeOK'
  BY DEF TypeOK, HostTypeOK, OwnerStep, writerVars
<1> QED BY <1>1, <1>2

LEMMA LoopType ==
  ASSUME TypeOK, NEW from, NEW to \in {"none", "test", "accept", "recv", "gap", "dead"},
         LoopStep(from, to),
         backlog' \in Seq(Conns), Len(backlog') <= Backlog, appOpen' \subseteq Conns,
         hostClient' \in Conns \union {NoNumber}, replaced' \in BOOLEAN,
         toHost' \subseteq Conns
  PROVE  KernelTypeOK' /\ HostTypeOK'
<1>1. KernelTypeOK'
  BY DEF TypeOK, KernelTypeOK, LoopStep, pluginEnds
<1>2. HostTypeOK'
  BY DEF TypeOK, HostTypeOK, LoopStep, hostOwner
<1> QED BY <1>1, <1>2

LEMMA WriterType ==
  ASSUME TypeOK, NEW to \in {"idle", "first", "rest"}, WriterStep(to),
         toClient' \subseteq Conns, stray' \in BOOLEAN
  PROVE  KernelTypeOK' /\ HostTypeOK'
<1>1. KernelTypeOK'
  BY DEF TypeOK, KernelTypeOK, WriterStep, pluginEnds
<1>2. HostTypeOK'
  BY DEF TypeOK, HostTypeOK, WriterStep, hostOwner
<1> QED BY <1>1, <1>2

LEMMA OwnerStepType ==
  ASSUME TypeOK,
         HostConstruct \/ HostInitialize \/ HostDestroy \/ HostJoin \/ HostListens
           \/ HostBindFails \/ HostShuts \/ HostFrees
  PROVE  KernelTypeOK' /\ HostTypeOK'
<1>0. /\ listener \in {"none", "open", "shut"} /\ toClient \subseteq Conns
      /\ hostObj \in BOOLEAN /\ hostServer \in {NoNumber, Stale, Listening}
      /\ hostClient \in Conns \union {NoNumber}
      /\ hostLoop \in {"none", "test", "accept", "recv", "gap", "dead"}
      /\ hostInits \in 0..MaxInits
  BY DEF TypeOK, KernelTypeOK, HostTypeOK
<1>1. CASE HostConstruct
  BY <1>0, <1>1, OwnerType DEF HostConstruct
<1>2. CASE HostInitialize
  <2>1. hostInits' \in 0..MaxInits
    BY <1>0, <1>2, HostBounds DEF HostInitialize
  <2> QED BY <1>0, <1>2, <2>1, OwnerType DEF HostInitialize
<1>3. CASE HostDestroy
  <2>1. toClient' \subseteq Conns
    BY <1>0, <1>3 DEF HostDestroy, Reachable, TypeOK, KernelTypeOK
  <2> QED BY <1>0, <1>3, <2>1, OwnerType DEF HostDestroy
<1>4. CASE HostJoin
  BY <1>0, <1>4, OwnerType DEF HostJoin
<1>5. CASE HostListens
  BY <1>0, <1>5, OwnerType DEF HostListens
<1>6. CASE HostBindFails
  BY <1>0, <1>6, OwnerType DEF HostBindFails
<1>7. CASE HostShuts
  BY <1>0, <1>7, OwnerType DEF HostShuts
<1>8. CASE HostFrees
  BY <1>0, <1>8, OwnerType DEF HostFrees
<1> QED BY <1>1, <1>2, <1>3, <1>4, <1>5, <1>6, <1>7, <1>8

LEMMA LoopStepType ==
  ASSUME TypeOK,
         HostTest \/ HostAccepts \/ HostAcceptFails \/ HostReceives \/ HostDrops \/ HostForgets
  PROVE  KernelTypeOK' /\ HostTypeOK'
<1>0. /\ backlog \in Seq(Conns) /\ Len(backlog) <= Backlog /\ appOpen \subseteq Conns
      /\ hostClient \in Conns \union {NoNumber} /\ replaced \in BOOLEAN
      /\ toHost \subseteq Conns
  BY DEF TypeOK, KernelTypeOK, HostTypeOK
<1>1. CASE HostTest
  BY <1>0, <1>1, LoopType DEF HostTest
<1>2. CASE HostAccepts
  <2>1. Head(backlog) \in Conns /\ Tail(backlog) \in Seq(Conns) /\ Len(Tail(backlog)) <= Backlog
    BY <1>0, <1>2, SocketsAssumption, LenProperties, HeadTailProperties DEF HostAccepts
  <2> QED BY <1>0, <1>2, <2>1, LoopType DEF HostAccepts
<1>3. CASE HostAcceptFails
  BY <1>0, <1>3, LoopType DEF HostAcceptFails
<1>4. CASE HostReceives
  BY <1>0, <1>4, LoopType DEF HostReceives
<1>5. CASE HostDrops
  BY <1>0, <1>5, LoopType DEF HostDrops
<1>6. CASE HostForgets
  BY <1>0, <1>6, LoopType DEF HostForgets
<1> QED BY <1>1, <1>2, <1>3, <1>4, <1>5, <1>6

LEMMA WriterStepType ==
  ASSUME TypeOK, HostWrites \/ HostSendsAll \/ HostSendsPart \/ HostSendFails
  PROVE  KernelTypeOK' /\ HostTypeOK'
<1>1. CASE HostWrites
  <2>1. KernelTypeOK'
    BY <1>1 DEF HostWrites, TypeOK, KernelTypeOK, pluginEnds
  <2>2. HostTypeOK'
    BY <1>1 DEF HostWrites, TypeOK, HostTypeOK, hostOwner
  <2> QED BY <2>1, <2>2
<1>2. ASSUME Sends PROVE toClient' \subseteq Conns /\ stray' \in BOOLEAN
  <2>1. toClient' \subseteq Conns
    BY <1>2 DEF Sends, Reachable, TypeOK, KernelTypeOK
  <2>2. stray' \in BOOLEAN
    BY <1>2, Zenon DEF Sends, TypeOK, HostTypeOK
  <2> QED BY <2>1, <2>2
<1>3. CASE HostSendsAll
  BY <1>2, <1>3, WriterType DEF HostSendsAll
<1>4. CASE HostSendsPart
  BY <1>2, <1>4, WriterType DEF HostSendsPart
<1>5. CASE HostSendFails
  BY <1>5, WriterType DEF HostSendFails, TypeOK, KernelTypeOK, HostTypeOK
<1> QED BY <1>1, <1>3, <1>4, <1>5

(* then those of the plugins, which leave the app alone,                   *)
LEMMA ClientKeepsHost ==
  ASSUME TypeOK, UNCHANGED hostVars
  PROVE  HostTypeOK'
BY DEF TypeOK, HostTypeOK, hostVars, hostOwner, writerVars

LEMMA CallType ==
  ASSUME TypeOK, NEW p \in Plugins, NEW from, NEW to \in {"idle", "join", "connect"},
         CallStep(p, from, to),
         clientObj' \in [Plugins -> BOOLEAN],
         clientServer' \in [Plugins -> Conns \union {NoNumber, Stale}],
         clientThread' \in [Plugins -> Conns \union {0}],
         reinits' \in [Plugins -> 0..MaxReinits],
         clientLoop' \in [Conns -> {"none", "loop", "dead", "orphan"}],
         pluginOpen' \subseteq Conns, backlog' \in Seq(Conns), Len(backlog') <= Backlog,
         maker' \in [Conns -> Plugins \union {NoPlugin}]
  PROVE  KernelTypeOK' /\ ClientTypeOK'
<1>1. KernelTypeOK'
  BY DEF TypeOK, KernelTypeOK, CallStep, appEnd
<1>2. clientPc' \in [Plugins -> {"idle", "join", "connect"}]
  BY DEF TypeOK, ClientTypeOK, CallStep
<1>3. ClientTypeOK'
  BY <1>2 DEF ClientTypeOK
<1> QED BY <1>1, <1>3

LEMMA ThreadType ==
  ASSUME TypeOK, NEW k \in Conns, NEW to \in {"loop", "dead"}, ThreadStep(k, to),
         pluginOpen' \subseteq Conns, inRecv' \subseteq Conns, toClient' \subseteq Conns
  PROVE  KernelTypeOK' /\ ClientTypeOK'
<1>1. KernelTypeOK'
  BY DEF TypeOK, KernelTypeOK, ThreadStep, appEnd
<1>2. clientLoop' \in [Conns -> {"none", "loop", "dead", "orphan"}]
  BY DEF TypeOK, ClientTypeOK, ThreadStep
<1>3. ClientTypeOK'
  BY <1>2 DEF TypeOK, ClientTypeOK, ThreadStep, clientOwner
<1> QED BY <1>1, <1>3

CallOf(p) ==
  \/ ClientConstruct(p) \/ ClientInitialize(p) \/ ClientReinitialize(p) \/ ClientDestroy(p)
  \/ ClientJoin(p) \/ ClientRefused(p) \/ \E k \in Conns : ClientConnects(p, k)
  \/ ClientWrites(p)

LEMMA CallStepType ==
  ASSUME TypeOK, NEW p \in Plugins, CallOf(p)
  PROVE  KernelTypeOK' /\ ClientTypeOK'
<1>0. /\ clientObj \in [Plugins -> BOOLEAN]
      /\ clientServer \in [Plugins -> Conns \union {NoNumber, Stale}]
      /\ clientThread \in [Plugins -> Conns \union {0}]
      /\ reinits \in [Plugins -> 0..MaxReinits]
      /\ clientLoop \in [Conns -> {"none", "loop", "dead", "orphan"}]
      /\ pluginOpen \subseteq Conns /\ backlog \in Seq(Conns) /\ Len(backlog) <= Backlog
      /\ maker \in [Conns -> Plugins \union {NoPlugin}]
  BY DEF TypeOK, KernelTypeOK, ClientTypeOK
<1>1. CASE ClientConstruct(p)
  <2>1. clientObj' \in [Plugins -> BOOLEAN]
    BY <1>0, <1>1 DEF ClientConstruct
  <2> QED BY <1>0, <1>1, <2>1, CallType DEF ClientConstruct
<1>2. CASE ClientInitialize(p)
  BY <1>0, <1>2, CallType DEF ClientInitialize
<1>3. CASE ClientReinitialize(p)
  <2>1. reinits' \in [Plugins -> 0..MaxReinits]
    BY <1>0, <1>3, ClientBounds DEF ClientReinitialize
  <2>2. clientServer' \in [Plugins -> Conns \union {NoNumber, Stale}]
    BY <1>0, <1>3 DEF ClientReinitialize
  <2> QED BY <1>0, <1>3, <2>1, <2>2, CallType DEF ClientReinitialize
<1>4. CASE ClientDestroy(p)
  <2>1. Deletes(p) /\ pluginOpen' \subseteq Conns
    BY <1>0, <1>4 DEF ClientDestroy
  <2>2. /\ clientObj' \in [Plugins -> BOOLEAN]
        /\ clientServer' \in [Plugins -> Conns \union {NoNumber, Stale}]
        /\ clientThread' \in [Plugins -> Conns \union {0}]
    BY <1>0, <2>1 DEF Deletes
  <2>3. clientLoop' \in [Conns -> {"none", "loop", "dead", "orphan"}]
    BY <1>0, <2>1 DEF Deletes
  <2> QED BY <1>0, <2>1, <2>2, <2>3, CallType DEF Deletes
<1>5. CASE ClientJoin(p)
  <2>1. clientThread' \in [Plugins -> Conns \union {0}]
    BY <1>0, <1>5 DEF ClientJoin
  <2> QED BY <1>0, <1>5, <2>1, CallType DEF ClientJoin
<1>6. CASE ClientRefused(p)
  <2>1. clientServer' \in [Plugins -> Conns \union {NoNumber, Stale}]
    BY <1>0, <1>6 DEF ClientRefused
  <2> QED BY <1>0, <1>6, <2>1, CallType DEF ClientRefused
<1>7. ASSUME NEW k \in Conns, ClientConnects(p, k) PROVE KernelTypeOK' /\ ClientTypeOK'
  <2>1. /\ clientServer' \in [Plugins -> Conns \union {NoNumber, Stale}]
        /\ clientThread' \in [Plugins -> Conns \union {0}]
        /\ clientLoop' \in [Conns -> {"none", "loop", "dead", "orphan"}]
        /\ pluginOpen' \subseteq Conns
        /\ maker' \in [Conns -> Plugins \union {NoPlugin}]
    BY <1>0, <1>7 DEF ClientConnects
  <2>2. backlog' \in Seq(Conns) /\ Len(backlog') = Len(backlog) + 1
    BY <1>0, <1>7, AppendProperties DEF ClientConnects
  <2>3. Len(backlog') <= Backlog
    BY <1>0, <1>7, <2>2, LenProperties, SocketsAssumption DEF ClientConnects
  <2> QED BY <1>0, <1>7, <2>1, <2>2, <2>3, CallType DEF ClientConnects
<1>8. CASE ClientWrites(p)
  <2>1. ClientTypeOK'
    BY <1>8 DEF ClientWrites, TypeOK, ClientTypeOK, clientVars, clientOwner
  <2>2. KernelTypeOK'
    BY <1>0, <1>8 DEF ClientWrites, TypeOK, KernelTypeOK, appEnd
  <2> QED BY <2>1, <2>2
<1> QED BY <1>1, <1>2, <1>3, <1>4, <1>5, <1>6, <1>7, <1>8 DEF CallOf

ThreadOf(k) ==
  ClientTest(k) \/ ClientReceives(k) \/ ClientSeesEnd(k) \/ ClientInterrupted(k)

LEMMA ThreadStepType ==
  ASSUME TypeOK, NEW k \in Conns, ThreadOf(k)
  PROVE  KernelTypeOK' /\ ClientTypeOK'
<1>0. pluginOpen \subseteq Conns /\ inRecv \subseteq Conns /\ toClient \subseteq Conns
  BY DEF TypeOK, KernelTypeOK
<1>1. ASSUME NEW to \in {"loop", "dead"}, Returns(k, to),
             pluginOpen' \subseteq Conns, toClient' \subseteq Conns
      PROVE  KernelTypeOK' /\ ClientTypeOK'
  <2>1. inRecv' \subseteq Conns
    BY <1>0, <1>1 DEF Returns
  <2>2. CASE clientLoop[k] = "orphan"
    BY <1>1, <2>1, <2>2, ThreadType DEF Returns
  <2>3. CASE clientLoop[k] # "orphan"
    BY <1>1, <2>1, <2>3, ThreadType DEF Returns
  <2> QED BY <2>2, <2>3
<1>2. CASE ClientTest(k)
  <2>1. inRecv' \subseteq Conns
    BY <1>0, <1>2 DEF ClientTest
  <2>2. ThreadStep(k, "loop") \/ ThreadStep(k, "dead")
    BY <1>2 DEF ClientTest
  <2> QED BY <1>0, <1>2, <2>1, <2>2, ThreadType DEF ClientTest
<1>3. CASE ClientReceives(k)
  BY <1>0, <1>1, <1>3 DEF ClientReceives
<1>4. CASE ClientSeesEnd(k)
  BY <1>0, <1>1, <1>4 DEF ClientSeesEnd, AtEnd
<1>5. CASE ClientInterrupted(k)
  BY <1>0, <1>1, <1>5 DEF ClientInterrupted
<1> QED BY <1>2, <1>3, <1>4, <1>5 DEF ThreadOf

(* and the deaths of processes.                                            *)
LEMMA DeathType ==
  ASSUME TypeOK, AppDies \/ \E p \in Plugins : PluginDies(p)
  PROVE  TypeOK'
<1>1. CASE AppDies
  <2>1. << >> \in Seq(Conns) /\ Len(<< >>) <= Backlog
    BY EmptySeq, SocketsAssumption
  <2>2. KernelTypeOK'
    BY <1>1, <2>1 DEF AppDies, TypeOK, KernelTypeOK
  <2>3. HostTypeOK'
    BY <1>1 DEF AppDies, TypeOK, HostTypeOK
  <2> QED BY <1>1, <2>2, <2>3, HostKeepsClients DEF AppDies, TypeOK
<1>2. ASSUME NEW p \in Plugins, PluginDies(p) PROVE TypeOK'
  <2>1. KernelTypeOK'
    BY <1>2 DEF PluginDies, TypeOK, KernelTypeOK, appEnd
  <2>2. clientLoop' \in [Conns -> {"none", "loop", "dead", "orphan"}]
    BY <1>2 DEF PluginDies, TypeOK, ClientTypeOK
  <2>3. ClientTypeOK'
    BY <1>2, <2>2 DEF PluginDies, TypeOK, ClientTypeOK
  <2> QED BY <1>2, <2>1, <2>3, ClientKeepsHost DEF PluginDies, TypeOK
<1> QED BY <1>1, <1>2

-----------------------------------------------------------------------------
(* Every step is one of the app's, a plugin's, or the death of a process.  *)
HostOf ==
  \/ HostConstruct \/ HostInitialize \/ HostDestroy \/ HostJoin \/ HostListens
  \/ HostBindFails \/ HostShuts \/ HostFrees
  \/ HostTest \/ HostAccepts \/ HostAcceptFails \/ HostReceives \/ HostDrops \/ HostForgets
  \/ HostWrites \/ HostSendsAll \/ HostSendsPart \/ HostSendFails

LEMMA Steps ==
  ASSUME Next
  PROVE  \/ HostOf /\ UNCHANGED clientVars
         \/ (\E p \in Plugins : CallOf(p)) /\ UNCHANGED hostVars
         \/ (\E k \in Conns : ThreadOf(k)) /\ UNCHANGED hostVars
         \/ AppDies \/ \E p \in Plugins : PluginDies(p)
BY Zenon DEF Next, Host, Plugin, HostOf, CallOf, ThreadOf

LEMMA TypeStep == TypeOK /\ [Next]_vars => TypeOK'
<1> SUFFICES ASSUME TypeOK, [Next]_vars PROVE TypeOK'
  OBVIOUS
<1>1. CASE HostOf /\ UNCHANGED clientVars
  BY <1>1, OwnerStepType, LoopStepType, WriterStepType, HostKeepsClients DEF HostOf, TypeOK
<1>2. CASE (\E p \in Plugins : CallOf(p)) /\ UNCHANGED hostVars
  BY <1>2, CallStepType, ClientKeepsHost DEF TypeOK
<1>3. CASE (\E k \in Conns : ThreadOf(k)) /\ UNCHANGED hostVars
  BY <1>3, ThreadStepType, ClientKeepsHost DEF TypeOK
<1>4. CASE AppDies \/ \E p \in Plugins : PluginDies(p)
  BY <1>4, DeathType
<1>5. CASE UNCHANGED vars
  <2>1. KernelTypeOK'
    BY <1>5 DEF vars, kernelVars, TypeOK, KernelTypeOK
  <2> QED BY <1>5, <2>1, HostKeepsClients, ClientKeepsHost DEF vars, TypeOK
<1> QED BY <1>1, <1>2, <1>3, <1>4, <1>5, Steps

(* The kernel's tables, the host and the clients keep their types.         *)
THEOREM TypeCorrect == Spec => []TypeOK
BY InitType, TypeStep, PTL DEF Spec

-----------------------------------------------------------------------------
(* The app's side.  A process that has never listened has accepted nothing; *)
(* the event thread waits in accept() only without a client, and in the gap *)
(* its client is closed.  A write in whose course no client was dropped     *)
(* finds in m_Client the connection it began with, still open; and the      *)
(* destructor runs when no write is in progress.                           *)
Unlistened == listener = "none" => appOpen = {} /\ hostLoop = "none" /\ hostClient = NoNumber
LoopKnows ==
  /\ hostLoop = "accept" => hostClient = NoNumber
  /\ hostLoop = "gap" => hostClient \notin appOpen /\ (writer # "idle" => replaced)
Writing ==
  /\ hostPc \in {"shut", "free"} => writer = "idle"
  /\ writer # "idle" /\ ~replaced =>
       hostClient = meant /\ hostClient \in appOpen /\ hostClient # NoNumber

HostInv ==
  TypeOK /\ Unlistened /\ LoopKnows /\ Writing /\ HostDescriptors /\ StrayNeedsDrop

LEMMA InitHost == Init => HostInv
BY InitType DEF Init, KernelInit, HostInit, HostInv, Unlistened, LoopKnows, Writing,
                HostDescriptors, StrayNeedsDrop

LEMMA HostStep == HostInv /\ [Next]_vars => HostInv'
<1> SUFFICES ASSUME HostInv, [Next]_vars PROVE HostInv'
  OBVIOUS
<1> DEFINE Part == Unlistened /\ LoopKnows /\ Writing /\ HostDescriptors /\ StrayNeedsDrop
<1>0. /\ TypeOK' /\ Part
      /\ listener \in {"none", "open", "shut"} /\ appOpen \subseteq Conns
      /\ hostClient \in Conns \union {NoNumber} /\ NoNumber \notin Conns
      /\ backlog \in Seq(Conns)
  BY TypeStep DEF HostInv, TypeOK, KernelTypeOK, HostTypeOK, Conns, NoNumber
<1> USE DEF Unlistened, LoopKnows, Writing, HostDescriptors, StrayNeedsDrop
<1>1. CASE HostConstruct \/ HostInitialize \/ HostBindFails
  BY <1>0, <1>1 DEF HostConstruct, HostInitialize, HostBindFails, OwnerStep, writerVars, HostInv
<1>2. CASE HostJoin
  BY <1>0, <1>2 DEF HostJoin, OwnerStep, writerVars, HostInv
<1>3. CASE HostListens
  BY <1>0, <1>3 DEF HostListens, OwnerStep, writerVars, HostInv
<1>4. CASE HostDestroy \/ HostShuts
  BY <1>0, <1>4 DEF HostDestroy, HostShuts, OwnerStep, writerVars, HostInv
<1>5. CASE HostFrees
  BY <1>0, <1>5 DEF HostFrees, OwnerStep, writerVars, HostInv
<1>6. CASE HostTest \/ HostReceives
  BY <1>0, <1>6 DEF HostTest, HostReceives, LoopStep, hostOwner, HostInv
<1>7. CASE HostAccepts
  <2>1. Head(backlog) \in Conns /\ Head(backlog) # NoNumber
    BY <1>0, <1>7, HeadTailProperties DEF HostAccepts
  <2> QED BY <1>0, <1>7, <2>1 DEF HostAccepts, LoopStep, hostOwner, HostInv
<1>8. CASE HostAcceptFails \/ HostForgets
  BY <1>0, <1>8 DEF HostAcceptFails, HostForgets, LoopStep, hostOwner, HostInv
<1>9. CASE HostDrops
  BY <1>0, <1>9 DEF HostDrops, LoopStep, hostOwner, HostInv
<1>10. CASE HostWrites
  BY <1>0, <1>10 DEF HostWrites, hostOwner, HostInv
<1>11. CASE HostSendsAll \/ HostSendsPart \/ HostSendFails
  <2>1. CASE HostSendFails
    BY <1>0, <2>1 DEF HostSendFails, WriterStep, hostOwner, HostInv
  <2>2. CASE HostSendsAll \/ HostSendsPart
    <3>1. Sends /\ (WriterStep("idle") \/ WriterStep("rest")) /\ writer # "idle"
      BY <2>2 DEF HostSendsAll, HostSendsPart, WriterStep
    <3>2. ~(~replaced /\ (hostClient # meant \/ hostClient \notin appOpen)) /\ ~stray
      BY <1>0, <3>1
    <3>3. ~stray'
      BY <3>1, <3>2, Zenon DEF Sends
    <3> QED BY <1>0, <3>1, <3>3 DEF WriterStep, hostOwner, HostInv
  <2> QED BY <1>11, <2>1, <2>2
<1>12. CASE (\E p \in Plugins : CallOf(p)) /\ UNCHANGED hostVars
  <2>1. appOpen' = appOpen /\ listener' = listener
    BY <1>12 DEF CallOf, ClientConstruct, ClientInitialize, ClientReinitialize, ClientDestroy,
                Deletes, ClientJoin, ClientRefused, ClientConnects, ClientWrites, CallStep, appEnd
  <2> QED BY <1>0, <1>12, <2>1 DEF hostVars, hostOwner, writerVars, HostInv
<1>13. CASE (\E k \in Conns : ThreadOf(k)) /\ UNCHANGED hostVars
  <2>1. appOpen' = appOpen /\ listener' = listener
    BY <1>13 DEF ThreadOf, ClientTest, ClientReceives, ClientSeesEnd, AtEnd, ClientInterrupted,
                Returns, ThreadStep, appEnd
  <2> QED BY <1>0, <1>13, <2>1 DEF hostVars, hostOwner, writerVars, HostInv
<1>14. CASE AppDies
  BY <1>0, <1>14 DEF AppDies, HostInv
<1>15. ASSUME NEW p \in Plugins, PluginDies(p) PROVE HostInv'
  BY <1>0, <1>15 DEF PluginDies, appEnd, hostVars, hostOwner, writerVars, HostInv
<1>16. CASE UNCHANGED vars
  BY <1>0, <1>16 DEF vars, kernelVars, hostVars, hostOwner, writerVars, HostInv
<1> QED
  BY <1>1, <1>2, <1>3, <1>4, <1>5, <1>6, <1>7, <1>8, <1>9, <1>10, <1>11, <1>12, <1>13, <1>14,
     <1>15, <1>16, Steps DEF HostOf

LEMMA HostInvariant == Spec => []HostInv
BY InitHost, HostStep, PTL DEF Spec

(* The app never forgets a connection it accepted, and m_Client stands for  *)
(* an open one but between its close() and m_Client = -1.                   *)
THEOREM HostKeepsTrack == Spec => []HostDescriptors
<1>1. HostInv => HostDescriptors
  BY DEF HostInv
<1> QED BY <1>1, HostInvariant, PTL

(* A frame is torn between clients only when one was dropped under it.     *)
THEOREM NoStrayWithoutDrop == Spec => []StrayNeedsDrop
<1>1. HostInv => StrayNeedsDrop
  BY DEF HostInv
<1> QED BY <1>1, HostInvariant, PTL

-----------------------------------------------------------------------------
(* The plugins' side.  A client that has an event thread has that thread's  *)
(* connection open, and m_Server is that connection or no number at all.   *)
Made ==
  \A k \in Conns : maker[k] = NoPlugin =>
    clientLoop[k] = "none" /\ k \notin pluginOpen /\ k \notin inRecv
ThreadOpen ==
  \A p \in Plugins : clientThread[p] # 0 =>
    clientThread[p] \in pluginOpen /\ maker[clientThread[p]] = p
ServerOfThread ==
  \A p \in Plugins :
    /\ clientServer[p] \in Conns => clientServer[p] = clientThread[p]
    /\ clientPc[p] = "connect" => clientThread[p] = 0
    /\ clientPc[p] = "join" => clientServer[p] = NoNumber
InRecvRuns == \A k \in inRecv : clientLoop[k] \in {"loop", "orphan"}

ClientPart == Made /\ ThreadOpen /\ ServerOfThread /\ InRecvRuns /\ OneThreadPerClient

LEMMA Numbers == NoNumber \notin Conns /\ Stale \notin Conns /\ 0 \notin Conns /\ NoNumber = 0
BY DEF Conns, NoNumber, Stale

LEMMA InitClientPart == Init => ClientPart
BY Numbers, SocketsAssumption
   DEF Init, KernelInit, ClientInit, ClientPart, Made, ThreadOpen, ServerOfThread, InRecvRuns,
       OneThreadPerClient

(* What a plugin's owner does keeps it,                                    *)
LEMMA CallPart ==
  ASSUME TypeOK, ClientPart, NEW p \in Plugins, CallOf(p)
  PROVE  ClientPart'
<1>0. /\ clientServer \in [Plugins -> Conns \union {NoNumber, Stale}]
      /\ clientPc \in [Plugins -> {"idle", "join", "connect"}]
      /\ clientThread \in [Plugins -> Conns \union {0}]
      /\ clientLoop \in [Conns -> {"none", "loop", "dead", "orphan"}]
      /\ maker \in [Conns -> Plugins \union {NoPlugin}]
      /\ pluginOpen \subseteq Conns /\ inRecv \subseteq Conns
      /\ NoPlugin \notin Plugins
  BY SocketsAssumption DEF TypeOK, KernelTypeOK, ClientTypeOK
<1> USE Numbers DEF ClientPart, Made, ThreadOpen, ServerOfThread, InRecvRuns, OneThreadPerClient
<1>1. CASE ClientConstruct(p)
  BY <1>0, <1>1 DEF ClientConstruct, CallStep, appEnd
<1>2. CASE ClientInitialize(p)
  BY <1>0, <1>2 DEF ClientInitialize, CallStep, appEnd
<1>3. CASE ClientReinitialize(p)
  BY <1>0, <1>3 DEF ClientReinitialize, CallStep, appEnd
<1>4. CASE ClientDestroy(p)
  <2>0. /\ clientThread' = [clientThread EXCEPT ![p] = 0]
        /\ clientServer' = [clientServer EXCEPT ![p] = NoNumber]
        /\ clientLoop' = [k \in Conns |-> IF k # clientThread[p] THEN clientLoop[k]
                                         ELSE IF k \in inRecv THEN "orphan" ELSE "dead"]
        /\ clientPc[p] = "idle" /\ clientPc' = [clientPc EXCEPT ![p] = "idle"]
        /\ pluginOpen' = pluginOpen \ {clientServer[p]}
        /\ UNCHANGED <<maker, inRecv>>
    BY <1>4 DEF ClientDestroy, Deletes, CallStep
  <2>1. Made' /\ InRecvRuns'
    BY <1>0, <2>0
  <2>2. ThreadOpen'
    BY <1>0, <2>0
  <2>3. ServerOfThread'
    BY <1>0, <2>0
  <2>4. OneThreadPerClient'
    BY <1>0, <2>0
  <2> QED BY <2>1, <2>2, <2>3, <2>4
<1>5. CASE ClientJoin(p)
  <2>0. /\ clientThread' = [clientThread EXCEPT ![p] = 0]
        /\ clientPc[p] = "join" /\ clientPc' = [clientPc EXCEPT ![p] = "connect"]
        /\ clientLoop[clientThread[p]] = "dead"
        /\ UNCHANGED <<clientServer, clientLoop, pluginOpen, maker, inRecv>>
    BY <1>5 DEF ClientJoin, CallStep
  <2>1. Made' /\ InRecvRuns' /\ ThreadOpen' /\ ServerOfThread'
    BY <1>0, <2>0
  <2>2. OneThreadPerClient'
    BY <1>0, <2>0
  <2> QED BY <2>1, <2>2
<1>6. CASE ClientRefused(p)
  BY <1>0, <1>6 DEF ClientRefused, CallStep, appEnd
<1>7. ASSUME NEW k \in Conns, ClientConnects(p, k) PROVE ClientPart'
  <2>0. /\ clientThread' = [clientThread EXCEPT ![p] = k]
        /\ clientServer' = [clientServer EXCEPT ![p] = k]
        /\ clientPc[p] = "connect" /\ clientPc' = [clientPc EXCEPT ![p] = "idle"]
        /\ clientLoop' = [clientLoop EXCEPT ![k] = "loop"]
        /\ maker[k] = NoPlugin /\ maker' = [maker EXCEPT ![k] = p]
        /\ pluginOpen' = pluginOpen \union {k} /\ inRecv' = inRecv
    BY <1>7 DEF ClientConnects, CallStep
  <2>1. Made' /\ InRecvRuns'
    BY <1>0, <2>0
  <2>2. ThreadOpen'
    BY <1>0, <2>0
  <2>3. ServerOfThread'
    BY <1>0, <2>0
  <2>4. OneThreadPerClient'
    <3> SUFFICES ASSUME NEW j \in Conns, clientLoop'[j] = "loop"
                 PROVE  clientThread'[maker'[j]] = j
      OBVIOUS
    <3>1. CASE j = k
      BY <1>0, <2>0, <3>1
    <3>2. CASE j # k
      <4>1. clientLoop[j] = "loop" /\ maker'[j] = maker[j] /\ maker[j] \in Plugins
        BY <1>0, <2>0, <3>2
      <4>2. clientThread[maker[j]] = j /\ maker[j] # p
        BY <1>0, <2>0, <4>1
      <4> QED BY <1>0, <2>0, <4>1, <4>2
    <3> QED BY <3>1, <3>2
  <2> QED BY <2>1, <2>2, <2>3, <2>4
<1>8. CASE ClientWrites(p)
  BY <1>8 DEF ClientWrites, clientVars, clientOwner
<1> QED BY <1>1, <1>2, <1>3, <1>4, <1>5, <1>6, <1>7, <1>8 DEF CallOf

(* and so does what its event threads do.                                  *)
LEMMA ThreadPart ==
  ASSUME TypeOK, ClientPart, NEW k \in Conns, ThreadOf(k)
  PROVE  ClientPart'
<1>0. /\ clientLoop \in [Conns -> {"none", "loop", "dead", "orphan"}]
      /\ maker \in [Conns -> Plugins \union {NoPlugin}] /\ inRecv \subseteq Conns
      /\ NoPlugin \notin Plugins
  BY SocketsAssumption DEF TypeOK, KernelTypeOK, ClientTypeOK
<1>1. /\ \/ Outside(k) /\ inRecv' = inRecv \union {k} /\ clientLoop'[k] = "loop"
         \/ k \in inRecv /\ inRecv' = inRecv \ {k}
              /\ (clientLoop[k] = "orphan" => clientLoop'[k] = "dead")
              /\ clientLoop'[k] \in {"loop", "dead"}
         \/ Outside(k) /\ inRecv' = inRecv /\ clientLoop'[k] = "dead"
      /\ \A j \in Conns : j # k => clientLoop'[j] = clientLoop[j]
      /\ UNCHANGED <<maker, clientOwner, pluginOpen>>
  BY <1>0 DEF ThreadOf, ClientTest, ClientReceives, ClientSeesEnd, AtEnd, ClientInterrupted,
              Returns, ThreadStep
<1>2. clientLoop[k] \in {"loop", "orphan"}
  BY <1>1 DEF Outside, ClientPart, InRecvRuns
<1>3. Made' /\ InRecvRuns'
  BY <1>0, <1>1, <1>2 DEF Outside, ClientPart, Made, InRecvRuns
<1>4. OneThreadPerClient'
  BY <1>0, <1>1, <1>2 DEF Outside, ClientPart, OneThreadPerClient, clientOwner
<1>5. ThreadOpen' /\ ServerOfThread'
  BY <1>1 DEF ClientPart, ThreadOpen, ServerOfThread, clientOwner
<1> QED BY <1>3, <1>4, <1>5 DEF ClientPart

LEMMA DeathPart ==
  ASSUME TypeOK, ClientPart, NEW p \in Plugins, PluginDies(p)
  PROVE  ClientPart'
<1>0. /\ clientServer \in [Plugins -> Conns \union {NoNumber, Stale}]
      /\ clientPc \in [Plugins -> {"idle", "join", "connect"}]
      /\ clientThread \in [Plugins -> Conns \union {0}]
      /\ maker \in [Conns -> Plugins \union {NoPlugin}] /\ inRecv \subseteq Conns
      /\ NoPlugin \notin Plugins
  BY SocketsAssumption DEF TypeOK, KernelTypeOK, ClientTypeOK
<1>1. /\ pluginOpen' = pluginOpen \ {k \in Conns : maker[k] = p}
      /\ inRecv' = inRecv \ {k \in Conns : maker[k] = p}
      /\ clientServer' = [clientServer EXCEPT ![p] = NoNumber]
      /\ clientPc' = [clientPc EXCEPT ![p] = "idle"]
      /\ clientThread' = [clientThread EXCEPT ![p] = 0]
      /\ clientLoop' = [k \in Conns |-> IF k \in {j \in Conns : maker[j] = p}
                                       THEN "dead" ELSE clientLoop[k]]
      /\ maker' = maker
  BY DEF PluginDies
<1>2. Made' /\ InRecvRuns'
  BY <1>0, <1>1 DEF ClientPart, Made, InRecvRuns
<1>3. OneThreadPerClient'
  BY <1>0, <1>1 DEF ClientPart, Made, OneThreadPerClient
<1>4. ThreadOpen'
  BY <1>0, <1>1 DEF ClientPart, ThreadOpen
<1>5. ServerOfThread'
  BY <1>0, <1>1, Numbers DEF ClientPart, ServerOfThread
<1> QED BY <1>2, <1>3, <1>4, <1>5 DEF ClientPart

LEMMA ClientPartStep == TypeOK /\ ClientPart /\ [Next]_vars => ClientPart'
<1> SUFFICES ASSUME TypeOK, ClientPart, [Next]_vars PROVE ClientPart'
  OBVIOUS
<1>1. ASSUME UNCHANGED <<clientVars, maker, pluginOpen, inRecv>> PROVE ClientPart'
  BY <1>1 DEF clientVars, clientOwner, ClientPart, Made, ThreadOpen, ServerOfThread, InRecvRuns,
              OneThreadPerClient
<1>2. CASE HostOf /\ UNCHANGED clientVars
  <2>1. UNCHANGED <<maker, pluginOpen, inRecv>>
    BY <1>2
    DEF HostOf, HostConstruct, HostInitialize, HostDestroy, HostJoin, HostListens, HostBindFails,
        HostShuts, HostFrees, OwnerStep, HostTest, HostAccepts, HostAcceptFails, HostReceives,
        HostDrops, HostForgets, LoopStep, HostWrites, HostSendsAll, HostSendsPart, HostSendFails,
        WriterStep, pluginEnds
  <2> QED BY <1>1, <1>2, <2>1
<1>3. CASE AppDies
  BY <1>1, <1>3 DEF AppDies
<1>4. CASE UNCHANGED vars
  BY <1>1, <1>4 DEF vars, kernelVars
<1> QED BY <1>2, <1>3, <1>4, CallPart, ThreadPart, DeathPart, Steps

LEMMA ClientInvariant == Spec => [](TypeOK /\ ClientPart)
<1>1. Init => TypeOK /\ ClientPart
  BY InitType, InitClientPart
<1>2. TypeOK /\ ClientPart /\ [Next]_vars => (TypeOK /\ ClientPart)'
  BY TypeStep, ClientPartStep
<1> QED BY <1>1, <1>2, PTL DEF Spec

(* However often a client is initialized, one event thread at most works   *)
(* for it.                                                                 *)
THEOREM OneThread == Spec => []OneThreadPerClient
<1>1. ClientPart => OneThreadPerClient
  BY DEF ClientPart
<1> QED BY <1>1, ClientInvariant, PTL

(* m_Server stands for an open connection of its plugin, or for none.      *)
THEOREM ClientKeepsTrack == Spec => []ClientDescriptors
<1>1. TypeOK /\ ClientPart => ClientDescriptors
  BY Numbers
  DEF TypeOK, ClientTypeOK, ClientPart, ThreadOpen, ServerOfThread, ClientDescriptors
<1> QED BY <1>1, ClientInvariant, PTL

-----------------------------------------------------------------------------
(* The connections a plugin has a descriptor of that is in no field: one    *)
(* for each time it initialized a running client, at the most.             *)
Lost(p) == {k \in Conns : maker[k] = p /\ k \in pluginOpen /\ k # clientServer[p]}
Leaks == \A p \in Plugins : Cardinality(Lost(p)) <= reinits[p]

LeakInv == TypeOK /\ ClientPart /\ Leaks

LEMMA FiniteConns == ASSUME NEW S \in SUBSET Conns PROVE IsFiniteSet(S) /\ Cardinality(S) \in Nat
<1>1. IsFiniteSet(Conns)
  BY FS_Interval, SocketsAssumption DEF Conns
<1> QED BY <1>1, FS_Subset, FS_CardinalityType

LEMMA InitLeaks == Init => Leaks
<1> SUFFICES ASSUME Init, NEW p \in Plugins PROVE Cardinality(Lost(p)) <= reinits[p]
  BY DEF Leaks
<1>1. Lost(p) = {} /\ reinits[p] = 0
  BY DEF Init, KernelInit, ClientInit, Lost
<1> QED BY <1>1, FS_EmptySet

LEMMA LeaksKept ==
  ASSUME Leaks, reinits' = reinits, reinits \in [Plugins -> 0..MaxReinits],
         \A p \in Plugins : Lost(p)' \subseteq Lost(p)
  PROVE  Leaks'
<1> SUFFICES ASSUME NEW p \in Plugins PROVE Cardinality(Lost(p)') <= reinits[p]
  BY DEF Leaks
<1>1. Lost(p)' \in SUBSET Lost(p) /\ Lost(p) \in SUBSET Conns /\ Lost(p)' \in SUBSET Conns
  BY DEF Lost
<1>2. Cardinality(Lost(p)') <= Cardinality(Lost(p))
  BY <1>1, FiniteConns, FS_Subset
<1>3. Cardinality(Lost(p)) <= reinits[p] /\ reinits[p] \in Nat
  BY ClientBounds DEF Leaks
<1>4. Cardinality(Lost(p)) \in Nat /\ Cardinality(Lost(p)') \in Nat
  BY <1>1, FiniteConns
<1> QED BY <1>2, <1>3, <1>4

LEMMA LeaksMore ==
  ASSUME LeakInv, NEW p \in Plugins, ClientReinitialize(p)
  PROVE  Leaks'
<1>0. /\ reinits \in [Plugins -> 0..MaxReinits] /\ MaxReinits \in Nat
      /\ clientServer \in [Plugins -> Conns \union {NoNumber, Stale}]
  BY ClientBounds DEF LeakInv, TypeOK, ClientTypeOK
<1>1. /\ clientServer' = [clientServer EXCEPT ![p] = NoNumber]
      /\ reinits' = [reinits EXCEPT ![p] = @ + 1]
      /\ UNCHANGED <<maker, pluginOpen>>
  BY DEF ClientReinitialize
<1> SUFFICES ASSUME NEW q \in Plugins PROVE Cardinality(Lost(q)') <= reinits'[q]
  BY DEF Leaks
<1>2. Lost(q) \in SUBSET Conns /\ Lost(q)' \in SUBSET Conns
  BY DEF Lost
<1>3. Cardinality(Lost(q)) <= reinits[q] /\ reinits[q] \in Nat /\ Cardinality(Lost(q)) \in Nat
  BY <1>0, <1>2, FiniteConns DEF LeakInv, Leaks
<1>4. CASE q # p
  <2>1. Lost(q)' = Lost(q) /\ reinits'[q] = reinits[q]
    BY <1>0, <1>1, <1>4 DEF Lost
  <2> QED BY <1>3, <2>1
<1>5. CASE q = p
  <2> DEFINE more == Lost(q) \union {clientServer[q]}
  <2>1. Lost(q)' \in SUBSET more
    BY <1>1 DEF Lost
  <2>2. IsFiniteSet(more) /\ Cardinality(more) <= Cardinality(Lost(q)) + 1
    <3>1. IsFiniteSet(Lost(q))
      BY <1>2, FiniteConns
    <3>2. /\ IsFiniteSet(more)
          /\ Cardinality(more) = IF clientServer[q] \in Lost(q) THEN Cardinality(Lost(q))
                                 ELSE Cardinality(Lost(q)) + 1
      BY <3>1, FS_AddElement
    <3> HIDE DEF more
    <3> QED BY <1>3, <3>2
  <2>3. Cardinality(Lost(q)') <= Cardinality(more)
    BY <2>1, <2>2, FS_Subset
  <2>4. Cardinality(Lost(q)') \in Nat /\ Cardinality(more) \in Nat
    BY <1>2, <2>2, FiniteConns, FS_CardinalityType
  <2>5. reinits'[q] = reinits[q] + 1
    BY <1>0, <1>1, <1>5
  <2> QED BY <1>3, <2>2, <2>3, <2>4, <2>5
<1> QED BY <1>4, <1>5

LEMMA LeakStep == LeakInv /\ [Next]_vars => LeakInv'
<1> SUFFICES ASSUME LeakInv, [Next]_vars PROVE LeakInv'
  OBVIOUS
<1>0. /\ TypeOK' /\ ClientPart' /\ TypeOK /\ ClientPart /\ Leaks
      /\ reinits \in [Plugins -> 0..MaxReinits]
      /\ clientServer \in [Plugins -> Conns \union {NoNumber, Stale}]
      /\ maker \in [Conns -> Plugins \union {NoPlugin}]
      /\ NoPlugin \notin Plugins
  BY TypeStep, ClientPartStep, SocketsAssumption DEF LeakInv, TypeOK, KernelTypeOK, ClientTypeOK
<1>1. ASSUME reinits' = reinits, \A p \in Plugins : Lost(p)' \subseteq Lost(p)
      PROVE  LeakInv'
  BY <1>0, <1>1, LeaksKept DEF LeakInv
<1>2. ASSUME UNCHANGED <<maker, pluginOpen, clientServer, reinits>> PROVE LeakInv'
  BY <1>1, <1>2 DEF Lost
<1>3. CASE HostOf /\ UNCHANGED clientVars
  <2>1. UNCHANGED <<maker, pluginOpen>>
    BY <1>3
    DEF HostOf, HostConstruct, HostInitialize, HostDestroy, HostJoin, HostListens, HostBindFails,
        HostShuts, HostFrees, OwnerStep, HostTest, HostAccepts, HostAcceptFails, HostReceives,
        HostDrops, HostForgets, LoopStep, HostWrites, HostSendsAll, HostSendsPart, HostSendFails,
        WriterStep, pluginEnds
  <2> QED BY <1>2, <1>3, <2>1 DEF clientVars, clientOwner
<1>4. ASSUME NEW p \in Plugins, CallOf(p) PROVE LeakInv'
  <2>1. CASE ClientConstruct(p) \/ ClientInitialize(p) \/ ClientJoin(p) \/ ClientWrites(p)
    BY <1>2, <2>1 DEF ClientConstruct, ClientInitialize, ClientJoin, ClientWrites, clientVars,
                      clientOwner
  <2>2. CASE ClientReinitialize(p)
    BY <1>0, <2>2, LeaksMore DEF LeakInv
  <2>3. CASE ClientDestroy(p)
    <3>1. /\ clientServer' = [clientServer EXCEPT ![p] = NoNumber]
          /\ pluginOpen' = pluginOpen \ {clientServer[p]}
          /\ UNCHANGED <<maker, reinits>>
      BY <2>3 DEF ClientDestroy, Deletes
    <3>2. \A q \in Plugins : Lost(q)' \subseteq Lost(q)
      BY <1>0, <3>1 DEF Lost
    <3> QED BY <1>1, <3>1, <3>2
  <2>4. CASE ClientRefused(p)
    <3>1. /\ clientPc[p] = "connect" /\ UNCHANGED <<maker, reinits, pluginOpen>>
          /\ \E n \in {NoNumber, Stale} : clientServer' = [clientServer EXCEPT ![p] = n]
      BY <2>4 DEF ClientRefused, CallStep
    <3>2. clientServer[p] \notin Conns
      BY <1>0, <3>1, Numbers DEF ClientPart, ServerOfThread
    <3>3. \A q \in Plugins : Lost(q)' \subseteq Lost(q)
      BY <1>0, <3>1, <3>2 DEF Lost
    <3> QED BY <1>1, <3>1, <3>3
  <2>5. ASSUME NEW k \in Conns, ClientConnects(p, k) PROVE LeakInv'
    <3>1. /\ clientServer' = [clientServer EXCEPT ![p] = k] /\ clientPc[p] = "connect"
          /\ maker' = [maker EXCEPT ![k] = p] /\ maker[k] = NoPlugin
          /\ pluginOpen' = pluginOpen \union {k} /\ reinits' = reinits
      BY <2>5 DEF ClientConnects, CallStep
    <3>2. clientServer[p] \notin Conns
      BY <1>0, <3>1, Numbers DEF ClientPart, ServerOfThread
    <3>3. \A q \in Plugins : Lost(q)' \subseteq Lost(q)
      BY <1>0, <3>1, <3>2 DEF Lost
    <3> QED BY <1>1, <3>1, <3>3
  <2> QED BY <1>4, <2>1, <2>2, <2>3, <2>4, <2>5 DEF CallOf
<1>5. CASE (\E k \in Conns : ThreadOf(k)) /\ UNCHANGED hostVars
  <2>1. UNCHANGED <<maker, pluginOpen, clientServer, reinits>>
    BY <1>5 DEF ThreadOf, ClientTest, ClientReceives, ClientSeesEnd, AtEnd, ClientInterrupted,
                Returns, ThreadStep, clientOwner
  <2> QED BY <1>2, <2>1
<1>6. CASE AppDies
  BY <1>2, <1>6 DEF AppDies, clientVars, clientOwner
<1>7. ASSUME NEW p \in Plugins, PluginDies(p) PROVE LeakInv'
  <2>1. /\ clientServer' = [clientServer EXCEPT ![p] = NoNumber]
        /\ pluginOpen' = pluginOpen \ {k \in Conns : maker[k] = p}
        /\ UNCHANGED <<maker, reinits>>
    BY <1>7 DEF PluginDies
  <2>2. \A q \in Plugins : Lost(q)' \subseteq Lost(q)
    BY <1>0, <2>1 DEF Lost
  <2> QED BY <1>1, <2>1, <2>2
<1>8. CASE UNCHANGED vars
  BY <1>2, <1>8 DEF vars, kernelVars, clientVars, clientOwner
<1> QED BY <1>3, <1>4, <1>5, <1>6, <1>7, <1>8, Steps

(* What a plugin keeps open without use is bounded by its calls: one        *)
(* connection for each initialize of a running client, and one for each     *)
(* deleted client whose thread has not come out of recv().                  *)
THEOREM LeakIsBounded == Spec => []LeakBounded
<1>1. LeakInv => LeakBounded
  <2> SUFFICES ASSUME LeakInv, NEW p \in Plugins
               PROVE  Cardinality({k \in Conns : maker[k] = p /\ ClientHas(k)})
                        <= (IF clientServer[p] \in Conns THEN 1 ELSE 0) + reinits[p]
                           + Cardinality({k \in Conns : maker[k] = p /\ clientLoop[k] = "orphan"})
    BY DEF LeakBounded
  <2> DEFINE has == {k \in Conns : maker[k] = p /\ ClientHas(k)}
             orphans == {k \in Conns : maker[k] = p /\ clientLoop[k] = "orphan"}
             server == {clientServer[p]} \intersect Conns
  <2>0. /\ reinits[p] \in Nat /\ Cardinality(Lost(p)) <= reinits[p]
        /\ Lost(p) \in SUBSET Conns /\ has \in SUBSET Conns /\ orphans \in SUBSET Conns
        /\ server \in SUBSET Conns
    BY ClientBounds DEF LeakInv, TypeOK, ClientTypeOK, Leaks, Lost
  <2>1. has \subseteq (Lost(p) \union server) \union orphans
    <3> SUFFICES ASSUME NEW k \in Conns, maker[k] = p, ClientHas(k), clientLoop[k] # "orphan"
                 PROVE  k \in pluginOpen
      BY DEF Lost
    <3>1. CASE k \in inRecv
      <4>1. clientLoop[k] = "loop"
        BY <3>1 DEF LeakInv, ClientPart, InRecvRuns
      <4>2. clientThread[p] = k
        BY <4>1 DEF LeakInv, ClientPart, OneThreadPerClient
      <4> QED BY <4>2, Numbers DEF LeakInv, ClientPart, ThreadOpen
    <3>2. CASE k \notin inRecv
      BY <3>2 DEF ClientHas
    <3> QED BY <3>1, <3>2
  <2>2. Cardinality(server) <= IF clientServer[p] \in Conns THEN 1 ELSE 0
    <3>1. CASE clientServer[p] \in Conns
      <4>1. server = {clientServer[p]}
        BY <3>1
      <4> QED BY <3>1, <4>1, FS_Singleton
    <3>2. CASE clientServer[p] \notin Conns
      <4>1. server = {}
        BY <3>2
      <4> QED BY <3>2, <4>1, FS_EmptySet
    <3> QED BY <3>1, <3>2
  <2> HIDE DEF has, orphans, server
  <2>3. /\ IsFiniteSet(Lost(p)) /\ IsFiniteSet(server) /\ IsFiniteSet(orphans)
        /\ Cardinality(Lost(p)) \in Nat /\ Cardinality(server) \in Nat
        /\ Cardinality(orphans) \in Nat /\ Cardinality(has) \in Nat
    BY <2>0, FiniteConns
  <2> DEFINE two == Lost(p) \union server
             all == two \union orphans
  <2>4. IsFiniteSet(two) /\ Cardinality(two) \in Nat
        /\ Cardinality(two) <= Cardinality(Lost(p)) + Cardinality(server)
    <3>1. /\ IsFiniteSet(two)
          /\ Cardinality(two)
               = Cardinality(Lost(p)) + Cardinality(server) - Cardinality(Lost(p) \intersect server)
      BY <2>3, FS_Union
    <3>2. Lost(p) \intersect server \in SUBSET Conns
      BY <2>0
    <3>3. Cardinality(Lost(p) \intersect server) \in Nat /\ Cardinality(two) \in Nat
      BY <3>1, <3>2, FiniteConns, FS_CardinalityType
    <3> QED BY <2>3, <3>1, <3>3
  <2> HIDE DEF two
  <2>5. IsFiniteSet(all) /\ Cardinality(all) \in Nat
        /\ Cardinality(all) <= Cardinality(two) + Cardinality(orphans)
    <3>1. /\ IsFiniteSet(all)
          /\ Cardinality(all)
               = Cardinality(two) + Cardinality(orphans) - Cardinality(two \intersect orphans)
      BY <2>3, <2>4, FS_Union
    <3>2. two \intersect orphans \in SUBSET Conns
      BY <2>0
    <3>3. Cardinality(two \intersect orphans) \in Nat /\ Cardinality(all) \in Nat
      BY <3>1, <3>2, FiniteConns, FS_CardinalityType
    <3> QED BY <2>3, <2>4, <3>1, <3>3
  <2>6. Cardinality(has) <= Cardinality(all)
    <3>1. has \in SUBSET all
      BY <2>1 DEF two
    <3> QED BY <3>1, <2>5, FS_Subset
  <2>7. Cardinality(has) <= (IF clientServer[p] \in Conns THEN 1 ELSE 0) + reinits[p]
                              + Cardinality(orphans)
    <3> DEFINE one == IF clientServer[p] \in Conns THEN 1 ELSE 0
    <3>1. one \in Nat /\ Cardinality(server) <= one
      BY <2>2
    <3> HIDE DEF one
    <3>2. Cardinality(has) <= one + reinits[p] + Cardinality(orphans)
      BY <2>0, <2>3, <2>4, <2>5, <2>6, <3>1
    <3> QED BY <3>2 DEF one
  <2> QED BY <2>7 DEF has, orphans
<1>2. Init => LeakInv
  BY InitType, InitClientPart, InitLeaks DEF LeakInv
<1> QED BY <1>1, <1>2, LeakStep, PTL DEF Spec
=============================================================================
