------------------------- MODULE SocketCommonProofs -------------------------
(***************************************************************************)
(* Proofs about the write handshake of SocketCommon, for every set of       *)
(* callers, every bound on the calls and every capacity of the socket.      *)
(***************************************************************************)
EXTENDS SocketCommon, FiniteSetTheorems, TLAPS

-----------------------------------------------------------------------------
(* The invariants the properties rest on.                                  *)

(* A call owns m_WrittenMutex exactly while it sends and until it waits.   *)
MutexHeld ==
  \A c \in Callers :
    /\ mutex = c <=> pc[c] = "sent" \/ (pc[c] = "send" /\ sync[c])
    /\ pc[c] \in {"lock", "sent", "wait", "woken", "read"} => sync[c]

EventHolds == IF evpc \in {"callback", "store"} THEN 1 ELSE 0
HostHolds  == IF host = "reply" THEN 1 ELSE 0

(* Answered later than all the event thread has got hold of so far.        *)
Fresh(x) == processed < x /\ (EventHolds = 1 => evmsg < x)

(* The frames between a send and a Publish keep their order: the one the   *)
(* event thread holds is the oldest, then those in back, the one in the    *)
(* host's hands, and those in out.                                         *)
InOrder ==
  /\ EventHolds = 1 => processed < evmsg
  /\ \A i \in 1..Len(back) : Fresh(back[i]) /\ \A j \in 1..(i - 1) : back[j] < back[i]
  /\ HostHolds = 1 => Fresh(hostmsg) /\ \A j \in 1..Len(back) : back[j] < hostmsg
  /\ \A i \in 1..Len(out) :
       /\ Fresh(out[i])
       /\ HostHolds = 1 => hostmsg < out[i]
       /\ \A j \in 1..Len(back) : back[j] < out[i]
       /\ \A j \in 1..(i - 1) : out[j] < out[i]

(* Every frame in flight was sent before those behind it.                  *)
InFlight ==
  /\ processed <= sent
  /\ EventHolds = 1 => evmsg + Len(back) + HostHolds + Len(out) <= sent
  /\ \A i \in 1..Len(back) : back[i] + (Len(back) - i) + HostHolds + Len(out) <= sent
  /\ HostHolds = 1 => hostmsg + Len(out) <= sent
  /\ \A i \in 1..Len(out) : out[i] + (Len(out) - i) <= sent

-----------------------------------------------------------------------------
LEMMA InitTypeOK == Init => TypeOK
<1> SUFFICES ASSUME Init PROVE TypeOK
  OBVIOUS
<1>1. out \in Seq(Nat) /\ Len(out) <= OutCap /\ back \in Seq(Nat) /\ Len(back) <= BackCap
  BY BoundsAssumption DEF Init
<1>2. pc \in [Callers -> Labels] /\ sync \in [Callers -> BOOLEAN]
  BY DEF Init, Labels
<1>3. call \in [Callers -> Nat] /\ ret \in [Callers -> Nat \union {-1}]
  BY DEF Init
<1>4. late \in [Callers -> BOOLEAN] /\ mutex \in Callers \union {NoOne}
  BY DEF Init
<1> QED
  BY <1>1, <1>2, <1>3, <1>4 DEF Init, TypeOK

LEMMA NextTypeOK == TypeOK /\ [Next]_vars => TypeOK'
<1> SUFFICES ASSUME TypeOK, [Next]_vars PROVE TypeOK'
  OBVIOUS
<1> USE CallersAssumption, BoundsAssumption
<1>1. ASSUME NEW c \in Callers, NEW wait \in BOOLEAN, Begin(c, wait) PROVE TypeOK'
  BY <1>1 DEF TypeOK, Labels, Begin, Goto, eventVars, hostVars
<1>2. ASSUME NEW c \in Callers, Lock(c) PROVE TypeOK'
  BY <1>2 DEF TypeOK, Labels, Lock, Goto, eventVars, hostVars
<1>3. ASSUME NEW c \in Callers, PutFrame(c) PROVE sent' \in Nat /\ call' \in [Callers -> Nat]
  BY <1>3 DEF TypeOK, PutFrame
<1>4. ASSUME NEW c \in Callers, PutFrame(c) PROVE out' \in Seq(Nat) /\ Len(out') <= OutCap
  BY <1>4 DEF TypeOK, PutFrame
<1>5. ASSUME NEW c \in Callers, SendAndWait(c) PROVE TypeOK'
  <2>1. pc' \in [Callers -> Labels]
    BY <1>5 DEF TypeOK, Labels, SendAndWait, Goto
  <2> QED
    BY <1>3, <1>4, <1>5, <2>1 DEF TypeOK, SendAndWait, PutFrame, eventVars, hostVars
<1>6. ASSUME NEW c \in Callers, SendAndReturn(c) PROVE TypeOK'
  <2>1. pc' \in [Callers -> Labels]
    BY <1>6 DEF TypeOK, Labels, SendAndReturn, Finish, Goto
  <2>2. ret' \in [Callers -> Nat \union {-1}]
    <3>1. ret' = [ret EXCEPT ![c] = sent + 1]
      BY <1>6 DEF SendAndReturn, Finish
    <3>2. sent + 1 \in Nat \union {-1} /\ ret \in [Callers -> Nat \union {-1}]
      BY DEF TypeOK
    <3> QED BY <3>1, <3>2
  <2>3. slips' \in Nat
    BY <1>6 DEF TypeOK, SendAndReturn
  <2>4. UNCHANGED <<sync, late, mutex, written, evpc, evmsg, processed, back,
                    host, hostmsg, stored, begun, overlap>>
    BY <1>6 DEF SendAndReturn, PutFrame, eventVars, hostVars
  <2>5. PutFrame(c)
    BY <1>6 DEF SendAndReturn
  <2> QED
    BY <1>3, <1>4, <2>1, <2>2, <2>3, <2>4, <2>5 DEF TypeOK
<1>7. ASSUME NEW c \in Callers, SendFails(c) \/ SendInterrupted(c) PROVE TypeOK'
  BY <1>7 DEF TypeOK, Labels, SendFails, SendInterrupted, GiveUp, Goto, Finish,
              eventVars, hostVars
<1>8. ASSUME NEW c \in Callers, StartWait(c) PROVE TypeOK'
  BY <1>8 DEF TypeOK, Labels, StartWait, Goto, eventVars, hostVars
<1>9. ASSUME NEW c \in Callers, DeadlinePasses(c) PROVE TypeOK'
  BY <1>9 DEF TypeOK, Labels, DeadlinePasses, Goto, eventVars, hostVars
<1>10. ASSUME NEW c \in Callers, WakeSpuriously(c) PROVE TypeOK'
  BY <1>10 DEF TypeOK, Labels, WakeSpuriously, Goto, eventVars, hostVars
<1>11. ASSUME NEW c \in Callers, LeaveWait(c) PROVE TypeOK'
  BY <1>11 DEF TypeOK, Labels, LeaveWait, Goto, eventVars, hostVars
<1>12. ASSUME NEW c \in Callers, ReadResult(c) PROVE TypeOK'
  BY <1>12 DEF TypeOK, Labels, ReadResult, Goto, Finish, eventVars, hostVars
<1>13. CASE Receive
  BY <1>13 DEF TypeOK, Receive, callerVars, hostVars
<1>14. CASE CallbackReturns
  BY <1>14 DEF TypeOK, CallbackReturns, callerVars, hostVars
<1>15. CASE Publish
  <2>1. IsFiniteSet(Waiting) /\ Cardinality(Waiting) \in Nat
    BY FS_Subset, FS_CardinalityType DEF Waiting
  <2>2. Waiting # {} => Cardinality(Waiting) # 0
    BY <2>1, FS_EmptySet
  <2> DEFINE woken == IF Waiting = {} THEN 0 ELSE Cardinality(Waiting) - 1
  <2>3. woken \in Nat
    BY <2>1, <2>2
  <2>4. slips' \in Nat
    <3>1. slips' = slips + woken
      BY <1>15 DEF Publish
    <3> QED BY <3>1, <2>3 DEF TypeOK
  <2>5. pc' \in [Callers -> Labels]
    BY <1>15 DEF TypeOK, Labels, Publish
  <2>6. written' \in Nat
    BY <1>15 DEF TypeOK, Publish, Answer
  <2> QED
    BY <1>15, <2>4, <2>5, <2>6 DEF TypeOK, Publish, hostVars
<1>16. CASE EventThreadEnds
  BY <1>16 DEF TypeOK, EventThreadEnds, callerVars, hostVars
<1>17. ASSUME NEW queues \in BOOLEAN, HostReceive(queues) PROVE TypeOK'
  <2>1. Head(out) \in Nat /\ out' \in Seq(Nat) /\ Len(out') <= OutCap
    BY <1>17 DEF TypeOK, HostReceive
  <2>2. stored' \in SUBSET Nat
    BY <1>17, <2>1 DEF TypeOK, HostReceive
  <2> QED
    BY <1>17, <2>1, <2>2 DEF TypeOK, HostReceive, callerVars, eventVars
<1>18. CASE HostReply
  BY <1>18 DEF TypeOK, HostReply, Replied, callerVars, eventVars
<1>21. CASE HostReplyInterrupted
  BY <1>21 DEF TypeOK, HostReplyInterrupted, Replied, callerVars, eventVars
<1>19. CASE HostCloses
  BY <1>19 DEF TypeOK, HostCloses, callerVars, eventVars
<1>20. CASE UNCHANGED vars
  BY <1>20 DEF TypeOK, vars, callerVars, eventVars, hostVars
<1> QED
  BY <1>1, <1>2, <1>5, <1>6, <1>7, <1>8, <1>9, <1>10, <1>11, <1>12, <1>13, <1>14,
     <1>15, <1>16, <1>17, <1>18, <1>19, <1>20, <1>21
     DEF Next, CallerStep, EventStep, HostStep, Quiescent

(* Every variable of the handshake keeps its type, the deques of the       *)
(* socket stay within their capacities and m_iWrittenSamples never goes    *)
(* negative.                                                               *)
THEOREM TypeCorrect == Spec => []TypeOK
<1>1. Init => TypeOK
  BY InitTypeOK
<1>2. TypeOK /\ [Next]_vars => TypeOK'
  BY NextTypeOK
<1> QED BY <1>1, <1>2, PTL DEF Spec

-----------------------------------------------------------------------------
LEMMA NextMutexHeld == TypeOK /\ MutexHeld /\ [Next]_vars => MutexHeld'
<1> SUFFICES ASSUME TypeOK, MutexHeld, [Next]_vars PROVE MutexHeld'
  OBVIOUS
<1> USE CallersAssumption DEF MutexHeld
<1>0. /\ pc \in [Callers -> Labels] /\ sync \in [Callers -> BOOLEAN]
      /\ mutex \in Callers \union {NoOne}
  BY DEF TypeOK
<1> USE <1>0
<1>1. ASSUME NEW c \in Callers, NEW wait \in BOOLEAN, Begin(c, wait) PROVE MutexHeld'
  <2> SUFFICES ASSUME NEW d \in Callers
               PROVE  /\ mutex' = d <=> pc'[d] = "sent" \/ (pc'[d] = "send" /\ sync'[d])
                      /\ pc'[d] \in {"lock", "sent", "wait", "woken", "read"} => sync'[d]
    OBVIOUS
  <2>1. pc' = [pc EXCEPT ![c] = IF wait THEN "lock" ELSE "send"]
        /\ sync' = [sync EXCEPT ![c] = wait] /\ mutex' = mutex /\ pc[c] = "idle"
    BY <1>1 DEF Begin, Goto
  <2>2. CASE d = c
    <3>1. CASE wait
      BY <2>1, <2>2, <3>1
    <3>2. CASE ~wait
      BY <2>1, <2>2, <3>2
    <3> QED BY <3>1, <3>2
  <2>3. CASE d # c
    BY <2>1, <2>3
  <2> QED BY <2>2, <2>3
<1>2. ASSUME NEW c \in Callers, Lock(c) PROVE MutexHeld'
  BY <1>2 DEF Lock, Goto
<1>3. ASSUME NEW c \in Callers, SendAndWait(c) PROVE MutexHeld'
  BY <1>3 DEF SendAndWait, PutFrame, Goto
<1>4. ASSUME NEW c \in Callers, SendAndReturn(c) PROVE MutexHeld'
  BY <1>4 DEF SendAndReturn, PutFrame, Finish, Goto
<1>5. ASSUME NEW c \in Callers, SendFails(c) \/ SendInterrupted(c) PROVE MutexHeld'
  <2>1. pc[c] = "send" /\ pc' = [pc EXCEPT ![c] = "idle"] /\ sync' = sync
        /\ mutex' = IF sync[c] THEN NoOne ELSE mutex
    BY <1>5 DEF SendFails, SendInterrupted, GiveUp, Finish, Goto
  <2>2. CASE sync[c]
    BY <2>1, <2>2
  <2>3. CASE ~sync[c]
    BY <2>1, <2>3
  <2> QED BY <2>2, <2>3
<1>6. ASSUME NEW c \in Callers, StartWait(c) PROVE MutexHeld'
  BY <1>6 DEF StartWait, Goto
<1>7. ASSUME NEW c \in Callers, DeadlinePasses(c) PROVE MutexHeld'
  BY <1>7 DEF DeadlinePasses, Goto
<1>8. ASSUME NEW c \in Callers, WakeSpuriously(c) PROVE MutexHeld'
  BY <1>8 DEF WakeSpuriously, Goto
<1>9. ASSUME NEW c \in Callers, LeaveWait(c) PROVE MutexHeld'
  BY <1>9 DEF LeaveWait, Goto
<1>10. ASSUME NEW c \in Callers, ReadResult(c) PROVE MutexHeld'
  BY <1>10 DEF ReadResult, Finish, Goto
<1>11. CASE Publish
  BY <1>11 DEF Publish, Waiting
<1>12. CASE Receive \/ CallbackReturns \/ EventThreadEnds
  BY <1>12 DEF Receive, CallbackReturns, EventThreadEnds, callerVars
<1>13. CASE HostStep
  BY <1>13 DEF HostStep, HostReceive, HostReply, HostReplyInterrupted, Replied, HostCloses, callerVars
<1>14. CASE UNCHANGED vars
  BY <1>14 DEF vars, callerVars
<1> QED
  BY <1>1, <1>2, <1>3, <1>4, <1>5, <1>6, <1>7, <1>8, <1>9, <1>10, <1>11, <1>12,
     <1>13, <1>14
     DEF Next, CallerStep, EventStep, Quiescent

-----------------------------------------------------------------------------
(* What a step does to the pipeline.                                       *)
PipeVars == <<sent, processed, evpc, evmsg, back, host, hostmsg, out>>

LEMMA NextInOrder ==
  TypeOK /\ InOrder /\ InFlight /\ [Next]_vars => InOrder' /\ InFlight'
<1> SUFFICES ASSUME TypeOK, InOrder, InFlight, [Next]_vars PROVE InOrder' /\ InFlight'
  OBVIOUS
<1>0. /\ out \in Seq(Nat) /\ back \in Seq(Nat) /\ evmsg \in Nat /\ hostmsg \in Nat
      /\ sent \in Nat /\ processed \in Nat
      /\ evpc \in {"recv", "callback", "store", "done"}
      /\ host \in {"recv", "reply", "down"}
      /\ EventHolds \in {0, 1} /\ HostHolds \in {0, 1}
  BY DEF TypeOK, EventHolds, HostHolds
<1> USE <1>0
<1>1. ASSUME NEW c \in Callers, PutFrame(c), UNCHANGED <<evpc, evmsg, processed>>,
             UNCHANGED <<host, hostmsg, back>>
      PROVE  InOrder' /\ InFlight'
  <2>1. /\ sent' = sent + 1 /\ out' = Append(out, sent + 1)
        /\ EventHolds' = EventHolds /\ HostHolds' = HostHolds
    BY <1>1 DEF PutFrame, EventHolds, HostHolds
  <2>2. /\ Len(out') = Len(out) + 1 /\ out'[Len(out) + 1] = sent + 1
        /\ \A i \in 1..Len(out) : out'[i] = out[i] /\ out[i] \in Nat
    BY <2>1
  <2>3. \A i \in 1..Len(back) : back[i] \in Nat
    OBVIOUS
  <2>4. InFlight'
    <3>1. \A i \in 1..Len(out') : out'[i] + (Len(out') - i) <= sent'
      BY <2>1, <2>2 DEF InFlight
    <3>2. \A i \in 1..Len(back) :
             back[i] + (Len(back) - i) + HostHolds + Len(out') <= sent'
      <4> SUFFICES ASSUME NEW i \in 1..Len(back)
                   PROVE  back[i] + (Len(back) - i) + HostHolds + Len(out') <= sent'
        OBVIOUS
      <4>1. back[i] + (Len(back) - i) + HostHolds + Len(out) <= sent
        BY DEF InFlight
      <4>2. back[i] + (Len(back) - i) \in Int
        BY <2>3
      <4> QED BY <2>1, <2>2, <4>1, <4>2
    <3>3. EventHolds = 1 => evmsg + Len(back) + HostHolds + Len(out') <= sent'
      BY <2>1, <2>2 DEF InFlight
    <3>4. processed <= sent' /\ (HostHolds = 1 => hostmsg + Len(out') <= sent')
      BY <2>1, <2>2 DEF InFlight
    <3> QED BY <1>1, <2>1, <3>1, <3>2, <3>3, <3>4 DEF InFlight
  <2>5. ASSUME NEW i \in 1..Len(out')
        PROVE  /\ Fresh(out[i])'
               /\ HostHolds = 1 => hostmsg < out'[i]
               /\ \A j \in 1..Len(back) : back[j] < out'[i]
               /\ \A j \in 1..(i - 1) : out'[j] < out'[i]
    <3>1. CASE i \in 1..Len(out)
      BY <1>1, <2>1, <2>2, <3>1 DEF InOrder, Fresh
    <3>2. CASE i = Len(out) + 1
      <4>1. out'[i] = sent + 1 /\ processed <= sent
        BY <2>2, <3>2 DEF InFlight
      <4>2. EventHolds = 1 => evmsg <= sent
        BY DEF InFlight
      <4>3. HostHolds = 1 => hostmsg <= sent
        BY DEF InFlight
      <4>4. ASSUME NEW j \in 1..Len(back) PROVE back[j] <= sent
        <5>1. back[j] + (Len(back) - j) + HostHolds + Len(out) <= sent
          BY DEF InFlight
        <5>2. (Len(back) - j) \in Nat /\ back[j] \in Nat /\ Len(out) \in Nat
          BY <2>3
        <5> QED BY <5>1, <5>2
      <4>5. \A j \in 1..Len(out) : out[j] <= sent
        BY <2>2 DEF InFlight
      <4>6. Fresh(out[i])' /\ (HostHolds = 1 => hostmsg < out'[i])
        BY <1>1, <2>1, <4>1, <4>2, <4>3 DEF Fresh
      <4>7. \A j \in 1..Len(back) : back[j] < out'[i]
        BY <2>3, <4>1, <4>4
      <4>8. \A j \in 1..(i - 1) : out'[j] < out'[i]
        BY <2>2, <3>2, <4>1, <4>5
      <4> QED BY <4>6, <4>7, <4>8
    <3> QED BY <2>2, <3>1, <3>2
  <2>6. InOrder'
    BY <1>1, <2>1, <2>5 DEF InOrder, Fresh
  <2> QED BY <2>4, <2>6
<1>2. CASE Receive
  <2>1. evmsg' = Head(back) /\ back' = Tail(back) /\ back # << >>
        /\ EventHolds = 0 /\ EventHolds' = 1 /\ HostHolds' = HostHolds
        /\ UNCHANGED <<processed, sent, out, host, hostmsg>>
    BY <1>2 DEF Receive, EventHolds, HostHolds, hostVars
  <2>2. /\ Len(back) > 0 /\ Len(back') = Len(back) - 1 /\ evmsg' = back[1]
        /\ \A i \in 1..Len(back') : back'[i] = back[i + 1]
        /\ \A i \in 1..Len(back) : back[i] \in Nat
    BY <2>1
  <2>3. InFlight'
    BY <2>1, <2>2 DEF InFlight
  <2>4. \A i \in 1..Len(back') :
           Fresh(back[i])' /\ \A j \in 1..(i - 1) : back'[j] < back'[i]
    BY <2>1, <2>2 DEF InOrder, Fresh
  <2>5. HostHolds = 1 => Fresh(hostmsg)' /\ \A j \in 1..Len(back') : back'[j] < hostmsg
    BY <2>1, <2>2 DEF InOrder, Fresh
  <2>6. \A i \in 1..Len(out) : Fresh(out[i])' /\ \A j \in 1..Len(back') : back'[j] < out[i]
    BY <2>1, <2>2 DEF InOrder, Fresh
  <2>7. InOrder'
    BY <2>1, <2>2, <2>4, <2>5, <2>6 DEF InOrder, Fresh
  <2> QED BY <2>3, <2>7
<1>3. CASE CallbackReturns \/ EventThreadEnds
  <2>1. EventHolds' = EventHolds /\ HostHolds' = HostHolds
        /\ UNCHANGED <<evmsg, back, processed, sent, out, host, hostmsg>>
    BY <1>3 DEF CallbackReturns, EventThreadEnds, EventHolds, HostHolds, hostVars
  <2> QED BY <2>1 DEF InOrder, InFlight, Fresh
<1>4. CASE Publish
  <2>1. EventHolds = 1 /\ EventHolds' = 0 /\ HostHolds' = HostHolds
        /\ processed' = evmsg /\ UNCHANGED <<back, sent, out, host, hostmsg>>
    BY <1>4 DEF Publish, EventHolds, HostHolds, hostVars
  <2>2. InFlight'
    BY <2>1 DEF InFlight
  <2>3. InOrder'
    BY <2>1 DEF InOrder, Fresh
  <2> QED BY <2>2, <2>3
<1>5. ASSUME NEW queues \in BOOLEAN, HostReceive(queues) PROVE InOrder' /\ InFlight'
  <2>1. hostmsg' = Head(out) /\ out' = Tail(out) /\ out # << >>
        /\ HostHolds = 0 /\ HostHolds' = 1 /\ EventHolds' = EventHolds
        /\ UNCHANGED <<processed, sent, back, evmsg>>
    BY <1>5 DEF HostReceive, EventHolds, HostHolds, eventVars
  <2>2. /\ Len(out) > 0 /\ Len(out') = Len(out) - 1 /\ hostmsg' = out[1]
        /\ \A i \in 1..Len(out') : out'[i] = out[i + 1]
        /\ \A i \in 1..Len(out) : out[i] \in Nat
    BY <2>1
  <2>3. InFlight'
    <3>1. HostHolds' + Len(out') = HostHolds + Len(out)
      BY <2>1, <2>2
    <3>2. \A i \in 1..Len(back) :
             back[i] + (Len(back) - i) + HostHolds' + Len(out') <= sent
      BY <2>1, <2>2 DEF InFlight
    <3>3. EventHolds = 1 => evmsg + Len(back) + HostHolds' + Len(out') <= sent
      BY <2>1, <2>2, <3>1 DEF InFlight
    <3>4. hostmsg' + Len(out') <= sent
      BY <2>1, <2>2 DEF InFlight
    <3>5. \A i \in 1..Len(out') : out'[i] + (Len(out') - i) <= sent
      BY <2>1, <2>2 DEF InFlight
    <3> QED BY <2>1, <3>2, <3>3, <3>4, <3>5 DEF InFlight
  <2>4. Fresh(hostmsg)' /\ \A j \in 1..Len(back) : back[j] < hostmsg'
    BY <2>1, <2>2 DEF InOrder, Fresh
  <2>5. \A i \in 1..Len(out') :
           /\ Fresh(out[i])' /\ hostmsg' < out'[i]
           /\ \A j \in 1..Len(back) : back[j] < out'[i]
           /\ \A j \in 1..(i - 1) : out'[j] < out'[i]
    BY <2>1, <2>2 DEF InOrder, Fresh
  <2>6. InOrder'
    BY <2>1, <2>2, <2>4, <2>5 DEF InOrder, Fresh
  <2> QED BY <2>3, <2>6
<1>6. CASE HostReply
  <2>1. back' = Append(back, hostmsg) /\ HostHolds = 1 /\ HostHolds' = 0
        /\ EventHolds' = EventHolds /\ UNCHANGED <<processed, sent, out, evmsg>>
    BY <1>6 DEF HostReply, Replied, EventHolds, HostHolds, eventVars
  <2>2. /\ Len(back') = Len(back) + 1 /\ back'[Len(back) + 1] = hostmsg
        /\ \A i \in 1..Len(back) : back'[i] = back[i] /\ back[i] \in Nat
    BY <2>1
  <2>3. InFlight'
    <3>1. \A i \in 1..Len(back') :
             back'[i] + (Len(back') - i) + HostHolds' + Len(out) <= sent
      <4> SUFFICES ASSUME NEW i \in 1..Len(back')
                   PROVE  back'[i] + (Len(back') - i) + HostHolds' + Len(out) <= sent
        OBVIOUS
      <4>1. CASE i \in 1..Len(back)
        <5>1. back[i] + (Len(back) - i) + HostHolds + Len(out) <= sent
          BY <4>1 DEF InFlight
        <5>2. back'[i] = back[i] /\ back[i] \in Nat /\ i \in Int /\ Len(back) \in Int
          BY <2>2, <4>1
        <5> QED BY <2>1, <2>2, <5>1, <5>2
      <4>2. CASE i = Len(back) + 1
        BY <2>1, <2>2, <4>2 DEF InFlight
      <4> QED BY <2>2, <4>1, <4>2
    <3>2. EventHolds = 1 => evmsg + Len(back') + HostHolds' + Len(out) <= sent
      BY <2>1, <2>2 DEF InFlight
    <3> QED BY <2>1, <3>1, <3>2 DEF InFlight
  <2>4. ASSUME NEW i \in 1..Len(back')
        PROVE  Fresh(back[i])' /\ \A j \in 1..(i - 1) : back'[j] < back'[i]
    BY <2>1, <2>2 DEF InOrder, Fresh
  <2>5. \A i \in 1..Len(out) : \A j \in 1..Len(back') : back'[j] < out[i]
    BY <2>1, <2>2 DEF InOrder
  <2>6. InOrder'
    BY <2>1, <2>2, <2>4, <2>5 DEF InOrder, Fresh
  <2> QED BY <2>3, <2>6
<1>7. CASE HostReplyInterrupted \/ HostCloses
  <2>1. (out' = << >> \/ out' = out) /\ HostHolds' = 0 /\ EventHolds' = EventHolds
        /\ UNCHANGED <<processed, sent, back, evmsg>>
    BY <1>7 DEF HostReplyInterrupted, Replied, HostCloses, EventHolds, HostHolds, eventVars
  <2>2. \A i \in 1..Len(back) : back[i] \in Nat
    OBVIOUS
  <2>3. Len(out') \in 0..Len(out) /\ \A i \in 1..Len(out') : out'[i] = out[i] /\ out[i] \in Nat
    BY <2>1
  <2>4. InOrder'
    <3>1. \A i \in 1..Len(back) : Fresh(back[i])' /\ \A j \in 1..(i - 1) : back[j] < back[i]
      BY <2>1 DEF InOrder, Fresh
    <3>2. \A i \in 1..Len(out') :
             /\ Fresh(out[i])'
             /\ \A j \in 1..Len(back) : back[j] < out'[i]
             /\ \A j \in 1..(i - 1) : out'[j] < out'[i]
      BY <2>1, <2>2, <2>3 DEF InOrder, Fresh
    <3> QED BY <2>1, <3>1, <3>2 DEF InOrder
  <2>5. InFlight'
    <3>1. HostHolds' + Len(out') <= HostHolds + Len(out)
      BY <2>1, <2>3
    <3>2. \A i \in 1..Len(back) :
             back[i] + (Len(back) - i) + HostHolds' + Len(out') <= sent
      <4>1. ASSUME NEW x \in Int, x + HostHolds + Len(out) <= sent
            PROVE  x + HostHolds' + Len(out') <= sent
        BY <2>1, <2>3, <3>1, <4>1
      <4>2. \A i \in 1..Len(back) : back[i] + (Len(back) - i) \in Int
        BY <2>2
      <4>3. \A i \in 1..Len(back) : back[i] + (Len(back) - i) + HostHolds + Len(out) <= sent
        BY DEF InFlight
      <4> QED BY <4>1, <4>2, <4>3
    <3>3. EventHolds = 1 => evmsg + Len(back) + HostHolds' + Len(out') <= sent
      BY <2>1, <2>3, <3>1 DEF InFlight
    <3>4. \A i \in 1..Len(out') : out'[i] + (Len(out') - i) <= sent
      BY <2>1, <2>3 DEF InFlight
    <3> QED BY <2>1, <3>2, <3>3, <3>4 DEF InFlight
  <2> QED BY <2>4, <2>5
<1>8. CASE UNCHANGED PipeVars
  BY <1>8 DEF PipeVars, InOrder, InFlight, Fresh, EventHolds, HostHolds
<1>9. ASSUME NEW c \in Callers, NEW wait \in BOOLEAN, Begin(c, wait) PROVE UNCHANGED PipeVars
  BY <1>9 DEF Begin, PipeVars, eventVars, hostVars
<1>10. ASSUME NEW c \in Callers, SendAndWait(c) \/ SendAndReturn(c)
       PROVE  InOrder' /\ InFlight'
  BY <1>1, <1>10 DEF SendAndWait, SendAndReturn, PutFrame, eventVars, hostVars
<1>11. ASSUME NEW c \in Callers,
              \/ Lock(c) \/ SendFails(c) \/ SendInterrupted(c) \/ StartWait(c)
              \/ DeadlinePasses(c) \/ WakeSpuriously(c) \/ LeaveWait(c) \/ ReadResult(c)
       PROVE  UNCHANGED PipeVars
  BY <1>11 DEF Lock, SendFails, SendInterrupted, GiveUp, StartWait, DeadlinePasses,
               WakeSpuriously, LeaveWait, ReadResult, PipeVars, eventVars, hostVars
<1>12. CASE UNCHANGED vars
  BY <1>8, <1>12 DEF vars, PipeVars, eventVars, hostVars
<1> QED
  BY <1>2, <1>3, <1>4, <1>5, <1>6, <1>7, <1>8, <1>9, <1>10, <1>11, <1>12
     DEF Next, CallerStep, EventStep, HostStep, Quiescent

-----------------------------------------------------------------------------
(* The part of the inductive invariant every property below rests on.      *)
Pipeline == TypeOK /\ MutexHeld /\ InOrder /\ InFlight

LEMMA InitPipeline == Init => Pipeline
<1> SUFFICES ASSUME Init PROVE Pipeline
  OBVIOUS
<1>1. TypeOK
  BY InitTypeOK
<1>2. MutexHeld
  BY CallersAssumption DEF Init, MutexHeld
<1>3. InOrder /\ InFlight
  BY DEF Init, InOrder, InFlight, EventHolds, HostHolds
<1> QED BY <1>1, <1>2, <1>3 DEF Pipeline

LEMMA PipelineInvariant == Spec => []Pipeline
<1>1. Pipeline /\ [Next]_vars => Pipeline'
  BY NextTypeOK, NextMutexHeld, NextInOrder DEF Pipeline
<1> QED BY <1>1, InitPipeline, PTL DEF Spec

-----------------------------------------------------------------------------
LEMMA NextNoMissedNotify == Pipeline /\ NoMissedNotify /\ [Next]_vars => NoMissedNotify'
<1> SUFFICES ASSUME Pipeline, NoMissedNotify, [Next]_vars,
                    NEW d \in Callers, pc'[d] \in {"sent", "wait"}
             PROVE  call'[d] > processed'
  BY DEF NoMissedNotify
<1>0. /\ pc \in [Callers -> Labels] /\ call \in [Callers -> Nat]
      /\ sent \in Nat /\ processed \in Nat
      /\ (pc[d] \in {"sent", "wait"} => call[d] > processed)
      /\ MutexHeld
  BY DEF Pipeline, TypeOK, NoMissedNotify
<1> USE <1>0
<1>1. processed <= sent
  BY DEF Pipeline, InFlight
<1>2. ASSUME NEW c \in Callers, SendAndWait(c) PROVE call'[d] > processed'
  BY <1>1, <1>2 DEF SendAndWait, PutFrame, Goto, eventVars
<1>3. ASSUME NEW c \in Callers, SendAndReturn(c) PROVE call'[d] > processed'
  BY <1>3 DEF SendAndReturn, PutFrame, Finish, Goto, eventVars
<1>4. ASSUME NEW c \in Callers, NEW wait \in BOOLEAN, Begin(c, wait)
      PROVE  call'[d] > processed'
  <2>1. pc' = [pc EXCEPT ![c] = IF wait THEN "lock" ELSE "send"]
        /\ call' = [call EXCEPT ![c] = 0] /\ processed' = processed
    BY <1>4 DEF Begin, Goto, eventVars
  <2>2. d # c
    BY <2>1
  <2> QED BY <2>1, <2>2
<1>5. ASSUME NEW c \in Callers,
             \/ Lock(c) \/ SendFails(c) \/ SendInterrupted(c)
             \/ DeadlinePasses(c) \/ WakeSpuriously(c) \/ LeaveWait(c) \/ ReadResult(c)
      PROVE  call'[d] > processed'
  <2>1. \E l \in {"send", "idle", "woken", "read"} : pc' = [pc EXCEPT ![c] = l]
    BY <1>5 DEF Lock, SendFails, SendInterrupted, GiveUp, Finish, DeadlinePasses,
                WakeSpuriously, LeaveWait, ReadResult, Goto
  <2>2. call' = call /\ processed' = processed
    BY <1>5 DEF Lock, SendFails, SendInterrupted, GiveUp, DeadlinePasses,
                WakeSpuriously, LeaveWait, ReadResult, eventVars
  <2> QED BY <2>1, <2>2
<1>6. ASSUME NEW c \in Callers, StartWait(c) PROVE call'[d] > processed'
  BY <1>6 DEF StartWait, Goto, eventVars
<1>7. CASE Publish
  <2>1. mutex = NoOne /\ pc' = [c \in Callers |-> IF c \in Waiting THEN "woken" ELSE pc[c]]
    BY <1>7 DEF Publish
  <2>2. pc[d] # "sent"
    BY <2>1, CallersAssumption DEF MutexHeld
  <2>3. pc'[d] # "wait" /\ pc'[d] # "sent"
    BY <2>1, <2>2 DEF Waiting
  <2> QED BY <2>3
<1>8. CASE Receive \/ CallbackReturns \/ EventThreadEnds \/ HostStep \/ UNCHANGED vars
  <2>1. pc' = pc /\ call' = call /\ processed' = processed
    BY <1>8 DEF Receive, CallbackReturns, EventThreadEnds, HostStep, HostReceive,
                HostReply, HostReplyInterrupted, Replied, HostCloses, vars, callerVars, eventVars
  <2> QED BY <2>1
<1> QED
  BY <1>2, <1>3, <1>4, <1>5, <1>6, <1>7, <1>8
     DEF Next, CallerStep, EventStep, Quiescent

(* No notify is missed: the thread takes m_WrittenMutex before it sends,   *)
(* so the event thread cannot publish the answer between the send and the  *)
(* wait, for any number of writing threads and any capacity.               *)
THEOREM NotifyNeverMissed == Spec => []NoMissedNotify
<1>1. Init => NoMissedNotify
  BY DEF Init, NoMissedNotify
<1> QED BY <1>1, PipelineInvariant, NextNoMissedNotify, PTL DEF Spec

-----------------------------------------------------------------------------
(* Where m_iWrittenSamples comes from: a positive value is the number of a *)
(* write the host queued, wherever it has been copied to.                  *)
WrittenWasQueued == written > 0 => written \in stored

LEMMA NextWrittenWasQueued ==
  TypeOK /\ WrittenWasQueued /\ [Next]_vars => WrittenWasQueued'
<1> SUFFICES ASSUME TypeOK, WrittenWasQueued, [Next]_vars PROVE WrittenWasQueued'
  OBVIOUS
<1>1. CASE Publish
  BY <1>1 DEF Publish, WrittenWasQueued, Answer, hostVars
<1>2. CASE EventStep /\ ~Publish
  BY <1>2 DEF EventStep, Receive, CallbackReturns, EventThreadEnds, WrittenWasQueued, hostVars
<1>3. CASE HostStep
  BY <1>3 DEF HostStep, HostReceive, HostReply, HostReplyInterrupted, Replied, HostCloses, WrittenWasQueued
<1>4. ASSUME NEW c \in Callers, CallerStep(c) PROVE WrittenWasQueued'
  <2>1. stored' = stored /\ (written' = written \/ written' = 0)
    BY <1>4 DEF CallerStep, Begin, Lock, SendAndWait, SendAndReturn, PutFrame, SendFails,
                SendInterrupted, GiveUp, StartWait, DeadlinePasses, WakeSpuriously,
                LeaveWait, ReadResult, hostVars
  <2> QED BY <2>1 DEF WrittenWasQueued
<1>5. CASE UNCHANGED vars
  BY <1>5 DEF vars, hostVars, WrittenWasQueued
<1> QED BY <1>1, <1>2, <1>3, <1>4, <1>5 DEF Next, Quiescent

LEMMA NextPositiveWasQueued ==
  TypeOK /\ WrittenWasQueued /\ PositiveWasQueued /\ [Next]_vars => PositiveWasQueued'
<1> SUFFICES ASSUME TypeOK, WrittenWasQueued, PositiveWasQueued, [Next]_vars,
                    NEW d \in Callers, ret'[d] > 0, sync'[d], pc'[d] = "idle"
             PROVE  ret'[d] \in stored'
  BY DEF PositiveWasQueued
<1>0. /\ pc \in [Callers -> Labels] /\ sync \in [Callers -> BOOLEAN]
      /\ ret \in [Callers -> Nat \union {-1}] /\ stored \subseteq Nat
      /\ written > 0 => written \in stored
      /\ ret[d] > 0 /\ sync[d] /\ pc[d] = "idle" => ret[d] \in stored
  BY DEF TypeOK, WrittenWasQueued, PositiveWasQueued
<1> USE <1>0
<1>1. ASSUME NEW c \in Callers, NEW wait \in BOOLEAN, Begin(c, wait)
      PROVE  ret'[d] \in stored'
  <2>1. /\ pc' = [pc EXCEPT ![c] = IF wait THEN "lock" ELSE "send"]
        /\ ret' = [ret EXCEPT ![c] = 0] /\ sync' = [sync EXCEPT ![c] = wait]
        /\ stored' = stored
    BY <1>1 DEF Begin, Goto, hostVars
  <2> QED BY <2>1
<1>2. ASSUME NEW c \in Callers, SendAndReturn(c) PROVE ret'[d] \in stored'
  <2>1. ~sync[c] /\ pc' = [pc EXCEPT ![c] = "idle"] /\ ret' = [ret EXCEPT ![c] = sent + 1]
        /\ sync' = sync /\ stored' = stored
    BY <1>2 DEF SendAndReturn, PutFrame, Finish, Goto, hostVars
  <2> QED BY <2>1
<1>3. ASSUME NEW c \in Callers, SendFails(c) \/ SendInterrupted(c)
      PROVE  ret'[d] \in stored'
  <2>1. pc' = [pc EXCEPT ![c] = "idle"] /\ ret' = [ret EXCEPT ![c] = -1]
        /\ sync' = sync /\ stored' = stored
    BY <1>3 DEF SendFails, SendInterrupted, GiveUp, Finish, Goto, hostVars
  <2> QED BY <2>1
<1>4. ASSUME NEW c \in Callers, ReadResult(c) PROVE ret'[d] \in stored'
  <2>1. pc' = [pc EXCEPT ![c] = "idle"] /\ ret' = [ret EXCEPT ![c] = written]
        /\ sync' = sync /\ stored' = stored
    BY <1>4 DEF ReadResult, Finish, Goto, hostVars
  <2> QED BY <2>1
<1>5. ASSUME NEW c \in Callers,
             \/ Lock(c) \/ SendAndWait(c) \/ StartWait(c) \/ DeadlinePasses(c)
             \/ WakeSpuriously(c) \/ LeaveWait(c)
      PROVE  ret'[d] \in stored'
  <2>1. \E l \in Labels \ {"idle"} : pc' = [pc EXCEPT ![c] = l]
    BY <1>5 DEF Lock, SendAndWait, StartWait, DeadlinePasses, WakeSpuriously,
                LeaveWait, Goto, Labels
  <2>2. ret' = ret /\ sync' = sync /\ stored' = stored
    BY <1>5 DEF Lock, SendAndWait, PutFrame, StartWait, DeadlinePasses,
                WakeSpuriously, LeaveWait, hostVars
  <2> QED BY <2>1, <2>2
<1>6. CASE Publish
  <2>1. ret' = ret /\ sync' = sync /\ stored' = stored
        /\ pc' = [c \in Callers |-> IF c \in Waiting THEN "woken" ELSE pc[c]]
    BY <1>6 DEF Publish, hostVars
  <2> QED BY <2>1
<1>7. CASE Receive \/ CallbackReturns \/ EventThreadEnds \/ HostStep \/ UNCHANGED vars
  <2>1. UNCHANGED <<pc, ret, sync>> /\ stored \subseteq stored'
    BY <1>7 DEF Receive, CallbackReturns, EventThreadEnds, HostStep, HostReceive,
                HostReply, HostReplyInterrupted, Replied, HostCloses, vars, callerVars, hostVars
  <2> QED BY <2>1
<1> QED
  BY <1>1, <1>2, <1>3, <1>4, <1>5, <1>6, <1>7
     DEF Next, CallerStep, EventStep, Quiescent

(* A positive count a synchronous call returns is one the host answered to *)
(* a write whose samples it queued.                                        *)
THEOREM PositiveIsQueued == Spec => []PositiveWasQueued
<1>1. Init => TypeOK /\ WrittenWasQueued /\ PositiveWasQueued
  BY InitTypeOK DEF Init, WrittenWasQueued, PositiveWasQueued
<1>2. TypeOK /\ WrittenWasQueued /\ PositiveWasQueued /\ [Next]_vars
        => (TypeOK /\ WrittenWasQueued /\ PositiveWasQueued)'
  BY NextTypeOK, NextWrittenWasQueued, NextPositiveWasQueued
<1> QED BY <1>1, <1>2, PTL DEF Spec

-----------------------------------------------------------------------------
LEMMA PendingFinite == IsFiniteSet(Pending) /\ Cardinality(Pending) \in Nat
<1>1. Pending \subseteq Callers
  BY DEF Pending
<1> QED BY <1>1, CallersAssumption, FS_Subset, FS_CardinalityType

LEMMA NextDriftBounded == Pipeline /\ DriftBounded /\ [Next]_vars => DriftBounded'
<1> SUFFICES ASSUME Pipeline, DriftBounded, [Next]_vars PROVE DriftBounded'
  OBVIOUS
<1>0. /\ pc \in [Callers -> Labels] /\ sent \in Nat /\ processed \in Nat /\ slips \in Nat
      /\ IsFiniteSet(Pending) /\ Cardinality(Pending) \in Nat
      /\ sent - processed <= Cardinality(Pending) + slips
  BY PendingFinite DEF Pipeline, TypeOK, DriftBounded
<1> USE <1>0
<1>1. ASSUME NEW c \in Callers, SendAndWait(c) PROVE DriftBounded'
  <2>1. pc[c] = "send" /\ pc' = [pc EXCEPT ![c] = "sent"]
        /\ sent' = sent + 1 /\ processed' = processed /\ slips' = slips
    BY <1>1 DEF SendAndWait, PutFrame, Goto, eventVars
  <2>2. Pending' = Pending \union {c} /\ c \notin Pending
    BY <2>1 DEF Pending
  <2>3. Cardinality(Pending') = Cardinality(Pending) + 1
    BY <2>2, FS_AddElement
  <2> QED BY <2>1, <2>3 DEF DriftBounded
<1>2. ASSUME NEW c \in Callers, SendAndReturn(c) PROVE DriftBounded'
  <2>1. pc[c] = "send" /\ pc' = [pc EXCEPT ![c] = "idle"]
        /\ sent' = sent + 1 /\ processed' = processed /\ slips' = slips + 1
    BY <1>2 DEF SendAndReturn, PutFrame, Finish, Goto, eventVars
  <2>2. Pending' = Pending
    BY <2>1 DEF Pending
  <2> QED BY <2>1, <2>2 DEF DriftBounded
<1>3. ASSUME NEW c \in Callers, DeadlinePasses(c) \/ WakeSpuriously(c) PROVE DriftBounded'
  <2>1. pc[c] \in {"wait", "woken"} /\ pc' = [pc EXCEPT ![c] = "woken"]
        /\ sent' = sent /\ processed' = processed /\ slips' = slips + 1
    BY <1>3 DEF DeadlinePasses, WakeSpuriously, Goto, eventVars
  <2>2. Pending' = Pending \ {c}
    BY <2>1 DEF Pending
  <2>3. Cardinality(Pending') >= Cardinality(Pending) - 1
        /\ Cardinality(Pending') \in Int
    <3>1. Cardinality(Pending \ {c})
            = IF c \in Pending THEN Cardinality(Pending) - 1 ELSE Cardinality(Pending)
      BY FS_RemoveElement
    <3> QED BY <2>2, <3>1
  <2> QED BY <2>1, <2>3 DEF DriftBounded
<1>4. CASE Publish
  <2>1. /\ mutex = NoOne /\ sent' = sent /\ processed' = evmsg /\ EventHolds = 1
        /\ pc' = [c \in Callers |-> IF c \in Waiting THEN "woken" ELSE pc[c]]
        /\ slips' = slips + (IF Waiting = {} THEN 0 ELSE Cardinality(Waiting) - 1)
    BY <1>4 DEF Publish, EventHolds
  <2>2. \A c \in Callers : pc[c] # "sent"
    BY <2>1, CallersAssumption DEF Pipeline, MutexHeld
  <2>3. Waiting = Pending
    BY <2>2 DEF Waiting, Pending
  <2>4. Pending' = {}
    BY <2>1, <2>2 DEF Waiting, Pending
  <2>5. Cardinality(Pending') = 0
    BY <2>4, FS_EmptySet
  <2>6. Waiting = {} => Cardinality(Pending) = 0
    BY <2>3, FS_EmptySet
  <2>7. evmsg \in Nat /\ evmsg > processed
    BY <2>1 DEF Pipeline, TypeOK, InOrder
  <2> QED BY <2>1, <2>3, <2>5, <2>6, <2>7 DEF DriftBounded
<1>5. ASSUME NEW c \in Callers,
             \/ \E wait \in BOOLEAN : Begin(c, wait)
             \/ Lock(c) \/ SendFails(c) \/ SendInterrupted(c) \/ StartWait(c)
             \/ LeaveWait(c) \/ ReadResult(c)
      PROVE  DriftBounded'
  <2>1. \E l \in Labels : /\ pc' = [pc EXCEPT ![c] = l]
                          /\ pc[c] \in {"sent", "wait"} <=> l \in {"sent", "wait"}
    BY <1>5 DEF Begin, Lock, SendFails, SendInterrupted, GiveUp, Finish, StartWait,
                LeaveWait, ReadResult, Goto, Labels
  <2>2. Pending' = Pending
    BY <2>1 DEF Pending
  <2>3. sent' = sent /\ processed' = processed /\ slips' = slips
    BY <1>5 DEF Begin, Lock, SendFails, SendInterrupted, GiveUp, StartWait,
                LeaveWait, ReadResult, eventVars
  <2> QED BY <2>2, <2>3 DEF DriftBounded
<1>6. CASE Receive \/ CallbackReturns \/ EventThreadEnds \/ HostStep \/ UNCHANGED vars
  <2>1. UNCHANGED <<pc, sent, processed, slips>>
    BY <1>6 DEF Receive, CallbackReturns, EventThreadEnds, HostStep, HostReceive,
                HostReply, HostReplyInterrupted, Replied, HostCloses, vars, callerVars, eventVars
  <2> QED BY <2>1 DEF DriftBounded, Pending
<1> QED
  BY <1>1, <1>2, <1>3, <1>4, <1>5, <1>6
     DEF Next, CallerStep, EventStep, Quiescent

(* The answers a later call can take for its own never outnumber the calls *)
(* that still expect one plus the slips, for any number of threads.        *)
THEOREM DriftIsBounded == Spec => []DriftBounded
<1>1. Init => DriftBounded
  <2> SUFFICES ASSUME Init PROVE DriftBounded
    OBVIOUS
  <2>1. Pending = {}
    BY DEF Init, Pending
  <2>2. Cardinality(Pending) = 0
    BY <2>1, FS_EmptySet
  <2>3. sent = 0 /\ processed = 0 /\ slips = 0
    BY DEF Init
  <2> QED BY <2>2, <2>3 DEF DriftBounded
<1> QED BY <1>1, PipelineInvariant, NextDriftBounded, PTL DEF Spec

-----------------------------------------------------------------------------
(* No two calls overlapped, unless overlap says so.                        *)
Alone ==
  ~overlap => \A c, d \in Callers : pc[c] # "idle" /\ pc[d] # "idle" => c = d

LateIsSlip == \A c \in Callers : late[c] => slips > 0

(* While nothing has disturbed the handshake, the frame of a call is the   *)
(* only one in flight, and once its answer is published it is the value of *)
(* m_iWrittenSamples until the call has returned it.                       *)
Exact(c) ==
  /\ pc[c] \in {"lock", "send"} => call[c] = 0
  /\ pc[c] \in {"sent", "wait"} => call[c] = sent /\ sent = processed + 1
  /\ pc[c] \in {"woken", "read"} =>
       call[c] # 0 /\ call[c] <= processed /\ written = Answer(call[c])
  /\ Answered(c) => call[c] <= processed /\ ret[c] = Answer(call[c])

ExactInv == Undisturbed => \A c \in Callers : Exact(c)

LEMMA NextAlone == TypeOK /\ Alone /\ [Next]_vars => Alone'
<1> SUFFICES ASSUME TypeOK, Alone, [Next]_vars PROVE Alone'
  OBVIOUS
<1> USE DEF Alone
<1>0. pc \in [Callers -> Labels]
  BY DEF TypeOK
<1>1. ASSUME NEW c \in Callers, NEW wait \in BOOLEAN, Begin(c, wait) PROVE Alone'
  <2>1. \E l \in Labels : pc' = [pc EXCEPT ![c] = l]
    BY <1>1 DEF Begin, Goto, Labels
  <2>2. ~overlap' => ~overlap /\ \A d \in Callers \ {c} : pc[d] = "idle"
    BY <1>1 DEF Begin
  <2> QED BY <1>0, <2>1, <2>2
<1>2. ASSUME NEW c \in Callers, CallerStep(c), ~ \E wait \in BOOLEAN : Begin(c, wait)
      PROVE  Alone'
  <2>1. pc[c] # "idle" /\ (\E l \in Labels : pc' = [pc EXCEPT ![c] = l]) /\ overlap' = overlap
    BY <1>2 DEF CallerStep, Lock, SendAndWait, SendAndReturn, PutFrame, SendFails,
                SendInterrupted, GiveUp, Finish, StartWait, DeadlinePasses,
                WakeSpuriously, LeaveWait, ReadResult, Goto, Labels
  <2> QED BY <1>0, <2>1
<1>3. CASE Publish
  BY <1>0, <1>3 DEF Publish, Waiting
<1>4. CASE Receive \/ CallbackReturns \/ EventThreadEnds \/ HostStep \/ UNCHANGED vars
  BY <1>4 DEF Receive, CallbackReturns, EventThreadEnds, HostStep, HostReceive,
              HostReply, HostReplyInterrupted, Replied, HostCloses, vars, callerVars
<1> QED BY <1>1, <1>2, <1>3, <1>4 DEF Next, EventStep, Quiescent

LEMMA NextLateIsSlip == TypeOK /\ LateIsSlip /\ [Next]_vars => LateIsSlip'
<1> SUFFICES ASSUME TypeOK, LateIsSlip, [Next]_vars PROVE LateIsSlip'
  OBVIOUS
<1>0. late \in [Callers -> BOOLEAN] /\ slips \in Nat
  BY DEF TypeOK
<1>1. ASSUME NEW c \in Callers, DeadlinePasses(c) PROVE LateIsSlip'
  BY <1>0, <1>1 DEF DeadlinePasses, LateIsSlip
<1>2. ASSUME NEW c \in Callers, LeaveWait(c) PROVE LateIsSlip'
  BY <1>0, <1>2 DEF LeaveWait, LateIsSlip
<1>3. ASSUME NEW c \in Callers,
             \/ \E wait \in BOOLEAN : Begin(c, wait)
             \/ Lock(c) \/ SendAndWait(c) \/ SendAndReturn(c) \/ SendFails(c)
             \/ SendInterrupted(c) \/ StartWait(c) \/ WakeSpuriously(c) \/ ReadResult(c)
      PROVE  LateIsSlip'
  <2>1. late' = late /\ (slips' = slips \/ slips' = slips + 1)
    BY <1>3 DEF Begin, Lock, SendAndWait, SendAndReturn, PutFrame, SendFails,
                SendInterrupted, GiveUp, StartWait, WakeSpuriously, ReadResult
  <2> QED BY <1>0, <2>1 DEF LateIsSlip
<1>4. CASE Publish
  <2> DEFINE woken == IF Waiting = {} THEN 0 ELSE Cardinality(Waiting) - 1
  <2>1. late' = late /\ slips' = slips + woken
    BY <1>4 DEF Publish
  <2>2. woken \in Nat
    <3>1. IsFiniteSet(Waiting) /\ Cardinality(Waiting) \in Nat
      BY CallersAssumption, FS_Subset, FS_CardinalityType DEF Waiting
    <3> QED BY <3>1, FS_EmptySet
  <2> HIDE DEF woken
  <2> QED BY <1>0, <2>1, <2>2 DEF LateIsSlip
<1>5. CASE Receive \/ CallbackReturns \/ EventThreadEnds \/ HostStep \/ UNCHANGED vars
  BY <1>5 DEF Receive, CallbackReturns, EventThreadEnds, HostStep, HostReceive,
              HostReply, HostReplyInterrupted, Replied, HostCloses, vars, callerVars, LateIsSlip
<1> QED BY <1>1, <1>2, <1>3, <1>4, <1>5 DEF Next, CallerStep, EventStep, Quiescent

(* A call on its own that has not sent its frame yet finds nothing of an   *)
(* earlier one in flight; one that has sent it finds only its own.         *)
LEMMA NothingInFlight ==
  ASSUME Pipeline, DriftBounded, Alone, Undisturbed, NEW c \in Callers, pc[c] # "idle"
  PROVE  /\ pc[c] \notin {"sent", "wait"} => sent = processed
         /\ pc[c] \in {"sent", "wait"} => sent <= processed + 1
<1>1. sent \in Nat /\ processed \in Nat /\ sent - processed <= Cardinality(Pending)
      /\ sent - processed >= 0
  BY PendingFinite DEF Pipeline, TypeOK, InFlight, DriftBounded, Undisturbed
<1>2. \A d \in Callers \ {c} : pc[d] = "idle"
  BY DEF Alone, Undisturbed
<1>3. CASE pc[c] \notin {"sent", "wait"}
  <2>1. Pending = {}
    BY <1>2, <1>3 DEF Pending
  <2> QED BY <1>1, <1>3, <2>1, FS_EmptySet
<1>4. CASE pc[c] \in {"sent", "wait"}
  <2>1. Pending = {c}
    BY <1>2, <1>4 DEF Pending
  <2>2. Cardinality(Pending) = 1
    BY <2>1, FS_Singleton
  <2> QED BY <1>1, <1>4, <2>2
<1> QED BY <1>3, <1>4

LEMMA NextExactInv ==
  /\ Pipeline /\ DriftBounded /\ NoMissedNotify /\ Alone /\ LateIsSlip /\ ExactInv
  /\ [Next]_vars
  => ExactInv'
<1> SUFFICES ASSUME Pipeline, DriftBounded, NoMissedNotify, Alone, LateIsSlip, ExactInv,
                    [Next]_vars, Undisturbed', NEW d \in Callers
             PROVE  Exact(d)'
  BY DEF ExactInv
<1>0. /\ pc \in [Callers -> Labels] /\ sync \in [Callers -> BOOLEAN]
      /\ call \in [Callers -> Nat] /\ ret \in [Callers -> Nat \union {-1}]
      /\ sent \in Nat /\ processed \in Nat /\ slips \in Nat /\ evmsg \in Nat
      /\ late \in [Callers -> BOOLEAN] /\ MutexHeld /\ processed <= sent
  BY DEF Pipeline, TypeOK, InFlight
<1> USE <1>0
<1>1. ASSUME Undisturbed PROVE Exact(d) /\ slips = 0 /\ ~overlap
  BY <1>1 DEF ExactInv, Undisturbed
<1>2. ASSUME NEW c \in Callers, NEW wait \in BOOLEAN, Begin(c, wait) PROVE Exact(d)'
  <2>1. /\ pc[c] = "idle" /\ pc' = [pc EXCEPT ![c] = IF wait THEN "lock" ELSE "send"]
        /\ call' = [call EXCEPT ![c] = 0] /\ ret' = [ret EXCEPT ![c] = 0]
        /\ sync' = [sync EXCEPT ![c] = wait] /\ UNCHANGED <<sent, processed, written, stored>>
        /\ slips' = slips /\ overlap' = (overlap \/ \E e \in Callers \ {c} : pc[e] # "idle")
    BY <1>2 DEF Begin, Goto, eventVars, hostVars
  <2>2. Exact(d)
    BY <1>1, <2>1 DEF Undisturbed
  <2>3. CASE d = c
    BY <2>1, <2>3 DEF Exact, Answered
  <2>4. CASE d # c
    BY <2>1, <2>2, <2>4 DEF Exact, Answered, Answer
  <2> QED BY <2>3, <2>4
<1>3. ASSUME NEW c \in Callers, SendAndWait(c) PROVE Exact(d)'
  <2>1. /\ pc[c] = "send" /\ pc' = [pc EXCEPT ![c] = "sent"] /\ sent' = sent + 1
        /\ call' = [call EXCEPT ![c] = sent + 1] /\ overlap' = overlap
        /\ UNCHANGED <<ret, sync, processed, written, stored, slips>>
    BY <1>3 DEF SendAndWait, PutFrame, Goto, eventVars, hostVars
  <2>2. Undisturbed /\ Exact(d)
    BY <1>1, <2>1 DEF Undisturbed
  <2>3. sent = processed
    BY <2>1, <2>2, NothingInFlight
  <2>4. CASE d = c
    BY <2>1, <2>3, <2>4 DEF Exact, Answered
  <2>5. CASE d # c
    <3>1. pc[d] = "idle"
      BY <2>1, <2>2, <2>5 DEF Alone, Undisturbed
    <3> QED BY <2>1, <2>2, <2>5, <3>1 DEF Exact, Answered, Answer
  <2> QED BY <2>4, <2>5
<1>4. ASSUME NEW c \in Callers, SendAndReturn(c) \/ DeadlinePasses(c) \/ WakeSpuriously(c)
      PROVE  FALSE
  <2>1. slips' = slips + 1
    BY <1>4 DEF SendAndReturn, DeadlinePasses, WakeSpuriously
  <2> QED BY <2>1 DEF Undisturbed
<1>5. ASSUME NEW c \in Callers, SendFails(c) \/ SendInterrupted(c) PROVE Exact(d)'
  <2>1. /\ UNCHANGED <<sync, call, sent, processed, written, stored, slips, overlap>>
        /\ pc[c] = "send" /\ pc' = [pc EXCEPT ![c] = "idle"]
        /\ ret' = [ret EXCEPT ![c] = -1]
    BY <1>5 DEF SendFails, SendInterrupted, GiveUp, Finish, Goto, eventVars, hostVars
  <2>2. Exact(d)
    BY <1>1, <2>1 DEF Undisturbed
  <2> QED BY <2>1, <2>2 DEF Exact, Answered, Answer
<1>6. ASSUME NEW c \in Callers, Lock(c) \/ StartWait(c) PROVE Exact(d)'
  <2>1. /\ UNCHANGED <<sync, call, ret, sent, processed, written, stored, slips, overlap>>
        /\ \/ pc[c] = "lock" /\ pc' = [pc EXCEPT ![c] = "send"]
           \/ pc[c] = "sent" /\ pc' = [pc EXCEPT ![c] = "wait"]
    BY <1>6 DEF Lock, StartWait, Goto, eventVars, hostVars
  <2>2. Exact(d)
    BY <1>1, <2>1 DEF Undisturbed
  <2> QED BY <2>1, <2>2 DEF Exact, Answered, Answer
<1>7. ASSUME NEW c \in Callers, LeaveWait(c) PROVE Exact(d)'
  <2>1. /\ UNCHANGED <<sync, call, ret, sent, processed, stored, slips, overlap>>
        /\ pc[c] = "woken" /\ pc' = [pc EXCEPT ![c] = "read"]
        /\ written' = IF late[c] THEN 0 ELSE written
    BY <1>7 DEF LeaveWait, Goto, eventVars, hostVars
  <2>2. Exact(d) /\ slips = 0
    BY <1>1, <2>1 DEF Undisturbed
  <2>3. written' = written
    BY <2>1, <2>2 DEF LateIsSlip
  <2> QED BY <2>1, <2>2, <2>3 DEF Exact, Answered, Answer
<1>8. ASSUME NEW c \in Callers, ReadResult(c) PROVE Exact(d)'
  <2>1. /\ UNCHANGED <<sync, call, sent, processed, written, stored, slips, overlap>>
        /\ pc[c] = "read" /\ pc' = [pc EXCEPT ![c] = "idle"]
        /\ ret' = [ret EXCEPT ![c] = written]
    BY <1>8 DEF ReadResult, Finish, Goto, eventVars, hostVars
  <2>2. Exact(d)
    BY <1>1, <2>1 DEF Undisturbed
  <2>3. CASE d = c
    BY <2>1, <2>2, <2>3 DEF Exact, Answered, Answer
  <2>4. CASE d # c
    BY <2>1, <2>2, <2>4 DEF Exact, Answered, Answer
  <2> QED BY <2>3, <2>4
<1>9. CASE Publish
  <2>1. /\ UNCHANGED <<sync, call, ret, sent, stored, overlap>>
        /\ mutex = NoOne /\ evpc = "store"
        /\ pc' = [c \in Callers |-> IF c \in Waiting THEN "woken" ELSE pc[c]]
        /\ written' = Answer(evmsg) /\ processed' = evmsg
    BY <1>9 DEF Publish, hostVars
  <2>2. slips' = slips + (IF Waiting = {} THEN 0 ELSE Cardinality(Waiting) - 1)
    BY <1>9 DEF Publish
  <2>3. IsFiniteSet(Waiting) /\ Cardinality(Waiting) \in Nat
        /\ (Waiting # {} => Cardinality(Waiting) # 0)
    BY CallersAssumption, FS_Subset, FS_CardinalityType, FS_EmptySet DEF Waiting
  <2>4. slips = 0
    BY <2>2, <2>3 DEF Undisturbed
  <2>5. Undisturbed /\ Exact(d)
    BY <1>1, <2>1, <2>4 DEF Undisturbed
  <2>6. processed < evmsg /\ evmsg <= sent
    <3>1. EventHolds = 1 /\ HostHolds \in Nat /\ Len(back) \in Nat /\ Len(out) \in Nat
      BY <2>1 DEF Pipeline, TypeOK, EventHolds, HostHolds
    <3> QED BY <3>1 DEF Pipeline, InOrder, InFlight
  <2>7. pc[d] # "sent"
    BY <2>1, CallersAssumption DEF MutexHeld
  <2>8. pc[d] \in {"woken", "read", "lock", "send"} => sent = processed
    BY <2>5, NothingInFlight
  <2>9. CASE pc[d] = "wait"
    <3>1. pc'[d] = "woken" /\ call[d] = evmsg /\ evmsg # 0
      BY <2>1, <2>5, <2>6, <2>9 DEF Waiting, Exact
    <3>2. written' = Answer(call[d])'
      BY <2>1, <3>1 DEF Answer
    <3>3. call'[d] = processed'
      BY <2>1, <2>6, <3>1
    <3> QED BY <3>1, <3>2, <3>3, <2>1, <2>6 DEF Exact, Answered
  <2>10. CASE pc[d] = "idle"
    <3>1. pc'[d] = "idle" /\ Answered(d)' = Answered(d)
      BY <2>1, <2>10 DEF Waiting, Answered
    <3>2. call[d] <= processed => call[d] <= processed'
      BY <2>1, <2>6
    <3> QED BY <2>1, <2>5, <3>1, <3>2 DEF Exact, Answer
  <2> QED BY <2>6, <2>7, <2>8, <2>9, <2>10 DEF Labels
<1>10. ASSUME NEW queues \in BOOLEAN, HostReceive(queues) PROVE Exact(d)'
  <2>1. /\ UNCHANGED <<pc, sync, call, ret, sent, processed, written, slips, overlap>>
        /\ stored' \subseteq stored \union {Head(out)} /\ stored \subseteq stored'
        /\ out # << >>
    BY <1>10 DEF HostReceive, callerVars, eventVars
  <2>2. Exact(d)
    BY <1>1, <2>1 DEF Undisturbed
  <2>3. Head(out) > processed
    <3>1. EventHolds \in Nat /\ HostHolds \in Nat /\ Len(back) \in Nat
          /\ out \in Seq(Nat)
      BY DEF Pipeline, TypeOK, EventHolds, HostHolds
    <3>2. 1 \in 1..Len(out) /\ Head(out) = out[1]
      BY <2>1, <3>1
    <3> QED BY <3>1, <3>2 DEF Pipeline, InOrder, Fresh
  <2>4. \A i \in Nat : i <= processed => (i \in stored' <=> i \in stored)
    BY <2>1, <2>3
  <2>5. call[d] <= processed => Answer(call[d])' = Answer(call[d])
    BY <2>1, <2>4 DEF Answer
  <2> QED BY <2>1, <2>2, <2>5 DEF Exact, Answered
<1>11. CASE Receive \/ CallbackReturns \/ EventThreadEnds \/ HostReply
            \/ HostReplyInterrupted \/ HostCloses \/ UNCHANGED vars
  <2>1. UNCHANGED <<pc, sync, call, ret, sent, processed, written, stored, slips, overlap>>
    BY <1>11 DEF Receive, CallbackReturns, EventThreadEnds, HostReply, HostReplyInterrupted, Replied, HostCloses,
                 vars, callerVars, eventVars, hostVars
  <2>2. Exact(d)
    BY <1>1, <2>1 DEF Undisturbed
  <2> QED BY <2>1, <2>2 DEF Exact, Answered, Answer
<1> QED
  BY <1>2, <1>3, <1>4, <1>5, <1>6, <1>7, <1>8, <1>9, <1>10, <1>11
     DEF Next, CallerStep, EventStep, HostStep, Quiescent

(* As long as no deadline, spurious wake-up, write without a wait or       *)
(* overlapping call has disturbed the handshake, a synchronous call        *)
(* returns exactly what the host answered to its own frame.                *)
THEOREM ExactWhenUndisturbed == Spec => []ExactUntilDisturbed
<1>1. Init => Alone /\ LateIsSlip /\ ExactInv /\ NoMissedNotify
  BY DEF Init, Alone, LateIsSlip, ExactInv, Exact, Answered, NoMissedNotify
<1>2. Pipeline /\ DriftBounded /\ NoMissedNotify /\ Alone /\ LateIsSlip /\ ExactInv
        /\ [Next]_vars
      => (Alone /\ LateIsSlip /\ ExactInv)'
  BY NextAlone, NextLateIsSlip, NextExactInv DEF Pipeline
<1>3. ExactInv => ExactUntilDisturbed
  BY DEF ExactInv, Exact, ExactUntilDisturbed
<1> QED
  BY <1>1, <1>2, <1>3, PipelineInvariant, DriftIsBounded, NotifyNeverMissed, PTL DEF Spec

-----------------------------------------------------------------------------
(* Calls that have begun and not sent their frame.                         *)
Unsent == {c \in Callers : pc[c] \in {"lock", "send"}}

(* Every frame belongs to a call, and no more calls begin than MaxCalls.   *)
FramesAreCalls == sent + Cardinality(Unsent) <= begun /\ begun <= MaxCalls

LEMMA UnsentFinite == IsFiniteSet(Unsent) /\ Cardinality(Unsent) \in Nat
<1>1. Unsent \subseteq Callers
  BY DEF Unsent
<1> QED BY <1>1, CallersAssumption, FS_Subset, FS_CardinalityType

LEMMA NextFramesAreCalls == TypeOK /\ FramesAreCalls /\ [Next]_vars => FramesAreCalls'
<1> SUFFICES ASSUME TypeOK, FramesAreCalls, [Next]_vars PROVE FramesAreCalls'
  OBVIOUS
<1>0. /\ pc \in [Callers -> Labels] /\ sent \in Nat /\ begun \in Nat /\ MaxCalls \in Nat
      /\ IsFiniteSet(Unsent) /\ Cardinality(Unsent) \in Nat
      /\ sent + Cardinality(Unsent) <= begun /\ begun <= MaxCalls
  BY UnsentFinite, BoundsAssumption DEF TypeOK, FramesAreCalls
<1> USE <1>0
<1>1. ASSUME NEW c \in Callers, NEW wait \in BOOLEAN, Begin(c, wait) PROVE FramesAreCalls'
  <2>1. pc[c] = "idle" /\ begun < MaxCalls /\ begun' = begun + 1 /\ sent' = sent
        /\ pc' = [pc EXCEPT ![c] = IF wait THEN "lock" ELSE "send"]
    BY <1>1 DEF Begin, Goto
  <2>2. Unsent' = Unsent \union {c} /\ c \notin Unsent
    BY <2>1 DEF Unsent
  <2>3. Cardinality(Unsent') = Cardinality(Unsent) + 1
    BY <2>2, FS_AddElement
  <2> QED BY <2>1, <2>3 DEF FramesAreCalls
<1>2. ASSUME NEW c \in Callers,
             \/ SendAndWait(c) \/ SendAndReturn(c) \/ SendFails(c) \/ SendInterrupted(c)
      PROVE  FramesAreCalls'
  <2>1. pc[c] = "send" /\ begun' = begun /\ (sent' = sent + 1 \/ sent' = sent)
        /\ \E l \in {"sent", "idle"} : pc' = [pc EXCEPT ![c] = l]
    BY <1>2 DEF SendAndWait, SendAndReturn, PutFrame, SendFails, SendInterrupted,
                GiveUp, Finish, Goto
  <2>2. Unsent' = Unsent \ {c} /\ c \in Unsent
    BY <2>1 DEF Unsent
  <2>3. Cardinality(Unsent') = Cardinality(Unsent) - 1
    BY <2>2, FS_RemoveElement
  <2> QED BY <2>1, <2>3 DEF FramesAreCalls
<1>3. ASSUME NEW c \in Callers,
             \/ Lock(c) \/ StartWait(c) \/ DeadlinePasses(c) \/ WakeSpuriously(c)
             \/ LeaveWait(c) \/ ReadResult(c)
      PROVE  FramesAreCalls'
  <2>1. /\ begun' = begun /\ sent' = sent
        /\ \/ pc[c] = "lock" /\ pc' = [pc EXCEPT ![c] = "send"]
           \/ /\ pc[c] \notin {"lock", "send"}
              /\ \E l \in {"wait", "woken", "read", "idle"} : pc' = [pc EXCEPT ![c] = l]
    BY <1>3 DEF Lock, StartWait, DeadlinePasses, WakeSpuriously, LeaveWait,
                ReadResult, Finish, Goto
  <2>2. \A d \in Callers : pc'[d] \in {"lock", "send"} <=> pc[d] \in {"lock", "send"}
    BY <2>1
  <2>3. Unsent' = Unsent
    BY <2>2 DEF Unsent
  <2> QED BY <2>1, <2>3 DEF FramesAreCalls
<1>4. CASE Publish
  <2>1. begun' = begun /\ sent' = sent
        /\ pc' = [c \in Callers |-> IF c \in Waiting THEN "woken" ELSE pc[c]]
    BY <1>4 DEF Publish
  <2>2. Unsent' = Unsent
    BY <2>1 DEF Unsent, Waiting
  <2> QED BY <2>1, <2>2 DEF FramesAreCalls
<1>5. CASE Receive \/ CallbackReturns \/ EventThreadEnds \/ HostStep \/ UNCHANGED vars
  <2>1. UNCHANGED <<pc, sent, begun>>
    BY <1>5 DEF Receive, CallbackReturns, EventThreadEnds, HostStep, HostReceive,
                HostReply, HostReplyInterrupted, Replied, HostCloses, vars, callerVars
  <2> QED BY <2>1 DEF FramesAreCalls, Unsent
<1> QED
  BY <1>1, <1>2, <1>3, <1>4, <1>5 DEF Next, CallerStep, EventStep, Quiescent

(* Both ends cannot wait for each other's buffers to drain while the calls *)
(* fit in the pipeline, however many threads make them.                    *)
THEOREM NoSendCycleInPipeline == Spec => []NoSendCycle
<1>1. ASSUME Init PROVE FramesAreCalls
  <2>1. Unsent = {}
    BY <1>1 DEF Init, Unsent
  <2>2. Cardinality(Unsent) = 0
    BY <2>1, FS_EmptySet
  <2> QED BY <1>1, <2>2, BoundsAssumption DEF Init, FramesAreCalls
<1>2. Pipeline /\ FramesAreCalls => NoSendCycle
  <2> SUFFICES ASSUME Pipeline, FramesAreCalls, SendCycle, MaxCalls <= OutCap + BackCap + 2
               PROVE  FALSE
    BY DEF NoSendCycle
  <2>1. sent >= OutCap + BackCap + 2
    <3>1. EventHolds = 1 /\ HostHolds = 1 /\ Len(out) = OutCap /\ Len(back) = BackCap
      BY DEF SendCycle, EventHolds, HostHolds
    <3>2. evmsg > processed /\ evmsg + BackCap + 1 + OutCap <= sent
      BY <3>1 DEF Pipeline, InOrder, InFlight
    <3> QED BY <3>2, BoundsAssumption DEF Pipeline, TypeOK
  <2>2. Cardinality(Unsent) >= 1
    <3>1. Unsent # {}
      BY DEF SendCycle, Unsent
    <3> QED BY <3>1, UnsentFinite, FS_EmptySet
  <2> QED BY <2>1, <2>2, UnsentFinite, BoundsAssumption DEF Pipeline, TypeOK, FramesAreCalls
<1>3. Pipeline /\ FramesAreCalls /\ [Next]_vars => FramesAreCalls'
  BY NextFramesAreCalls DEF Pipeline
<1> QED BY <1>1, <1>2, <1>3, PipelineInvariant, PTL DEF Spec
=============================================================================
