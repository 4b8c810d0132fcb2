---------------------------- MODULE SocketCommon ----------------------------
(***************************************************************************)
(* The request/response handshake of the native audio socket:              *)
(* SocketCommon::writeAudioData on the plugin's threads, the AUDIO_RESPONSE *)
(* branch of SocketCommon::processMessage on the event thread of the        *)
(* plugin's SocketClient, and the main app at the other end of the socket.  *)
(*                                                                         *)
(* Frames are whole messages here.  An AUDIO_DATA frame is the number of    *)
(* the write that sent it, 1 for the first frame on the connection; an      *)
(* AUDIO_RESPONSE frame is the number of the write it answers.  The host    *)
(* queues all of the samples of a frame or none of them, so the value of    *)
(* m_iWrittenSamples is 0 or the (positive) count answered to one write,    *)
(* which the model names by the number of that write.                       *)
(***************************************************************************)
EXTENDS Integers, Sequences, FiniteSets

CONSTANTS
  Callers,      \* threads of the plugin that call writeAudioData
  EventThread,  \* the event thread: one of Callers iff callbacks write too
  NoOne,        \* the owner of a free mutex
  MaxCalls,     \* bound on the calls made in one behaviour
  OutCap,       \* frames the socket buffers hold towards the host
  BackCap       \* frames the socket buffers hold towards the plugin

ASSUME CallersAssumption == NoOne \notin Callers /\ IsFiniteSet(Callers)

ASSUME BoundsAssumption ==
  /\ MaxCalls \in Nat
  /\ OutCap \in Nat \ {0}
  /\ BackCap \in Nat \ {0}

VARIABLES
  pc,        \* where each caller is in writeAudioData
  sync,      \* its argument wait_for_response
  call,      \* the write its frame is, 0 until the frame is sent
  ret,       \* what its last finished call returned
  late,      \* whether its deadline (500 ms after the send) has passed
  mutex,     \* owner of m_WrittenMutex
  written,   \* m_iWrittenSamples
  evpc,      \* where the event thread is
  evmsg,     \* the response the event thread holds, 0 if none
  out,       \* AUDIO_DATA frames in the socket, plugin to host
  back,      \* AUDIO_RESPONSE frames in the socket, host to plugin
  host,      \* "recv", "reply" or "down"
  hostmsg,   \* the write the host is about to answer, 0 if none
  stored,    \* the writes whose samples the host queued
  begun,     \* calls made so far
  sent,      \* AUDIO_DATA frames sent so far
  processed, \* the last write whose response was published, 0 if none
  overlap,   \* history: a call began while another was in progress
  slips      \* history: wake-ups and sends that part a call from its reply

callerVars == <<pc, sync, call, ret, late>>
eventVars  == <<evpc, evmsg, processed>>
hostVars   == <<host, hostmsg, stored>>
vars == <<callerVars, mutex, written, eventVars, out, back, hostVars,
          begun, sent, overlap, slips>>

-----------------------------------------------------------------------------
(* Mutant: a host that refuses a write answers it -1.                      *)
RefusesWithMinusOne(i) == IF i \in stored THEN i ELSE -1

(* The number the host answers to write i: all of its samples, or none.    *)
Answer(i) == IF i \in stored THEN i ELSE 0

Waiting == {c \in Callers : pc[c] = "wait"}

Goto(c, l) == pc' = [pc EXCEPT ![c] = l]

Finish(c, v) ==
  /\ Goto(c, "idle")
  /\ ret' = [ret EXCEPT ![c] = v]

-----------------------------------------------------------------------------
Init ==
  /\ pc = [c \in Callers |-> "idle"]
  /\ sync = [c \in Callers |-> FALSE]
  /\ call = [c \in Callers |-> 0]
  /\ ret = [c \in Callers |-> 0]
  /\ late = [c \in Callers |-> FALSE]
  /\ mutex = NoOne
  /\ written = 0
  /\ evpc = "recv" /\ evmsg = 0
  /\ out = << >> /\ back = << >>
  /\ host = "recv" /\ hostmsg = 0 /\ stored = {}
  /\ begun = 0 /\ sent = 0 /\ processed = 0
  /\ overlap = FALSE /\ slips = 0

-----------------------------------------------------------------------------
(* writeAudioData                                                          *)

(* A thread enters writeAudioData.  The event thread can only do so from   *)
(* inside a callback.                                                      *)
Begin(c, wait) ==
  /\ pc[c] = "idle"
  /\ begun < MaxCalls
  /\ c = EventThread => evpc = "callback"
  /\ Goto(c, IF wait THEN "lock" ELSE "send")
  /\ sync' = [sync EXCEPT ![c] = wait]
  /\ call' = [call EXCEPT ![c] = 0]
  /\ ret' = [ret EXCEPT ![c] = 0]
  /\ begun' = begun + 1
  /\ overlap' = (overlap \/ \E d \in Callers \ {c} : pc[d] # "idle")
  /\ UNCHANGED <<late, mutex, written, eventVars, out, back, hostVars, sent, slips>>

(* Mutant: std::unique_lock lock(m_WrittenMutex, std::defer_lock).         *)
LockDeferred(c) ==
  /\ pc[c] = "lock"
  /\ Goto(c, "send")
  /\ UNCHANGED <<sync, call, ret, late, mutex, written, eventVars, out, back, hostVars,
                 begun, sent, overlap, slips>>

(* std::unique_lock<std::mutex> lock(m_WrittenMutex), before the send.     *)
Lock(c) ==
  /\ pc[c] = "lock"
  /\ mutex = NoOne
  /\ mutex' = c
  /\ Goto(c, "send")
  /\ UNCHANGED <<sync, call, ret, late, written, eventVars, out, back, hostVars,
                 begun, sent, overlap, slips>>

(* writeProtoBufMessage; its send() blocks while the socket is full.       *)
PutFrame(c) ==
  /\ pc[c] = "send"
  /\ host # "down"
  /\ Len(out) < OutCap
  /\ sent' = sent + 1
  /\ out' = Append(out, sent + 1)
  /\ call' = [call EXCEPT ![c] = sent + 1]
  /\ UNCHANGED <<sync, late, mutex, written, eventVars, back, hostVars, begun, overlap>>

(* A call that waits for its response blocks with the mutex held.          *)
SendAndWait(c) ==
  /\ sync[c]
  /\ PutFrame(c)
  /\ Goto(c, "sent")
  /\ UNCHANGED <<ret, slips>>

(* Without wait_for_response the call is over and returns len; the host    *)
(* answers its frame all the same.                                         *)
SendAndReturn(c) ==
  /\ ~sync[c]
  /\ PutFrame(c)
  /\ Finish(c, sent + 1)
  /\ slips' = slips + 1

(* Mutant: the error path forgets to give the mutex back.                  *)
GiveUpLocked(c) ==
  /\ Finish(c, -1)
  /\ UNCHANGED <<sync, call, late, mutex, written, eventVars, out, back, hostVars,
                 begun, sent, overlap, slips>>

(* writeProtoBufMessage returned false: the call gives the mutex back and  *)
(* returns -1.                                                             *)
GiveUp(c) ==
  /\ Finish(c, -1)
  /\ mutex' = IF sync[c] THEN NoOne ELSE mutex
  /\ UNCHANGED <<sync, call, late, written, eventVars, out, back, hostVars,
                 begun, sent, overlap, slips>>

SendFails(c) == pc[c] = "send" /\ host = "down" /\ GiveUp(c)

(* Mutant: "we can try again": a send that a signal cut short is repeated   *)
(* from the start, when its frame was already in the socket.               *)
SendAgain(c) == PutFrame(c) /\ UNCHANGED <<pc, ret, slips>>

(* A signal interrupts send() before it has moved a byte.                  *)
SendInterrupted(c) == pc[c] = "send" /\ host # "down" /\ GiveUp(c)

(* Mutant: wait_until with the predicate m_iWrittenSamples != 0, which the *)
(* reply to an earlier call may have left true.                            *)
StartWaitUnlessWritten(c) ==
  /\ pc[c] = "sent"
  /\ Goto(c, IF written # 0 THEN "read" ELSE "wait")
  /\ mutex' = NoOne
  /\ UNCHANGED <<sync, call, ret, late, written, eventVars, out, back, hostVars,
                 begun, sent, overlap, slips>>

(* wait_until queues the thread and releases the mutex in one step.        *)
StartWait(c) ==
  /\ pc[c] = "sent"
  /\ Goto(c, "wait")
  /\ mutex' = NoOne
  /\ UNCHANGED <<sync, call, ret, late, written, eventVars, out, back, hostVars,
                 begun, sent, overlap, slips>>

(* 500 ms have gone by since the send.  A thread that has been notified    *)
(* but has not got the mutex back yet is reported as timed out as well:    *)
(* wait_until compares the clock with the deadline once it has the mutex.  *)
DeadlinePasses(c) ==
  /\ pc[c] \in {"wait", "woken"}
  /\ ~late[c]
  /\ late' = [late EXCEPT ![c] = TRUE]
  /\ Goto(c, "woken")
  /\ slips' = slips + 1
  /\ UNCHANGED <<sync, call, ret, mutex, written, eventVars, out, back, hostVars,
                 begun, sent, overlap>>

(* wait_until has no predicate: a spurious wake-up ends the wait.          *)
WakeSpuriously(c) ==
  /\ pc[c] = "wait"
  /\ Goto(c, "woken")
  /\ slips' = slips + 1
  /\ UNCHANGED <<sync, call, ret, late, mutex, written, eventVars, out, back, hostVars,
                 begun, sent, overlap>>

(* Mutant: m_iWrittenSamples is zeroed whether or not the wait timed out.  *)
LeaveWaitZeroed(c) ==
  /\ pc[c] = "woken"
  /\ mutex = NoOne
  /\ written' = 0
  /\ late' = [late EXCEPT ![c] = FALSE]
  /\ Goto(c, "read")
  /\ UNCHANGED <<sync, call, ret, mutex, eventVars, out, back, hostVars,
                 begun, sent, overlap, slips>>

(* The thread gets the mutex back, zeroes m_iWrittenSamples if it timed    *)
(* out, and leaves the locked block.                                       *)
LeaveWait(c) ==
  /\ pc[c] = "woken"
  /\ mutex = NoOne
  /\ written' = IF late[c] THEN 0 ELSE written
  /\ late' = [late EXCEPT ![c] = FALSE]
  /\ Goto(c, "read")
  /\ UNCHANGED <<sync, call, ret, mutex, eventVars, out, back, hostVars,
                 begun, sent, overlap, slips>>

(* Mutant: return len, as the call that does not wait does.                *)
ReadLength(c) ==
  /\ pc[c] = "read"
  /\ Finish(c, call[c])
  /\ UNCHANGED <<sync, call, late, mutex, written, eventVars, out, back, hostVars,
                 begun, sent, overlap, slips>>

(* return m_iWrittenSamples, outside the locked block.                     *)
ReadResult(c) ==
  /\ pc[c] = "read"
  /\ Finish(c, written)
  /\ UNCHANGED <<sync, call, late, mutex, written, eventVars, out, back, hostVars,
                 begun, sent, overlap, slips>>

-----------------------------------------------------------------------------
(* The event thread: processEventsThread, processEvents, processMessage    *)

(* A whole AUDIO_RESPONSE frame is read and onAudioResponse is called.     *)
Receive ==
  /\ evpc = "recv"
  /\ back # << >>
  /\ evmsg' = Head(back)
  /\ back' = Tail(back)
  /\ evpc' = "callback"
  /\ UNCHANGED <<callerVars, mutex, written, processed, out, hostVars,
                 begun, sent, overlap, slips>>

(* onAudioResponse returns, once any write it made has returned.           *)
CallbackReturns ==
  /\ evpc = "callback"
  /\ EventThread \in Callers => pc[EventThread] = "idle"
  /\ evpc' = "store"
  /\ UNCHANGED <<callerVars, mutex, written, evmsg, processed, out, back, hostVars,
                 begun, sent, overlap, slips>>

(* Under m_WrittenMutex: m_iWrittenSamples = message.written() and         *)
(* notify_all.  Each thread woken beyond the first slips.                  *)
Publish ==
  /\ evpc = "store"
  /\ mutex = NoOne
  /\ written' = Answer(evmsg)
  /\ pc' = [c \in Callers |-> IF c \in Waiting THEN "woken" ELSE pc[c]]
  /\ slips' = slips + (IF Waiting = {} THEN 0 ELSE Cardinality(Waiting) - 1)
  /\ processed' = evmsg
  /\ evmsg' = 0
  /\ evpc' = "recv"
  /\ UNCHANGED <<sync, call, ret, late, mutex, out, back, hostVars, begun, sent, overlap>>

(* recv() reports the end of the stream or is interrupted by a signal:     *)
(* processEventsThread returns, in the second case with the socket open.   *)
EventThreadEnds ==
  /\ evpc = "recv"
  /\ back = << >>
  /\ evpc' = "done"
  /\ UNCHANGED <<callerVars, mutex, written, evmsg, processed, out, back, hostVars,
                 begun, sent, overlap, slips>>

-----------------------------------------------------------------------------
(* The host: the event thread of a SocketHost, whose onAudioData callback  *)
(* (the main app's) queues the samples or not and calls writeAudioResponse *)

HostReceive(queues) ==
  /\ host = "recv"
  /\ out # << >>
  /\ hostmsg' = Head(out)
  /\ out' = Tail(out)
  /\ stored' = IF queues THEN stored \union {Head(out)} ELSE stored
  /\ host' = "reply"
  /\ UNCHANGED <<callerVars, mutex, written, eventVars, back, begun, sent, overlap, slips>>

Replied ==
  /\ host = "reply"
  /\ hostmsg' = 0
  /\ host' = "recv"
  /\ UNCHANGED <<callerVars, mutex, written, eventVars, out, stored,
                 begun, sent, overlap, slips>>

HostReply == Replied /\ Len(back) < BackCap /\ back' = Append(back, hostmsg)

(* A signal interrupts the host's send(), and writeAudioResponse does not  *)
(* look at what it returned: the response is lost.                         *)
HostReplyInterrupted == Replied /\ back' = back

(* The app closes the connection or dies: what it has not read is gone,    *)
(* what it has written can still be read.                                  *)
HostCloses ==
  /\ host # "down"
  /\ host' = "down"
  /\ hostmsg' = 0
  /\ out' = << >>
  /\ UNCHANGED <<callerVars, mutex, written, eventVars, back, stored,
                 begun, sent, overlap, slips>>

-----------------------------------------------------------------------------
(* Every call has been made and has returned, and the connection is over.  *)
Quiescent ==
  /\ begun = MaxCalls
  /\ \A c \in Callers : pc[c] = "idle"
  /\ evpc = "done"
  /\ UNCHANGED vars

CallerStep(c) ==
  \/ \E wait \in BOOLEAN : Begin(c, wait)
  \/ Lock(c) \/ SendAndWait(c) \/ SendAndReturn(c)
  \/ SendFails(c) \/ SendInterrupted(c)
  \/ StartWait(c) \/ DeadlinePasses(c) \/ WakeSpuriously(c)
  \/ LeaveWait(c) \/ ReadResult(c)

EventStep == Receive \/ CallbackReturns \/ Publish \/ EventThreadEnds

HostStep ==
  \/ \E queues \in BOOLEAN : HostReceive(queues)
  \/ HostReply \/ HostReplyInterrupted \/ HostCloses

Next == (\E c \in Callers : CallerStep(c)) \/ EventStep \/ HostStep \/ Quiescent

Spec == Init /\ [][Next]_vars

(* Threads run and the clock advances: every step of a call already begun, *)
(* of the event thread and of the host's answer is taken if it stays       *)
(* enabled.  Nothing forces a new call, a signal, a spurious wake-up or    *)
(* the end of the host.                                                    *)
Fairness ==
  /\ \A c \in Callers :
       /\ WF_vars(Lock(c)) /\ WF_vars(SendFails(c))
       /\ WF_vars(SendAndWait(c)) /\ WF_vars(SendAndReturn(c))
       /\ WF_vars(StartWait(c)) /\ WF_vars(DeadlinePasses(c))
       /\ WF_vars(LeaveWait(c)) /\ WF_vars(ReadResult(c))
  /\ WF_vars(Receive) /\ WF_vars(CallbackReturns) /\ WF_vars(Publish)
  /\ WF_vars(\E queues \in BOOLEAN : HostReceive(queues)) /\ WF_vars(HostReply)

FairSpec == Spec /\ Fairness

-----------------------------------------------------------------------------
Labels == {"idle", "lock", "send", "sent", "wait", "woken", "read"}

(* Type correctness of every variable of the handshake.                    *)
TypeOK ==
  /\ pc \in [Callers -> Labels]
  /\ sync \in [Callers -> BOOLEAN]
  /\ call \in [Callers -> Nat]
  /\ ret \in [Callers -> Nat \union {-1}]
  /\ late \in [Callers -> BOOLEAN]
  /\ mutex \in Callers \union {NoOne}
  /\ written \in Nat
  /\ evpc \in {"recv", "callback", "store", "done"}
  /\ evmsg \in Nat
  /\ out \in Seq(Nat) /\ Len(out) <= OutCap
  /\ back \in Seq(Nat) /\ Len(back) <= BackCap
  /\ host \in {"recv", "reply", "down"}
  /\ hostmsg \in Nat
  /\ stored \in SUBSET Nat
  /\ begun \in Nat /\ sent \in Nat /\ processed \in Nat /\ slips \in Nat
  /\ overlap \in BOOLEAN

(* A finished call that waited for its response and whose frame was sent.  *)
Answered(c) == pc[c] = "idle" /\ sync[c] /\ call[c] # 0

(* No timeout, no spurious wake-up, no write without a wait, no notify that *)
(* woke several threads, and no two calls in progress at once, so far.      *)
Undisturbed == slips = 0 /\ ~overlap

(* "the method call will wait for the other end to reply the number of     *)
(* samples written, and that value will be returned" (SocketCommon.h): as  *)
(* long as nothing has disturbed the handshake, a synchronous call returns *)
(* exactly what the host answered to its own frame.                        *)
ExactUntilDisturbed ==
  \A c \in Callers : Undisturbed /\ Answered(c) => ret[c] = Answer(call[c])

(* "we lock the mutex first so that we don't miss the notify event"        *)
(* (writeAudioData): while a thread is on its way into the wait or is      *)
(* waiting, the response to its frame has not been published, however the  *)
(* calls of several threads, callbacks and timeouts interleave.            *)
NoMissedNotify ==
  \A c \in Callers : pc[c] \in {"sent", "wait"} => call[c] > processed

(* The calls whose response a notify_all has yet to announce to them.      *)
Pending == {c \in Callers : pc[c] \in {"sent", "wait"}}

(* How far the handshake can drift: the writes not answered yet, whose     *)
(* responses a later call may take for its own if they still come, never   *)
(* outnumber the calls that wait for one plus the slips so far.            *)
DriftBounded == sent - processed <= Cardinality(Pending) + slips

(* A positive count returned by a synchronous call was answered by the     *)
(* host to some write whose samples it did queue: never to a write it      *)
(* refused, and never a number of the plugin's own making.                 *)
PositiveWasQueued ==
  \A c \in Callers : ret[c] > 0 /\ sync[c] /\ pc[c] = "idle" => ret[c] \in stored

(* writeAudioData holds m_WrittenMutex in a send() the host must unblock,  *)
(* the host is in a send() the event thread must unblock, and the event    *)
(* thread waits for that mutex.                                            *)
SendCycle ==
  /\ \E c \in Callers : pc[c] = "send" /\ mutex = c
  /\ Len(out) = OutCap
  /\ host = "reply" /\ Len(back) = BackCap
  /\ evpc = "store"

(* The cycle cannot close while the calls fit in the pipeline: both socket *)
(* buffers, a frame in the host's hands and one in the event thread's.     *)
NoSendCycle == MaxCalls <= OutCap + BackCap + 2 => ~SendCycle

(* A signal has ended the event thread of a connection that is still open. *)
Deaf == evpc = "done" /\ host # "down"

(* "Wait max. about 500 milliseconds for a response": every call returns,  *)
(* as long as the responses are read.                                      *)
CallReturns == \A c \in Callers : pc[c] # "idle" ~> (pc[c] = "idle" \/ Deaf)
=============================================================================
