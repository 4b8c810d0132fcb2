---------------------------- MODULE FrameStream -----------------------------
(***************************************************************************)
(* One direction of a native audio socket, byte by byte: threads that put   *)
(* framed messages on the stream with writeProtoBufMessage and              *)
(* writeToSocket, the kernel's buffer, and the event thread that takes      *)
(* frames off it with processEvents.                                        *)
(*                                                                         *)
(* The k-th byte of frame f is <<f, k>>.  Its first Header bytes carry the  *)
(* size and the opcode, the others the protobuf message.                    *)
(***************************************************************************)
EXTENDS Integers, Sequences

CONSTANTS
  Writers,       \* threads that write to this end of the socket
  MaxFrames,     \* bound on the frames written in one behaviour
  Header,        \* bytes of a frame header (5 in the code)
  Length,        \* the size of each frame, header included
  WireCap,       \* bytes the kernel buffers
  MaxSignals,    \* bound on the signals that interrupt a send or a recv
  GarbageSizes,  \* sizes a header may decode to that is not one
  ReaderIsHost   \* SocketHost drops a client that sends a bad frame

Frames == 1..MaxFrames

ASSUME SizesAssumption ==
  /\ MaxFrames \in Nat /\ Header \in Nat \ {0} /\ WireCap \in Nat \ {0}
  /\ MaxSignals \in Nat
  /\ Length \in [Frames -> Nat]
  /\ \A f \in Frames : Length[f] > Header
  /\ GarbageSizes \subseteq Nat
  /\ ReaderIsHost \in BOOLEAN

VARIABLES
  pc,         \* "idle", "send" (inside writeToSocket)
  frame,      \* the frame a writer last started, 0 if none
  base,       \* offset of the data handed to its current send()
  gone,       \* bytes the current send() has moved
  left,       \* len_left when the current send() was called
  result,     \* what its last writeToSocket returned, "none" before that
  wire,       \* bytes in the kernel
  conn,       \* "up", or "down" once the writing end is closed
  reader,     \* "header", "body", or "stopped"
  got,        \* m_pBuffer up to total_len_read
  final,      \* final_size, once the header is decoded
  delivered,  \* frames handed to processMessage; 0 for bytes that are none
  nextFrame,  \* number of the next frame
  signals,    \* signals so far
  accepted,   \* history: frames whose writeToSocket returned true
  lastByte,   \* history: the last byte put on the stream
  torn,       \* history: a byte put on the stream did not continue it
  hits,       \* history: signals that hit each writer's current call
  doubled,    \* history: two signals have hit one call
  overlapped  \* history: two calls have been in progress at once

writerVars  == <<pc, frame, base, gone, left, result, nextFrame, hits>>
readerVars  == <<reader, got, final, delivered>>
historyVars == <<accepted, lastByte, torn, doubled, overlapped>>
vars == <<writerVars, wire, conn, readerVars, signals, historyVars>>

-----------------------------------------------------------------------------
Byte(f, k) == <<f, k>>
NoByte == Byte(0, 0)

(* Bytes from+1 to from+n of frame f.                                      *)
Bytes(f, from, n) == [k \in 1..n |-> Byte(f, from + k)]

WholeFrame(f) == Bytes(f, 0, Length[f])

(* b continues a stream of whole frames that ends with byte a.             *)
Continues(a, b) ==
  IF a = NoByte \/ a[2] = Length[a[1]] THEN b[2] = 1 ELSE b = Byte(a[1], a[2] + 1)

(* send() fails: the writing end is closed, or the host closed the other.  *)
(* A client whose event thread has ended keeps its socket open.            *)
Broken == conn = "down" \/ (reader = "stopped" /\ ReaderIsHost)

-----------------------------------------------------------------------------
Init ==
  /\ pc = [w \in Writers |-> "idle"]
  /\ frame = [w \in Writers |-> 0]
  /\ base = [w \in Writers |-> 0]
  /\ gone = [w \in Writers |-> 0]
  /\ left = [w \in Writers |-> 0]
  /\ result = [w \in Writers |-> "none"]
  /\ hits = [w \in Writers |-> 0]
  /\ nextFrame = 1 /\ signals = 0
  /\ wire = << >> /\ conn = "up"
  /\ reader = "header" /\ got = << >> /\ final = Header /\ delivered = << >>
  /\ accepted = << >> /\ lastByte = NoByte
  /\ torn = FALSE /\ doubled = FALSE /\ overlapped = FALSE

-----------------------------------------------------------------------------
(* writeToSocket                                                           *)

(* writeProtoBufMessage has built the frame and calls writeToSocket, which *)
(* hands all of it to send().  No lock keeps two threads from doing so at  *)
(* the same time.                                                          *)
Write(w) ==
  /\ pc[w] = "idle"
  /\ nextFrame <= MaxFrames
  /\ pc' = [pc EXCEPT ![w] = "send"]
  /\ frame' = [frame EXCEPT ![w] = nextFrame]
  /\ base' = [base EXCEPT ![w] = 0]
  /\ gone' = [gone EXCEPT ![w] = 0]
  /\ left' = [left EXCEPT ![w] = Length[nextFrame]]
  /\ hits' = [hits EXCEPT ![w] = 0]
  /\ nextFrame' = nextFrame + 1
  /\ overlapped' = (overlapped \/ \E v \in Writers \ {w} : pc[v] # "idle")
  /\ UNCHANGED <<result, wire, conn, readerVars, signals, accepted, lastByte, torn, doubled>>

Return(w, r) ==
  /\ pc' = [pc EXCEPT ![w] = "idle"]
  /\ result' = [result EXCEPT ![w] = r]

(* The kernel moves the next n bytes of the data it was handed.            *)
Move(w, n) ==
  /\ pc[w] = "send"
  /\ ~Broken
  /\ Len(wire) + n <= WireCap
  /\ LET bytes == Bytes(frame[w], base[w] + gone[w], n)
     IN  /\ wire' = wire \o bytes
         /\ lastByte' = bytes[n]
         /\ torn' = (torn \/ ~Continues(lastByte, bytes[1]))
  /\ gone' = [gone EXCEPT ![w] = @ + n]
  /\ UNCHANGED <<frame, base, left, nextFrame, hits, conn, readerVars, signals,
                 doubled, overlapped>>

MoveSome(w, n) ==
  /\ n < left[w] - gone[w]
  /\ Move(w, n)
  /\ UNCHANGED <<pc, result, accepted>>

(* send() returns len_left, the loop ends and writeToSocket returns true.  *)
MoveLast(w, n) ==
  /\ n = left[w] - gone[w]
  /\ Move(w, n)
  /\ Return(w, "true")
  /\ accepted' = Append(accepted, frame[w])

(* Mutant: the loop calls send() again with the whole of data.             *)
ShortSendRestarts(w) ==
  /\ pc[w] = "send"
  /\ gone[w] > 0
  /\ signals < MaxSignals
  /\ signals' = signals + 1
  /\ left' = [left EXCEPT ![w] = @ - gone[w]]
  /\ base' = [base EXCEPT ![w] = 0]
  /\ gone' = [gone EXCEPT ![w] = 0]
  /\ hits' = [hits EXCEPT ![w] = @ + 1]
  /\ doubled' = (doubled \/ hits[w] > 0)
  /\ UNCHANGED <<pc, frame, result, nextFrame, wire, conn, readerVars, accepted, lastByte,
                 torn, overlapped>>

(* A signal ends a send() that has moved bytes: it returns their number,   *)
(* and the loop calls it again with &data[len_written].                    *)
ShortSend(w) ==
  /\ pc[w] = "send"
  /\ gone[w] > 0
  /\ signals < MaxSignals
  /\ signals' = signals + 1
  /\ left' = [left EXCEPT ![w] = @ - gone[w]]
  /\ base' = [base EXCEPT ![w] = gone[w]]
  /\ gone' = [gone EXCEPT ![w] = 0]
  /\ hits' = [hits EXCEPT ![w] = @ + 1]
  /\ doubled' = (doubled \/ hits[w] > 0)
  /\ UNCHANGED <<pc, frame, result, nextFrame, wire, conn, readerVars, accepted, lastByte,
                 torn, overlapped>>

(* Mutant: EINTR is taken for the end of the loop: true is returned.       *)
InterruptedIsDone(w) ==
  /\ pc[w] = "send"
  /\ gone[w] = 0
  /\ signals < MaxSignals
  /\ signals' = signals + 1
  /\ hits' = [hits EXCEPT ![w] = @ + 1]
  /\ doubled' = (doubled \/ hits[w] > 0)
  /\ Return(w, "true")
  /\ accepted' = Append(accepted, frame[w])
  /\ UNCHANGED <<frame, base, gone, left, nextFrame, wire, conn, readerVars, lastByte,
                 torn, overlapped>>

(* A signal ends a send() that has not: EINTR, and writeToSocket returns   *)
(* false, whatever its earlier send()s have moved.                         *)
InterruptedSend(w) ==
  /\ pc[w] = "send"
  /\ gone[w] = 0
  /\ signals < MaxSignals
  /\ signals' = signals + 1
  /\ hits' = [hits EXCEPT ![w] = @ + 1]
  /\ doubled' = (doubled \/ hits[w] > 0)
  /\ Return(w, "false")
  /\ UNCHANGED <<frame, base, gone, left, nextFrame, wire, conn, readerVars, accepted,
                 lastByte, torn, overlapped>>

(* Mutant: EPIPE is retried, like EINTR, while this end is open.           *)
RetriesBrokenPipe(w) ==
  /\ pc[w] = "send"
  /\ conn = "down"
  /\ Return(w, "false")
  /\ UNCHANGED <<frame, base, gone, left, nextFrame, hits, wire, conn, readerVars, signals,
                 historyVars>>

(* EPIPE.                                                                  *)
FailedSend(w) ==
  /\ pc[w] = "send"
  /\ Broken
  /\ Return(w, "false")
  /\ UNCHANGED <<frame, base, gone, left, nextFrame, hits, wire, conn, readerVars, signals,
                 historyVars>>

(* The writing process dies, even inside a write, whose send() goes with   *)
(* it.  (A close() by another thread lets a send() in progress finish.)    *)
WriterCloses ==
  /\ conn = "up"
  /\ conn' = "down"
  /\ UNCHANGED <<writerVars, wire, readerVars, signals, historyVars>>

-----------------------------------------------------------------------------
(* processEvents                                                           *)

Target == IF reader = "header" THEN Header ELSE final

(* Mutant: the header is subtracted from the size it does not count in.    *)
HeaderSubtractedTwice(bytes) ==
  LET whole == {f \in Frames : bytes = Bytes(f, 0, Header)}
  IN  IF whole = {} THEN GarbageSizes ELSE {Length[f] - 2 * Header : f \in whole}

(* Mutant: the opcode byte is counted in the header and in the size.       *)
OpcodeCountedTwice(bytes) ==
  LET whole == {f \in Frames : bytes = Bytes(f, 0, Header)}
  IN  IF whole = {} THEN GarbageSizes ELSE {Length[f] + 1 : f \in whole}

(* The sizes the decoded header can give.                                  *)
FinalSizes(bytes) ==
  LET whole == {f \in Frames : bytes = Bytes(f, 0, Header)}
  IN  IF whole = {} THEN GarbageSizes ELSE {Length[f] : f \in whole}

(* The frame the bytes are, 0 if they are not exactly one.                 *)
Decoded(bytes) ==
  IF \E f \in Frames : bytes = WholeFrame(f)
  THEN CHOOSE f \in Frames : bytes = WholeFrame(f)
  ELSE 0

(* recv() returns n bytes, fewer than the loop still needs.                *)
Recv(n) ==
  /\ reader \in {"header", "body"}
  /\ n <= Len(wire)
  /\ Len(got) + n < Target
  /\ got' = got \o SubSeq(wire, 1, n)
  /\ wire' = SubSeq(wire, n + 1, Len(wire))
  /\ UNCHANGED <<writerVars, conn, reader, final, delivered, signals, historyVars>>

(* recv() completes the header: message_size is decoded.                   *)
RecvHeader ==
  LET n == Header - Len(got)
  IN  /\ reader = "header"
      /\ n <= Len(wire)
      /\ got' = got \o SubSeq(wire, 1, n)
      /\ wire' = SubSeq(wire, n + 1, Len(wire))
      /\ final' \in FinalSizes(got')
      /\ reader' = "body"
      /\ UNCHANGED <<writerVars, conn, delivered, signals, historyVars>>

(* recv() completes the message and processMessage handles it.  It fails   *)
(* for a size that leaves no message (handled apart) and may fail for      *)
(* bytes that are no frame, whose opcode is anything: the client goes on   *)
(* all the same, the host drops the connection.                            *)
RecvBody ==
  LET n     == final - Len(got)
      bytes == got \o SubSeq(wire, 1, n)
  IN  /\ reader = "body"
      /\ n > 0 /\ n <= Len(wire)
      /\ wire' = SubSeq(wire, n + 1, Len(wire))
      /\ delivered' = Append(delivered, Decoded(bytes))
      /\ got' = << >> /\ final' = Header
      /\ \/ reader' = "header"
         \/ Decoded(bytes) = 0 /\ ReaderIsHost /\ reader' = "stopped"
      /\ UNCHANGED <<writerVars, conn, signals, historyVars>>

(* message_size <= 0: there is no body, and processMessage returns -1.     *)
EmptyBody ==
  /\ reader = "body"
  /\ final <= Len(got)
  /\ got' = << >> /\ final' = Header
  /\ reader' = IF ReaderIsHost THEN "stopped" ELSE "header"
  /\ UNCHANGED <<writerVars, wire, conn, delivered, signals, historyVars>>

(* recv() returns 0, or is interrupted: processEvents returns -1.  The     *)
(* host closes the connection, the client's event thread ends.             *)
Stop ==
  /\ reader \in {"header", "body"}
  /\ reader' = "stopped"
  /\ got' = << >> /\ final' = Header
  /\ UNCHANGED <<writerVars, wire, conn, delivered, historyVars>>

EndOfStream == conn = "down" /\ wire = << >> /\ Stop /\ UNCHANGED signals

InterruptedRecv ==
  /\ wire = << >>
  /\ signals < MaxSignals
  /\ signals' = signals + 1
  /\ Stop

-----------------------------------------------------------------------------
(* Everything is over: nothing is being written and the reader has left.   *)
Over ==
  /\ \A w \in Writers : pc[w] = "idle"
  /\ nextFrame > MaxFrames
  /\ reader = "stopped"
  /\ UNCHANGED vars

WriterStep(w) ==
  \/ Write(w)
  \/ \E n \in 1..WireCap : MoveSome(w, n) \/ MoveLast(w, n)
  \/ ShortSend(w) \/ InterruptedSend(w) \/ FailedSend(w)

ReaderStep ==
  \/ \E n \in 1..WireCap : Recv(n)
  \/ RecvHeader \/ RecvBody \/ EmptyBody \/ EndOfStream \/ InterruptedRecv

Next == (\E w \in Writers : WriterStep(w)) \/ WriterCloses \/ ReaderStep \/ Over

Spec == Init /\ [][Next]_vars

(* The event thread keeps reading, and a send() the kernel has room for    *)
(* moves bytes.  Nothing forces a write, a signal or the end of a process. *)
Fairness ==
  /\ WF_vars(ReaderStep)
  /\ \A w \in Writers :
       WF_vars(\E n \in 1..WireCap : MoveSome(w, n) \/ MoveLast(w, n)) /\ WF_vars(FailedSend(w))

FairSpec == Spec /\ Fairness

-----------------------------------------------------------------------------
(* Type correctness of the writers, the kernel's buffer and the reader.    *)
TypeOK ==
  /\ pc \in [Writers -> {"idle", "send"}]
  /\ frame \in [Writers -> Nat]
  /\ base \in [Writers -> Nat] /\ gone \in [Writers -> Nat] /\ left \in [Writers -> Nat]
  /\ result \in [Writers -> {"none", "true", "false"}]
  /\ hits \in [Writers -> Nat]
  /\ nextFrame \in 1..(MaxFrames + 1) /\ signals \in Nat
  /\ wire \in Seq(Nat \X Nat) /\ Len(wire) <= WireCap
  /\ conn \in {"up", "down"}
  /\ reader \in {"header", "body", "stopped"}
  /\ got \in Seq(Nat \X Nat) /\ final \in Nat
  /\ delivered \in Seq(0..MaxFrames) /\ accepted \in Seq(Frames)
  /\ lastByte \in Nat \X Nat
  /\ torn \in BOOLEAN /\ doubled \in BOOLEAN /\ overlapped \in BOOLEAN

(* The messages come out whole, once and in order until the stream is torn. *)
Channel == INSTANCE MessageChannel WITH Messages <- Frames
ImplementsChannel == Channel!Spec

(* One signal per write never tears the stream, nor does a write that      *)
(* fails half-way because the connection ends: it takes two signals in the *)
(* sends of one frame, or two threads in writeToSocket at once.            *)
TearNeedsTwo == torn => doubled \/ overlapped

(* "Loop until all is sent" (writeToSocket): when it has returned true for *)
(* the newest frame, written on its own, that frame's last byte is the     *)
(* last one on the stream.                                                 *)
TrueMeansAllSent ==
  \A w \in Writers :
    /\ pc[w] = "idle" /\ result[w] = "true"
    /\ frame[w] = nextFrame - 1 /\ ~overlapped
    => lastByte = Byte(frame[w], Length[frame[w]])

(* A frame whose writeToSocket returned true reaches its callback, unless  *)
(* the stream is torn or the reader stops.                                 *)
AcceptedIsDelivered ==
  \A n \in Frames :
    Len(accepted) >= n ~> (Len(delivered) >= n \/ torn \/ reader = "stopped")

(* A write ends, except towards a client whose event thread has ended with *)
(* the socket still open: its buffer fills, and send() blocks for good.    *)
WriteReturns ==
  \A w \in Writers :
    pc[w] = "send" ~> (pc[w] = "idle" \/ (reader = "stopped" /\ ~ReaderIsHost))
=============================================================================
