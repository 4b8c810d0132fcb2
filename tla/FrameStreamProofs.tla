------------------------- MODULE FrameStreamProofs --------------------------
(***************************************************************************)
(* Proofs about the byte stream of FrameStream, for every number of writing *)
(* threads, frames and signals and every size of frame, header and buffer.  *)
(***************************************************************************)
EXTENDS FrameStream, SequenceTheorems, TLAPS

-----------------------------------------------------------------------------
LEMMA BytesType ==
  ASSUME NEW f \in Nat, NEW from \in Nat, NEW n \in Nat
  PROVE  /\ Bytes(f, from, n) \in Seq(Nat \X Nat)
         /\ Len(Bytes(f, from, n)) = n
         /\ \A k \in 1..n : Bytes(f, from, n)[k] = <<f, from + k>>
BY DEF Bytes, Byte

(* A send() never moves more than it was handed, and it is never handed    *)
(* more than the frame.                                                    *)
Sending ==
  \A w \in Writers :
    pc[w] = "send" =>
      /\ frame[w] \in Frames
      /\ gone[w] < left[w]
      /\ base[w] + left[w] <= Length[frame[w]]

(* A header that is being read is not complete.                            *)
Reading == reader = "header" => Len(got) < Header

LEMMA DecodedType == ASSUME NEW bytes PROVE Decoded(bytes) \in 0..MaxFrames
BY SizesAssumption DEF Decoded, Frames

LEMMA MoveType ==
  ASSUME TypeOK, Sending, NEW w \in Writers, NEW n \in 1..WireCap, Move(w, n),
         n <= left[w] - gone[w]
  PROVE  /\ wire' \in Seq(Nat \X Nat) /\ Len(wire') <= WireCap
         /\ lastByte' = <<frame[w], base[w] + gone[w] + n>>
         /\ lastByte' \in Nat \X Nat
         /\ torn' = (torn \/ ~Continues(lastByte, <<frame[w], base[w] + gone[w] + 1>>))
         /\ torn' \in BOOLEAN
         /\ gone' = [gone EXCEPT ![w] = gone[w] + n]
         /\ gone' \in [Writers -> Nat]
<1> DEFINE from  == base[w] + gone[w]
           bytes == Bytes(frame[w], from, n)
<1>1. /\ frame[w] \in Nat /\ base[w] \in Nat /\ gone[w] \in Nat /\ n \in Nat /\ n >= 1
      /\ WireCap \in Nat /\ from \in Nat
  BY SizesAssumption DEF TypeOK
<1>2. /\ wire' = wire \o bytes /\ lastByte' = bytes[n]
      /\ torn' = (torn \/ ~Continues(lastByte, bytes[1]))
      /\ gone' = [gone EXCEPT ![w] = gone[w] + n]
      /\ Len(wire) + n <= WireCap
  BY DEF Move
<1> HIDE DEF from
<1>3. /\ bytes \in Seq(Nat \X Nat) /\ Len(bytes) = n
      /\ bytes[1] = <<frame[w], from + 1>> /\ bytes[n] = <<frame[w], from + n>>
  <2>1. 1 \in 1..n /\ n \in 1..n
    BY <1>1
  <2>2. /\ bytes \in Seq(Nat \X Nat) /\ Len(bytes) = n
        /\ \A k \in 1..n : bytes[k] = <<frame[w], from + k>>
    BY <1>1, BytesType
  <2> HIDE DEF bytes
  <2> QED BY <2>1, <2>2
<1> HIDE DEF bytes
<1>4. wire' \in Seq(Nat \X Nat) /\ Len(wire') = Len(wire) + n
  <2>1. wire \in Seq(Nat \X Nat)
    BY DEF TypeOK
  <2> QED BY <1>2, <1>3, <2>1, ConcatProperties
<1>5. gone' \in [Writers -> Nat]
  <2>1. gone \in [Writers -> Nat] /\ gone[w] + n \in Nat
    BY <1>1 DEF TypeOK
  <2> QED BY <1>2, <2>1
<1>6. torn' \in BOOLEAN
  BY <1>2 DEF TypeOK
<1>7. lastByte' \in Nat \X Nat
  BY <1>1, <1>2, <1>3
<1>8. torn' = (torn \/ ~Continues(lastByte, <<frame[w], from + 1>>))
  BY <1>2, <1>3
<1>9. lastByte' = <<frame[w], from + n>>
  BY <1>2, <1>3
<1> USE DEF from
<1> QED BY <1>1, <1>2, <1>4, <1>5, <1>6, <1>7, <1>8, <1>9

(* What recv() takes off the stream and what it leaves.                    *)
LEMMA TakeType ==
  ASSUME NEW s \in Seq(Nat \X Nat), NEW n \in 1..Len(s)
  PROVE  /\ SubSeq(s, 1, n) \in Seq(Nat \X Nat) /\ Len(SubSeq(s, 1, n)) = n
         /\ SubSeq(s, n + 1, Len(s)) \in Seq(Nat \X Nat)
         /\ Len(SubSeq(s, n + 1, Len(s))) = Len(s) - n
<1>1. Len(s) \in Nat /\ n \in Int /\ n + 1 \in Int /\ \A i \in 1..Len(s) : s[i] \in Nat \X Nat
  BY ElementOfSeq
<1>2. (\A i \in 1..n : s[i] \in Nat \X Nat) /\ \A i \in (n + 1)..Len(s) : s[i] \in Nat \X Nat
  BY <1>1
<1>3. SubSeq(s, 1, n) \in Seq(Nat \X Nat) /\ Len(SubSeq(s, 1, n)) = n
  BY <1>1, <1>2, SubSeqProperties
<1>4. /\ SubSeq(s, n + 1, Len(s)) \in Seq(Nat \X Nat)
      /\ Len(SubSeq(s, n + 1, Len(s)))
           = IF n + 1 <= Len(s) THEN Len(s) - (n + 1) + 1 ELSE 0
  BY <1>1, <1>2, SubSeqProperties
<1> QED BY <1>1, <1>3, <1>4

LEMMA InitTypeOK == Init => TypeOK /\ Sending /\ Reading
<1> SUFFICES ASSUME Init PROVE TypeOK /\ Sending /\ Reading
  OBVIOUS
<1>1. wire \in Seq(Nat \X Nat) /\ Len(wire) <= WireCap /\ got \in Seq(Nat \X Nat)
      /\ delivered \in Seq(0..MaxFrames) /\ accepted \in Seq(Frames)
  BY SizesAssumption DEF Init
<1>2. nextFrame \in 1..(MaxFrames + 1) /\ lastByte \in Nat \X Nat /\ final \in Nat
  BY SizesAssumption DEF Init, NoByte, Byte
<1>3. /\ pc \in [Writers -> {"idle", "send"}]
      /\ frame \in [Writers -> Nat] /\ base \in [Writers -> Nat] /\ gone \in [Writers -> Nat]
      /\ left \in [Writers -> Nat] /\ hits \in [Writers -> Nat]
      /\ result \in [Writers -> {"none", "true", "false"}]
  BY DEF Init
<1>4. Sending /\ Reading
  BY SizesAssumption DEF Init, Sending, Reading
<1> QED BY <1>1, <1>2, <1>3, <1>4 DEF Init, TypeOK

LEMMA NextReading == TypeOK /\ Reading /\ [Next]_vars => Reading'
<1> SUFFICES ASSUME TypeOK, Reading, [Next]_vars PROVE Reading'
  OBVIOUS
<1>1. ASSUME NEW w \in Writers, WriterStep(w) PROVE Reading'
  BY <1>1 DEF WriterStep, Write, MoveSome, MoveLast, Move, ShortSend, InterruptedSend,
              FailedSend, readerVars, Reading
<1>2. ASSUME NEW n \in 1..WireCap, Recv(n) PROVE Reading'
  <2>1. n \in 1..Len(wire) /\ wire \in Seq(Nat \X Nat) /\ got \in Seq(Nat \X Nat)
    BY <1>2, SizesAssumption DEF Recv, TypeOK
  <2>2. Len(got') = Len(got) + n
    BY <1>2, <2>1, TakeType, ConcatProperties DEF Recv
  <2> QED BY <1>2, <2>2 DEF Recv, Target, Reading
<1>3. CASE RecvHeader
  BY <1>3 DEF RecvHeader, Reading
<1>4. CASE RecvBody \/ EmptyBody \/ EndOfStream \/ InterruptedRecv
  BY <1>4, SizesAssumption DEF RecvBody, EmptyBody, EndOfStream, InterruptedRecv, Stop, Reading
<1>5. CASE WriterCloses \/ UNCHANGED vars
  BY <1>5 DEF WriterCloses, vars, readerVars, Reading
<1> QED BY <1>1, <1>2, <1>3, <1>4, <1>5 DEF Next, ReaderStep, Over

LEMMA NextTypeOK == TypeOK /\ Sending /\ Reading /\ [Next]_vars => TypeOK' /\ Sending'
<1> SUFFICES ASSUME TypeOK, Sending, Reading, [Next]_vars PROVE TypeOK' /\ Sending'
  OBVIOUS
<1>0. /\ pc \in [Writers -> {"idle", "send"}] /\ frame \in [Writers -> Nat]
      /\ base \in [Writers -> Nat] /\ gone \in [Writers -> Nat] /\ left \in [Writers -> Nat]
      /\ hits \in [Writers -> Nat] /\ result \in [Writers -> {"none", "true", "false"}]
      /\ signals \in Nat
  BY DEF TypeOK
<1>1. ASSUME NEW w \in Writers, Write(w) PROVE TypeOK' /\ Sending'
  <2>1. /\ nextFrame \in Frames /\ Length[nextFrame] \in Nat /\ Length[nextFrame] > 0
        /\ nextFrame' \in 1..(MaxFrames + 1)
    BY <1>1, SizesAssumption DEF TypeOK, Write, Frames
  <2>2. /\ pc' = [pc EXCEPT ![w] = "send"] /\ frame' = [frame EXCEPT ![w] = nextFrame]
        /\ base' = [base EXCEPT ![w] = 0] /\ gone' = [gone EXCEPT ![w] = 0]
        /\ left' = [left EXCEPT ![w] = Length[nextFrame]] /\ hits' = [hits EXCEPT ![w] = 0]
        /\ overlapped' \in BOOLEAN
        /\ UNCHANGED <<result, wire, conn, reader, got, final, delivered, signals,
                       accepted, lastByte, torn, doubled>>
    BY <1>1 DEF Write, readerVars, TypeOK
  <2>3. Sending'
    <3> SUFFICES ASSUME NEW v \in Writers, pc'[v] = "send"
                 PROVE  /\ frame'[v] \in Frames /\ gone'[v] < left'[v]
                        /\ base'[v] + left'[v] <= Length[frame'[v]]
      BY DEF Sending
    <3>1. CASE v = w
      BY <1>0, <2>1, <2>2, <3>1
    <3>2. CASE v # w
      BY <1>0, <2>2, <3>2 DEF Sending
    <3> QED BY <3>1, <3>2
  <2>4. /\ pc' \in [Writers -> {"idle", "send"}] /\ frame' \in [Writers -> Nat]
        /\ base' \in [Writers -> Nat] /\ gone' \in [Writers -> Nat]
        /\ left' \in [Writers -> Nat] /\ hits' \in [Writers -> Nat]
    <3>1. nextFrame \in Nat
      BY <2>1 DEF Frames
    <3> QED BY <1>0, <2>1, <2>2, <3>1
  <2> QED BY <2>1, <2>2, <2>3, <2>4 DEF TypeOK
<1>2. ASSUME NEW w \in Writers, NEW n \in 1..WireCap, MoveSome(w, n)
      PROVE  TypeOK' /\ Sending'
  <2>1. /\ Move(w, n) /\ n < left[w] - gone[w] /\ pc[w] = "send"
        /\ UNCHANGED <<pc, result, accepted, frame, base, left, nextFrame, hits, conn,
                       reader, got, final, delivered, signals, doubled, overlapped>>
    BY <1>2 DEF MoveSome, Move, readerVars
  <2>2. n \in Nat /\ left[w] \in Nat /\ gone[w] \in Nat /\ n <= left[w] - gone[w]
    BY <2>1, SizesAssumption DEF TypeOK
  <2>3. /\ wire' \in Seq(Nat \X Nat) /\ Len(wire') <= WireCap
        /\ lastByte' \in Nat \X Nat /\ torn' \in BOOLEAN
        /\ gone' = [gone EXCEPT ![w] = gone[w] + n] /\ gone' \in [Writers -> Nat]
    BY <2>1, <2>2, MoveType
  <2>4. Sending'
    BY <1>0, <2>1, <2>2, <2>3 DEF Sending
  <2> QED BY <2>1, <2>3, <2>4 DEF TypeOK
<1>3. ASSUME NEW w \in Writers, NEW n \in 1..WireCap, MoveLast(w, n)
      PROVE  TypeOK' /\ Sending'
  <2>1. /\ Move(w, n) /\ n = left[w] - gone[w] /\ pc[w] = "send"
        /\ pc' = [pc EXCEPT ![w] = "idle"] /\ result' = [result EXCEPT ![w] = "true"]
        /\ accepted' = Append(accepted, frame[w])
        /\ UNCHANGED <<frame, base, left, nextFrame, hits, conn,
                       reader, got, final, delivered, signals, doubled, overlapped>>
    BY <1>3 DEF MoveLast, Return, Move, readerVars
  <2>2. n <= left[w] - gone[w]
    BY <2>1, SizesAssumption DEF TypeOK
  <2>3. /\ wire' \in Seq(Nat \X Nat) /\ Len(wire') <= WireCap
        /\ lastByte' \in Nat \X Nat /\ torn' \in BOOLEAN
        /\ gone' = [gone EXCEPT ![w] = gone[w] + n] /\ gone' \in [Writers -> Nat]
    BY <2>1, <2>2, MoveType
  <2>4. accepted' \in Seq(Frames)
    <3>1. frame[w] \in Frames /\ accepted \in Seq(Frames)
      BY <2>1 DEF Sending, TypeOK
    <3> QED BY <2>1, <3>1, AppendProperties
  <2>5. /\ pc' \in [Writers -> {"idle", "send"}]
        /\ result' \in [Writers -> {"none", "true", "false"}]
    BY <2>1 DEF TypeOK
  <2>6. Sending'
    BY <1>0, <2>1, <2>3 DEF Sending
  <2> QED BY <2>1, <2>3, <2>4, <2>5, <2>6 DEF TypeOK
<1>4. ASSUME NEW w \in Writers, ShortSend(w) PROVE TypeOK' /\ Sending'
  <2>1. /\ pc[w] = "send" /\ gone[w] > 0 /\ left' = [left EXCEPT ![w] = left[w] - gone[w]]
        /\ base' = [base EXCEPT ![w] = gone[w]] /\ gone' = [gone EXCEPT ![w] = 0]
        /\ hits' = [hits EXCEPT ![w] = hits[w] + 1] /\ signals' = signals + 1
        /\ doubled' \in BOOLEAN
        /\ UNCHANGED <<pc, frame, result, nextFrame, wire, conn, reader, got, final,
                       delivered, accepted, lastByte, torn, overlapped>>
    BY <1>4 DEF ShortSend, readerVars, TypeOK
  <2>2. /\ gone[w] < left[w] /\ base[w] + left[w] <= Length[frame[w]] /\ frame[w] \in Frames
        /\ left[w] \in Nat /\ gone[w] \in Nat /\ base[w] \in Nat /\ Length[frame[w]] \in Nat
    BY <2>1, SizesAssumption DEF Sending, TypeOK
  <2>3. /\ left' \in [Writers -> Nat] /\ base' \in [Writers -> Nat]
        /\ gone' \in [Writers -> Nat] /\ hits' \in [Writers -> Nat]
    <3>1. left[w] - gone[w] \in Nat
      BY <2>2
    <3> QED BY <1>0, <2>1, <2>2, <3>1
  <2>4. Sending'
    <3> SUFFICES ASSUME NEW v \in Writers, pc'[v] = "send"
                 PROVE  /\ frame'[v] \in Frames /\ gone'[v] < left'[v]
                        /\ base'[v] + left'[v] <= Length[frame'[v]]
      BY DEF Sending
    <3>1. CASE v = w
      BY <1>0, <2>1, <2>2, <3>1
    <3>2. CASE v # w
      BY <1>0, <2>1, <3>2 DEF Sending
    <3> QED BY <3>1, <3>2
  <2>5. signals' \in Nat
    BY <1>0, <2>1
  <2> QED BY <2>1, <2>3, <2>4, <2>5 DEF TypeOK
<1>5. ASSUME NEW w \in Writers, InterruptedSend(w) \/ FailedSend(w) PROVE TypeOK' /\ Sending'
  <2>1. /\ pc' = [pc EXCEPT ![w] = "idle"] /\ result' = [result EXCEPT ![w] = "false"]
        /\ hits' = hits \/ hits' = [hits EXCEPT ![w] = hits[w] + 1]
        /\ signals' = signals \/ signals' = signals + 1
        /\ doubled' \in BOOLEAN
        /\ UNCHANGED <<frame, base, gone, left, nextFrame, wire, conn, reader, got, final,
                       delivered, accepted, lastByte, torn, overlapped>>
    BY <1>5 DEF InterruptedSend, FailedSend, Return, readerVars, historyVars, TypeOK
  <2>2. /\ pc' \in [Writers -> {"idle", "send"}]
        /\ result' \in [Writers -> {"none", "true", "false"}]
        /\ hits' \in [Writers -> Nat] /\ signals' \in Nat
    BY <1>0, <2>1
  <2>3. Sending'
    BY <1>0, <2>1 DEF Sending
  <2> QED BY <2>1, <2>2, <2>3 DEF TypeOK
<1>6. CASE WriterCloses
  BY <1>6 DEF WriterCloses, TypeOK, Sending, writerVars, readerVars, historyVars
<1>7. ASSUME UNCHANGED <<writerVars, conn, historyVars>>, TypeOK'
      PROVE  TypeOK' /\ Sending'
  BY <1>7 DEF Sending, writerVars
<1>8. ASSUME NEW n \in 1..Len(wire)
      PROVE  /\ SubSeq(wire, n + 1, Len(wire)) \in Seq(Nat \X Nat)
             /\ Len(SubSeq(wire, n + 1, Len(wire))) <= WireCap
             /\ got \o SubSeq(wire, 1, n) \in Seq(Nat \X Nat)
  <2>1. wire \in Seq(Nat \X Nat) /\ got \in Seq(Nat \X Nat) /\ Len(wire) <= WireCap
        /\ Len(wire) \in Nat /\ WireCap \in Nat
    BY SizesAssumption DEF TypeOK
  <2>2. /\ SubSeq(wire, 1, n) \in Seq(Nat \X Nat)
        /\ SubSeq(wire, n + 1, Len(wire)) \in Seq(Nat \X Nat)
        /\ Len(SubSeq(wire, n + 1, Len(wire))) = Len(wire) - n
    BY <2>1, TakeType
  <2> QED BY <2>1, <2>2, ConcatProperties
<1>9. ASSUME NEW n \in 1..WireCap, Recv(n) PROVE TypeOK' /\ Sending'
  <2>1. n \in 1..Len(wire)
    BY <1>9, SizesAssumption DEF Recv, TypeOK
  <2>2. wire' \in Seq(Nat \X Nat) /\ Len(wire') <= WireCap /\ got' \in Seq(Nat \X Nat)
    BY <1>8, <1>9, <2>1 DEF Recv
  <2>3. UNCHANGED <<writerVars, conn, historyVars, reader, final, delivered, signals>>
    BY <1>9 DEF Recv
  <2>4. TypeOK'
    BY <2>2, <2>3 DEF TypeOK, writerVars, historyVars
  <2> QED BY <1>7, <2>3, <2>4
<1>10. CASE RecvHeader
  <2> DEFINE n == Header - Len(got)
  <2>1. /\ n <= Len(wire) /\ got' = got \o SubSeq(wire, 1, n)
        /\ wire' = SubSeq(wire, n + 1, Len(wire)) /\ final' \in FinalSizes(got')
        /\ reader' = "body" /\ UNCHANGED <<writerVars, conn, historyVars, delivered, signals>>
        /\ reader = "header"
    BY <1>10 DEF RecvHeader
  <2>2. n \in 1..Len(wire)
    BY <2>1, SizesAssumption DEF Reading, TypeOK
  <2> HIDE DEF n
  <2>3. wire' \in Seq(Nat \X Nat) /\ Len(wire') <= WireCap /\ got' \in Seq(Nat \X Nat)
    BY <1>8, <2>1, <2>2
  <2>4. final' \in Nat
    BY <2>1, SizesAssumption DEF FinalSizes
  <2>5. TypeOK'
    BY <2>1, <2>3, <2>4 DEF TypeOK, writerVars, historyVars
  <2> QED BY <1>7, <2>1, <2>5
<1>11. CASE RecvBody
  <2> DEFINE n == final - Len(got)
             bytes == got \o SubSeq(wire, 1, n)
  <2>1. /\ n > 0 /\ n <= Len(wire) /\ wire' = SubSeq(wire, n + 1, Len(wire))
        /\ delivered' = Append(delivered, Decoded(bytes)) /\ got' = << >> /\ final' = Header
        /\ reader' \in {"header", "stopped"}
        /\ UNCHANGED <<writerVars, conn, signals, historyVars>>
    BY <1>11 DEF RecvBody
  <2>2. n \in 1..Len(wire)
    BY <2>1 DEF TypeOK
  <2>3. delivered' \in Seq(0..MaxFrames)
    BY <2>1, DecodedType, AppendProperties DEF TypeOK
  <2> HIDE DEF n, bytes
  <2>4. wire' \in Seq(Nat \X Nat) /\ Len(wire') <= WireCap
    BY <1>8, <2>1, <2>2
  <2>5. got' \in Seq(Nat \X Nat) /\ final' \in Nat
    BY <2>1, SizesAssumption
  <2>6. TypeOK'
    BY <2>1, <2>3, <2>4, <2>5 DEF TypeOK, writerVars, historyVars
  <2> QED BY <1>7, <2>1, <2>6
<1>12. CASE EmptyBody \/ EndOfStream \/ InterruptedRecv
  <2>1. /\ got' = << >> /\ final' = Header /\ reader' \in {"header", "stopped"}
        /\ signals' = signals \/ signals' = signals + 1
        /\ UNCHANGED <<writerVars, wire, conn, delivered, historyVars>>
    BY <1>12 DEF EmptyBody, EndOfStream, InterruptedRecv, Stop
  <2>2. got' \in Seq(Nat \X Nat) /\ final' \in Nat /\ signals' \in Nat
    BY <2>1, SizesAssumption DEF TypeOK
  <2>3. TypeOK'
    BY <2>1, <2>2 DEF TypeOK, writerVars, historyVars
  <2> QED BY <1>7, <2>1, <2>3
<1>13. CASE UNCHANGED vars
  BY <1>13 DEF vars, writerVars, readerVars, historyVars, TypeOK, Sending
<1> QED
  BY <1>1, <1>2, <1>3, <1>4, <1>5, <1>6, <1>9, <1>10, <1>11, <1>12, <1>13
     DEF Next, WriterStep, ReaderStep, Over

Typed == TypeOK /\ Sending /\ Reading

LEMMA TypedInvariant == Spec => []Typed
<1>1. Init => Typed
  BY InitTypeOK DEF Typed
<1>2. Typed /\ [Next]_vars => Typed'
  BY NextTypeOK, NextReading DEF Typed
<1> QED BY <1>1, <1>2, PTL DEF Spec

(* Every variable of the stream keeps its type and the kernel's buffer its *)
(* capacity.                                                               *)
THEOREM TypeCorrect == Spec => []TypeOK
<1>1. Typed => TypeOK
  BY DEF Typed
<1> QED BY <1>1, TypedInvariant, PTL

-----------------------------------------------------------------------------
(* Why a stream stays whole: as long as no two calls have overlapped and    *)
(* no call has been hit twice, the data of the one send() in progress goes  *)
(* to the end of its frame, and what is on the stream ends where it begins. *)
(* Byte b is the last of its frame, or there is none.                      *)
Ended(b) == b = NoByte \/ b[2] = Length[b[1]]

OneAtATime ==
  \A v, w \in Writers : v # w /\ pc[v] = "send" /\ pc[w] = "send" => overlapped

HitOnce ==
  ~doubled => \A w \in Writers : pc[w] = "send" =>
    /\ base[w] + left[w] = Length[frame[w]]
    /\ hits[w] \in {0, 1} /\ (hits[w] = 0 => base[w] = 0)

Continuous ==
  ~overlapped /\ ~doubled /\ ~Broken =>
    /\ (\A w \in Writers : pc[w] = "idle") => Ended(lastByte)
    /\ \A w \in Writers : pc[w] = "send" =>
         IF base[w] + gone[w] = 0 THEN Ended(lastByte)
                                  ELSE lastByte = <<frame[w], base[w] + gone[w]>>

TearInv == Typed /\ OneAtATime /\ HitOnce /\ Continuous /\ TearNeedsTwo

LEMMA InitTear == Init => TearInv
<1> SUFFICES ASSUME Init PROVE TearInv
  OBVIOUS
<1>1. Typed
  BY InitTypeOK DEF Typed
<1>2. \A w \in Writers : pc[w] = "idle"
  BY Zenon DEF Init
<1> QED BY <1>1, <1>2 DEF Init, TearInv, OneAtATime, HitOnce, Continuous, TearNeedsTwo, Ended

(* Where a send() of w puts its bytes.                                     *)
LEMMA MoveContinues ==
  ASSUME TearInv, NEW w \in Writers, NEW n \in 1..WireCap, Move(w, n), n <= left[w] - gone[w],
         ~overlapped, ~doubled
  PROVE  /\ ~torn' /\ ~Broken
         /\ lastByte' = <<frame[w], base[w] + gone[w] + n>>
         /\ base[w] + gone[w] + n <= Length[frame[w]]
         /\ base[w] + left[w] = Length[frame[w]]
         /\ \A v \in Writers : v # w => pc[v] = "idle"
<1>1. ~torn
  BY Zenon DEF TearInv, TearNeedsTwo
<1>2. TypeOK /\ Sending /\ pc[w] = "send" /\ ~Broken
  BY DEF TearInv, Typed, Move
<1>0. /\ TypeOK /\ Sending /\ pc[w] = "send" /\ ~Broken /\ ~torn
      /\ base[w] \in Nat /\ gone[w] \in Nat /\ left[w] \in Nat
      /\ frame[w] \in Frames /\ gone[w] < left[w] /\ Length[frame[w]] \in Nat /\ n \in Nat
      /\ pc \in [Writers -> {"idle", "send"}]
  <2>1. base[w] \in Nat /\ gone[w] \in Nat /\ left[w] \in Nat /\ n \in Nat
    BY <1>2, SizesAssumption DEF TypeOK
  <2>2. frame[w] \in Frames /\ gone[w] < left[w]
    BY <1>2 DEF Sending
  <2>3. Length[frame[w]] \in Nat
    BY <2>2, SizesAssumption
  <2>4. pc \in [Writers -> {"idle", "send"}]
    BY <1>2 DEF TypeOK
  <2> QED BY <1>1, <1>2, <2>1, <2>2, <2>3, <2>4
<1>3. /\ lastByte' = <<frame[w], base[w] + gone[w] + n>>
      /\ torn' = (torn \/ ~Continues(lastByte, <<frame[w], base[w] + gone[w] + 1>>))
  BY <1>0, MoveType
<1>4. base[w] + left[w] = Length[frame[w]]
  BY <1>0 DEF TearInv, HitOnce
<1>5. \A v \in Writers : v # w => pc[v] = "idle"
  BY <1>0 DEF TearInv, OneAtATime
<1>6. Continues(lastByte, <<frame[w], base[w] + gone[w] + 1>>)
  <2>1. CASE base[w] + gone[w] = 0
    BY <1>0, <2>1 DEF TearInv, Continuous, Ended, Continues
  <2>2. CASE base[w] + gone[w] # 0
    <3>1. lastByte = <<frame[w], base[w] + gone[w]>>
      BY <1>0, <2>2 DEF TearInv, Continuous
    <3>2. base[w] + gone[w] # Length[frame[w]]
      BY <1>0, <1>4
    <3>3. lastByte # NoByte
      BY <1>0, <2>2, <3>1 DEF NoByte, Byte
    <3>4. lastByte[1] = frame[w] /\ lastByte[2] = base[w] + gone[w]
      BY <3>1
    <3> QED BY <3>2, <3>3, <3>4 DEF Continues, Byte
  <2> QED BY <2>1, <2>2
<1>7. ~torn'
  BY <1>0, <1>3, <1>6, Zenon
<1>8. base[w] + gone[w] + n <= Length[frame[w]]
  BY <1>0, <1>4
<1> QED BY <1>0, <1>3, <1>4, <1>5, <1>7, <1>8

LEMMA NextTear == TearInv /\ [Next]_vars => TearInv'
<1> SUFFICES ASSUME TearInv, [Next]_vars PROVE TearInv'
  OBVIOUS
<1> DEFINE Rest == OneAtATime /\ HitOnce /\ Continuous /\ TearNeedsTwo
<1>0. /\ Typed' /\ TypeOK /\ Sending /\ Rest
      /\ pc \in [Writers -> {"idle", "send"}] /\ frame \in [Writers -> Nat]
      /\ base \in [Writers -> Nat] /\ gone \in [Writers -> Nat]
      /\ left \in [Writers -> Nat] /\ hits \in [Writers -> Nat]
      /\ torn \in BOOLEAN /\ doubled \in BOOLEAN /\ overlapped \in BOOLEAN
      /\ \A f \in Frames : Length[f] \in Nat
  BY NextTypeOK, NextReading, SizesAssumption DEF TearInv, Typed, TypeOK
<1> SUFFICES Rest'
  BY <1>0 DEF TearInv
<1>1. ASSUME NEW w \in Writers, Write(w) PROVE Rest'
  <2>1. /\ pc[w] = "idle" /\ pc' = [pc EXCEPT ![w] = "send"]
        /\ frame' = [frame EXCEPT ![w] = nextFrame] /\ base' = [base EXCEPT ![w] = 0]
        /\ gone' = [gone EXCEPT ![w] = 0] /\ left' = [left EXCEPT ![w] = Length[nextFrame]]
        /\ hits' = [hits EXCEPT ![w] = 0]
        /\ overlapped' = (overlapped \/ \E v \in Writers \ {w} : pc[v] # "idle")
        /\ UNCHANGED <<conn, reader, lastByte, torn, doubled>>
        /\ nextFrame \in Frames
    BY <1>0, <1>1, SizesAssumption DEF Write, readerVars, TypeOK, Frames
  <2>2. OneAtATime'
    BY <1>0, <2>1 DEF OneAtATime
  <2>3. HitOnce'
    <3> SUFFICES ASSUME ~doubled, NEW v \in Writers, pc'[v] = "send"
                 PROVE  /\ base'[v] + left'[v] = Length[frame'[v]]
                        /\ hits'[v] \in {0, 1} /\ (hits'[v] = 0 => base'[v] = 0)
      BY <2>1 DEF HitOnce
    <3>1. CASE v = w
      BY <1>0, <2>1, <3>1
    <3>2. CASE v # w
      BY <1>0, <2>1, <3>2 DEF HitOnce
    <3> QED BY <3>1, <3>2
  <2>4. Continuous'
    <3> SUFFICES ASSUME ~overlapped', ~doubled, ~Broken
                 PROVE  /\ pc'[w] = "send" /\ Ended(lastByte) /\ base'[w] + gone'[w] = 0
                        /\ \A v \in Writers : v # w => pc'[v] = "idle"
      BY <2>1 DEF Continuous, Ended, Broken
    <3>1. ~overlapped /\ \A v \in Writers : v # w => pc[v] = "idle"
      BY <2>1
    <3>2. Ended(lastByte)
      BY <1>0, <2>1, <3>1 DEF Continuous
    <3> QED BY <1>0, <2>1, <3>1, <3>2
  <2>5. TearNeedsTwo'
    BY <1>0, <2>1 DEF TearNeedsTwo
  <2> QED BY <2>2, <2>3, <2>4, <2>5
<1>2. ASSUME NEW w \in Writers, NEW n \in 1..WireCap, MoveSome(w, n) PROVE Rest'
  <2>1. /\ pc[w] = "send" /\ n <= left[w] - gone[w] /\ n < left[w] - gone[w] /\ Move(w, n)
        /\ gone' = [gone EXCEPT ![w] = gone[w] + n]
        /\ UNCHANGED <<pc, frame, base, left, hits, conn, reader, doubled, overlapped>>
    BY <1>0, <1>2, SizesAssumption DEF MoveSome, Move, readerVars
  <2>2. OneAtATime' /\ HitOnce'
    BY <1>0, <2>1 DEF OneAtATime, HitOnce
  <2>3. ASSUME ~overlapped, ~doubled
        PROVE  /\ ~torn' /\ \A v \in Writers : v # w => pc[v] = "idle"
               /\ lastByte' = <<frame[w], base[w] + gone[w] + n>>
    BY <2>1, <2>3, MoveContinues
  <2>4. Continuous'
    <3>1. gone'[w] = gone[w] + n /\ base[w] + gone'[w] # 0
      BY <1>0, <2>1
    <3>2. base[w] + gone[w] + n = base[w] + gone'[w]
      BY <1>0, <3>1
    <3> QED BY <2>1, <2>3, <3>1, <3>2 DEF Continuous
  <2>5. TearNeedsTwo'
    BY <2>1, <2>3 DEF TearNeedsTwo
  <2> QED BY <2>2, <2>4, <2>5
<1>3. ASSUME NEW w \in Writers, NEW n \in 1..WireCap, MoveLast(w, n) PROVE Rest'
  <2>1. /\ n <= left[w] - gone[w] /\ n = left[w] - gone[w] /\ Move(w, n)
        /\ pc' = [pc EXCEPT ![w] = "idle"] /\ gone' = [gone EXCEPT ![w] = gone[w] + n]
        /\ UNCHANGED <<frame, base, left, hits, conn, reader, doubled, overlapped>>
    BY <1>0, <1>3, SizesAssumption DEF MoveLast, Move, Return, readerVars
  <2>2. OneAtATime' /\ HitOnce'
    BY <1>0, <2>1 DEF OneAtATime, HitOnce
  <2>3. ASSUME ~overlapped, ~doubled
        PROVE  /\ ~torn' /\ Ended(lastByte') /\ \A v \in Writers : pc'[v] = "idle"
    <3>1. /\ ~torn' /\ lastByte' = <<frame[w], base[w] + gone[w] + n>>
          /\ base[w] + left[w] = Length[frame[w]]
          /\ \A v \in Writers : v # w => pc[v] = "idle"
      BY <2>1, <2>3, MoveContinues
    <3>2. base[w] + gone[w] + n = Length[frame[w]]
      BY <1>0, <2>1, <3>1
    <3>3. Ended(lastByte')
      BY <3>1, <3>2 DEF Ended
    <3> QED BY <1>0, <2>1, <3>1, <3>3
  <2>4. Continuous'
    BY <2>1, <2>3 DEF Continuous
  <2>5. TearNeedsTwo'
    BY <2>1, <2>3 DEF TearNeedsTwo
  <2> QED BY <2>2, <2>4, <2>5
<1>4. ASSUME NEW w \in Writers, ShortSend(w) PROVE Rest'
  <2>1. /\ pc[w] = "send" /\ left' = [left EXCEPT ![w] = left[w] - gone[w]]
        /\ base' = [base EXCEPT ![w] = gone[w]] /\ gone' = [gone EXCEPT ![w] = 0]
        /\ hits' = [hits EXCEPT ![w] = hits[w] + 1] /\ doubled' = (doubled \/ hits[w] > 0)
        /\ UNCHANGED <<pc, frame, conn, reader, lastByte, torn, overlapped>>
    BY <1>4 DEF ShortSend, readerVars
  <2>2. OneAtATime' /\ TearNeedsTwo'
    BY <1>0, <2>1 DEF OneAtATime, TearNeedsTwo
  <2>3. ASSUME ~doubled'
        PROVE  /\ ~doubled /\ hits[w] = 0 /\ base[w] = 0 /\ left[w] = Length[frame[w]]
               /\ gone[w] < left[w]
    <3>1. ~doubled /\ ~(hits[w] > 0)
      BY <2>1, <2>3, Zenon
    <3>2. /\ base[w] + left[w] = Length[frame[w]] /\ hits[w] \in {0, 1}
          /\ (hits[w] = 0 => base[w] = 0)
      BY <1>0, <2>1, <3>1 DEF HitOnce
    <3>3. gone[w] < left[w]
      BY <1>0, <2>1 DEF Sending
    <3> QED BY <1>0, <3>1, <3>2, <3>3
  <2>4. HitOnce'
    <3> SUFFICES ASSUME ~doubled', NEW v \in Writers, pc[v] = "send"
                 PROVE  /\ base'[v] + left'[v] = Length[frame[v]]
                        /\ hits'[v] \in {0, 1} /\ (hits'[v] = 0 => base'[v] = 0)
      BY <2>1 DEF HitOnce
    <3>1. CASE v = w
      BY <1>0, <2>1, <2>3, <3>1
    <3>2. CASE v # w
      BY <1>0, <2>1, <2>3, <3>2 DEF HitOnce
    <3> QED BY <3>1, <3>2
  <2>5. Continuous'
    <3> SUFFICES ASSUME ~overlapped, ~doubled', ~Broken, NEW v \in Writers, pc[v] = "send"
                 PROVE  IF base'[v] + gone'[v] = 0 THEN Ended(lastByte)
                        ELSE lastByte = <<frame[v], base'[v] + gone'[v]>>
      BY <1>0, <2>1 DEF Continuous, Ended, Broken
    <3>1. base'[v] + gone'[v] = base[v] + gone[v]
      BY <1>0, <2>1, <2>3
    <3> QED BY <1>0, <2>3, <3>1 DEF Continuous
  <2> QED BY <2>2, <2>4, <2>5
<1>5. ASSUME NEW w \in Writers, InterruptedSend(w) PROVE Rest'
  <2>1. /\ pc[w] = "send" /\ gone[w] = 0 /\ pc' = [pc EXCEPT ![w] = "idle"]
        /\ hits' = [hits EXCEPT ![w] = hits[w] + 1] /\ doubled' = (doubled \/ hits[w] > 0)
        /\ UNCHANGED <<frame, base, gone, left, conn, reader, lastByte, torn, overlapped>>
    BY <1>5 DEF InterruptedSend, Return, readerVars
  <2>2. OneAtATime' /\ TearNeedsTwo'
    BY <1>0, <2>1 DEF OneAtATime, TearNeedsTwo
  <2>3. HitOnce'
    BY <1>0, <2>1 DEF HitOnce
  <2>4. Continuous'
    <3> SUFFICES ASSUME ~overlapped, ~doubled', ~Broken
                 PROVE  Ended(lastByte) /\ \A v \in Writers : pc'[v] = "idle"
      BY <2>1 DEF Continuous, Ended, Broken
    <3>0. ~doubled /\ ~(hits[w] > 0)
      BY <2>1, Zenon
    <3>1. ~doubled /\ hits[w] = 0 /\ base[w] = 0
      BY <1>0, <2>1, <3>0 DEF HitOnce
    <3>2. Ended(lastByte)
      BY <1>0, <2>1, <3>1 DEF Continuous
    <3>3. \A v \in Writers : pc'[v] = "idle"
      BY <1>0, <2>1 DEF OneAtATime
    <3> QED BY <3>2, <3>3
  <2> QED BY <2>2, <2>3, <2>4
<1>6. ASSUME NEW w \in Writers, FailedSend(w) PROVE Rest'
  <2>1. /\ Broken /\ pc' = [pc EXCEPT ![w] = "idle"]
        /\ UNCHANGED <<frame, base, gone, left, hits, conn, reader, lastByte, torn, doubled,
                       overlapped>>
    BY <1>6 DEF FailedSend, Return, readerVars, historyVars
  <2>2. Broken'
    BY <2>1 DEF Broken
  <2> QED BY <1>0, <2>1, <2>2 DEF OneAtATime, HitOnce, Continuous, TearNeedsTwo
<1>7. CASE WriterCloses
  BY <1>0, <1>7 DEF WriterCloses, writerVars, readerVars, historyVars, OneAtATime, HitOnce,
                    Continuous, TearNeedsTwo, Broken
<1>8. CASE ReaderStep \/ UNCHANGED vars
  <2>1. /\ UNCHANGED <<pc, frame, base, gone, left, hits, conn, lastByte, torn, doubled,
                       overlapped>>
        /\ reader = "stopped" => reader' = "stopped"
    BY <1>8 DEF ReaderStep, Recv, RecvHeader, RecvBody, EmptyBody, EndOfStream, InterruptedRecv,
                Stop, vars, writerVars, readerVars, historyVars
  <2>2. Broken => Broken'
    BY <2>1 DEF Broken
  <2>3. OneAtATime' /\ HitOnce' /\ TearNeedsTwo'
    BY <1>0, <2>1 DEF OneAtATime, HitOnce, TearNeedsTwo
  <2>4. Continuous'
    BY <1>0, <2>1, <2>2 DEF Continuous, Ended
  <2> QED BY <2>3, <2>4
<1> QED
  BY <1>1, <1>2, <1>3, <1>4, <1>5, <1>6, <1>7, <1>8 DEF Next, WriterStep, Over

(* A frame on the stream is torn only by two signals in one write or two    *)
(* writes at once: for every size of frame, header and buffer.             *)
THEOREM TornByTwo == Spec => []TearNeedsTwo
<1>1. TearInv => TearNeedsTwo
  BY DEF TearInv
<1> QED BY <1>1, InitTear, NextTear, PTL DEF Spec

(* Every frame has a number of its own, and a write that has the stream to  *)
(* itself is busy with the newest.                                         *)
Numbered ==
  /\ \A w \in Writers : frame[w] < nextFrame
  /\ \A v, w \in Writers : v # w /\ frame[v] = frame[w] => frame[v] = 0
  /\ ~overlapped => \A w \in Writers : pc[w] = "send" => frame[w] = nextFrame - 1

LEMMA NextNumbered == TearInv /\ Numbered /\ [Next]_vars => Numbered'
<1> SUFFICES ASSUME TearInv, Numbered, [Next]_vars PROVE Numbered'
  OBVIOUS
<1>0. /\ pc \in [Writers -> {"idle", "send"}] /\ frame \in [Writers -> Nat]
      /\ nextFrame \in Nat /\ nextFrame > 0 /\ overlapped \in BOOLEAN
  BY SizesAssumption DEF TearInv, Typed, TypeOK
<1>1. ASSUME NEW w \in Writers, Write(w) PROVE Numbered'
  <2>1. /\ pc' = [pc EXCEPT ![w] = "send"] /\ frame' = [frame EXCEPT ![w] = nextFrame]
        /\ nextFrame' = nextFrame + 1
        /\ overlapped' = (overlapped \/ \E v \in Writers \ {w} : pc[v] # "idle")
    BY <1>1 DEF Write
  <2>2. frame'[w] = nextFrame /\ \A v \in Writers : v # w => frame'[v] = frame[v] /\ pc'[v] = pc[v]
    BY <1>0, <2>1
  <2>3. \A v \in Writers : frame[v] \in Nat /\ frame[v] < nextFrame
    BY <1>0 DEF Numbered
  <2>4. \A v \in Writers : frame'[v] < nextFrame'
    BY <1>0, <2>1, <2>2, <2>3
  <2>5. ASSUME NEW u \in Writers, NEW v \in Writers, u # v, frame'[u] = frame'[v]
        PROVE  frame'[u] = 0
    <3>1. u # w /\ v # w
      BY <1>0, <2>2, <2>3, <2>5
    <3> QED BY <2>2, <2>5, <3>1 DEF Numbered
  <2>6. ASSUME ~overlapped', NEW v \in Writers, pc'[v] = "send" PROVE frame'[v] = nextFrame' - 1
    <3>1. v = w
      BY <1>0, <2>1, <2>2, <2>6
    <3> QED BY <1>0, <2>1, <2>2, <3>1
  <2> QED BY <2>4, <2>5, <2>6 DEF Numbered
<1>2. ASSUME frame' = frame, nextFrame' = nextFrame, overlapped' = overlapped,
             \A v \in Writers : pc'[v] = "send" => pc[v] = "send"
      PROVE  Numbered'
  BY <1>2 DEF Numbered
<1>3. ASSUME NEW w \in Writers, NEW n \in 1..WireCap, MoveSome(w, n) \/ MoveLast(w, n)
      PROVE  Numbered'
  BY <1>0, <1>2, <1>3 DEF MoveSome, MoveLast, Move, Return
<1>4. ASSUME NEW w \in Writers, ShortSend(w) \/ InterruptedSend(w) \/ FailedSend(w)
      PROVE  Numbered'
  BY <1>0, <1>2, <1>4 DEF ShortSend, InterruptedSend, FailedSend, Return, historyVars
<1>5. CASE WriterCloses \/ ReaderStep \/ UNCHANGED vars
  <2>1. UNCHANGED <<writerVars, historyVars>>
    BY <1>5 DEF WriterCloses, ReaderStep, Recv, RecvHeader, RecvBody, EmptyBody, EndOfStream,
                InterruptedRecv, Stop, vars
  <2> QED BY <1>2, <2>1 DEF writerVars, historyVars
<1> QED BY <1>1, <1>3, <1>4, <1>5 DEF Next, WriterStep, Over

AllSentInv == TearInv /\ Numbered /\ (~doubled => TrueMeansAllSent)

LEMMA NextAllSent == AllSentInv /\ [Next]_vars => (~doubled' => TrueMeansAllSent')
<1> SUFFICES ASSUME AllSentInv, [Next]_vars, ~doubled',
                    NEW w \in Writers, pc'[w] = "idle", result'[w] = "true",
                    frame'[w] = nextFrame' - 1, ~overlapped'
             PROVE  lastByte' = <<frame'[w], Length[frame'[w]]>>
  BY DEF TrueMeansAllSent, Byte
<1>0. /\ pc \in [Writers -> {"idle", "send"}] /\ frame \in [Writers -> Nat]
      /\ result \in [Writers -> {"none", "true", "false"}]
      /\ nextFrame \in Nat /\ nextFrame > 0 /\ gone \in [Writers -> Nat] /\ left \in [Writers -> Nat]
  BY SizesAssumption DEF AllSentInv, TearInv, Typed, TypeOK
<1>1. ASSUME pc[w] = "idle", result[w] = "true", frame[w] = nextFrame - 1, ~overlapped, ~doubled
      PROVE  lastByte = <<frame[w], Length[frame[w]]>>
  BY <1>1 DEF AllSentInv, TrueMeansAllSent, Byte
<1>2. ASSUME NEW v \in Writers, Write(v) PROVE FALSE
  <2>1. /\ pc' = [pc EXCEPT ![v] = "send"] /\ frame' = [frame EXCEPT ![v] = nextFrame]
        /\ nextFrame' = nextFrame + 1
    BY <1>2 DEF Write
  <2>2. w # v
    BY <1>0, <2>1
  <2>3. frame[w] = nextFrame
    BY <1>0, <2>1, <2>2
  <2> QED BY <1>0, <2>3 DEF AllSentInv, Numbered
<1>3. ASSUME NEW v \in Writers, NEW n \in 1..WireCap, Move(v, n), n <= left[v] - gone[v]
      PROVE  /\ v = w /\ frame' = frame
             /\ lastByte' = <<frame[v], base[v] + gone[v] + n>>
             /\ base[v] + left[v] = Length[frame[v]]
  <2>1. pc[v] = "send" /\ UNCHANGED <<frame, nextFrame, overlapped, doubled>>
    BY <1>3 DEF Move
  <2>2. ~overlapped /\ ~doubled
    BY <2>1
  <2>3. frame[v] = nextFrame - 1 /\ frame[v] \in Frames
    BY <2>1, <2>2 DEF AllSentInv, Numbered, TearInv, Typed, Sending
  <2>4. v = w
    <3>1. frame[v] # 0
      BY <2>3 DEF Frames
    <3> QED BY <2>1, <2>3, <3>1 DEF AllSentInv, Numbered
  <2> QED BY <1>3, <2>1, <2>2, <2>4, MoveContinues DEF AllSentInv
<1>4. ASSUME NEW v \in Writers, NEW n \in 1..WireCap, MoveSome(v, n) PROVE FALSE
  <2>1. Move(v, n) /\ n < left[v] - gone[v] /\ pc' = pc
    BY <1>4 DEF MoveSome
  <2>2. left[v] \in Nat /\ gone[v] \in Nat /\ n \in Nat
    BY <1>0, SizesAssumption
  <2>3. v = w
    BY <1>3, <2>1, <2>2
  <2> QED BY <2>1, <2>3 DEF Move
<1>5. ASSUME NEW v \in Writers, NEW n \in 1..WireCap, MoveLast(v, n)
      PROVE  lastByte' = <<frame'[w], Length[frame'[w]]>>
  <2>1. Move(v, n) /\ n = left[v] - gone[v]
    BY <1>5 DEF MoveLast
  <2>2. left[v] \in Nat /\ gone[v] \in Nat /\ base[v] \in Nat /\ n \in Nat
    BY <1>0, SizesAssumption DEF AllSentInv, TearInv, Typed, TypeOK
  <2>3. /\ v = w /\ frame' = frame /\ lastByte' = <<frame[v], base[v] + gone[v] + n>>
        /\ base[v] + left[v] = Length[frame[v]]
    BY <1>3, <2>1, <2>2
  <2>4. base[v] + gone[v] + n = Length[frame[v]]
    BY <2>1, <2>2, <2>3
  <2> QED BY <2>3, <2>4
<1>6. ASSUME NEW v \in Writers, ShortSend(v)
      PROVE  lastByte' = <<frame'[w], Length[frame'[w]]>>
  <2>1. /\ UNCHANGED <<pc, frame, result, nextFrame, lastByte, overlapped>>
        /\ doubled' = (doubled \/ hits[v] > 0)
    BY <1>6 DEF ShortSend
  <2>2. ~doubled
    BY <2>1, Zenon
  <2> QED BY <1>1, <2>1, <2>2
<1>7. ASSUME NEW v \in Writers, InterruptedSend(v) \/ FailedSend(v)
      PROVE  lastByte' = <<frame'[w], Length[frame'[w]]>>
  <2>1. /\ UNCHANGED <<frame, nextFrame, lastByte, overlapped>>
        /\ result' = [result EXCEPT ![v] = "false"] /\ pc' = [pc EXCEPT ![v] = "idle"]
        /\ doubled' = doubled \/ doubled' = (doubled \/ hits[v] > 0)
    BY <1>7 DEF InterruptedSend, FailedSend, Return, historyVars
  <2>2. ~doubled
    BY <2>1, Zenon
  <2>3. v # w
    BY <1>0, <2>1
  <2>4. pc[w] = "idle" /\ result[w] = "true"
    BY <1>0, <2>1, <2>3
  <2> QED BY <1>1, <2>1, <2>2, <2>4
<1>8. CASE WriterCloses \/ ReaderStep \/ UNCHANGED vars
  <2>1. UNCHANGED <<writerVars, historyVars>>
    BY <1>8 DEF WriterCloses, ReaderStep, Recv, RecvHeader, RecvBody, EmptyBody, EndOfStream,
                InterruptedRecv, Stop, vars
  <2>2. UNCHANGED <<pc, frame, result, nextFrame, lastByte, overlapped, doubled>>
    BY <2>1 DEF writerVars, historyVars
  <2> QED BY <1>1, <2>2
<1> QED BY <1>2, <1>4, <1>5, <1>6, <1>7, <1>8 DEF Next, WriterStep, Over

(* writeToSocket returns true for the newest frame, written on its own,     *)
(* only when all of it is on the stream, unless two signals have hit one    *)
(* write: the wrong offset of the third send() is the only way to break    *)
(* what its "loop until all is sent" says.                                 *)
THEOREM AllSentUnlessDoubled == Spec => [](~doubled => TrueMeansAllSent)
<1>1. Init => AllSentInv
  <2>1. Init => Numbered /\ TrueMeansAllSent
    BY DEF Init, Numbered, TrueMeansAllSent
  <2> QED BY <2>1, InitTear DEF AllSentInv
<1>2. AllSentInv /\ [Next]_vars => AllSentInv'
  BY NextTear, NextNumbered, NextAllSent DEF AllSentInv
<1>3. AllSentInv => (~doubled => TrueMeansAllSent)
  BY DEF AllSentInv
<1> QED BY <1>1, <1>2, <1>3, PTL DEF Spec

-----------------------------------------------------------------------------
(* The stream as the frames it is made of.  These definitions and lemmas    *)
(* are about any stream s, of which d frames have been handed over, that    *)
(* ends with the byte last, when acc are the frames wholly put on it.      *)
Octets == Nat \X Nat

IsLast(b) == b \in Octets /\ (b = NoByte \/ (b[1] \in Frames /\ b[2] \in 1..Length[b[1]]))

(* The bytes of s after position p begin with n bytes of frame f.          *)
BeginsAt(s, p, f, n) == \A j \in 1..n : s[p + j] = <<f, j>>

(* Frame k of acc ends pos[k] - pos[d] bytes into s.                       *)
Ordered(d, acc, pos) ==
  /\ pos \in [Nat -> Nat]
  /\ \A k, l \in d..Len(acc) : k <= l => pos[k] <= pos[l]

WholeAt(s, d, acc, pos, k) ==
  /\ pos[k] = pos[k - 1] + Length[acc[k]]
  /\ BeginsAt(s, pos[k - 1] - pos[d], acc[k], Length[acc[k]])

(* What is left is the part of a frame that has come so far.               *)
PartAt(s, p, last) ==
  IF Ended(last) THEN Len(s) = p
                 ELSE Len(s) = p + last[2] /\ BeginsAt(s, p, last[1], last[2])

Parsed(s, d, acc, last, pos) ==
  /\ s \in Seq(Octets) /\ d \in Nat /\ acc \in Seq(Frames) /\ d <= Len(acc) /\ IsLast(last)
  /\ Ordered(d, acc, pos)
  /\ \A k \in (d + 1)..Len(acc) : WholeAt(s, d, acc, pos, k)
  /\ PartAt(s, pos[Len(acc)] - pos[d], last)

(* t is s and the n bytes of frame f after the first from, which continue  *)
(* a stream that ends with last.                                           *)
Puts(s, last, f, from, n, t) ==
  /\ f \in Frames /\ from \in Nat /\ n \in Nat /\ n > 0
  /\ Continues(last, <<f, from + 1>>)
  /\ t = s \o Bytes(f, from, n)

(* t is s without its first frame, which is all there.                     *)
Takes(s, d, acc, t) ==
  d < Len(acc) /\ t = SubSeq(s, Length[acc[d + 1]] + 1, Len(s))

LEMMA ContinuesLast ==
  ASSUME NEW last, IsLast(last), NEW f, NEW from, from \in Nat,
         Continues(last, <<f, from + 1>>)
  PROVE  \/ Ended(last) /\ from = 0
         \/ ~Ended(last) /\ last = <<f, from>> /\ from > 0
<1>1. CASE Ended(last)
  BY <1>1 DEF Continues, Ended
<1>2. CASE ~Ended(last)
  <2>1. <<f, from + 1>> = <<last[1], last[2] + 1>>
    BY <1>2 DEF Continues, Ended, Byte
  <2>2. last[1] = f /\ last[2] = from /\ last = <<last[1], last[2]>>
    BY <2>1 DEF IsLast, Octets
  <2>3. last[2] \in 1..Length[last[1]] /\ Length[last[1]] \in Nat
    BY <1>2, SizesAssumption DEF IsLast, Ended
  <2> QED BY <1>2, <2>2, <2>3
<1> QED BY <1>1, <1>2

LEMMA BytesOctets ==
  ASSUME NEW f \in Frames, NEW from \in Nat, NEW n \in Nat
  PROVE  /\ Bytes(f, from, n) \in Seq(Octets) /\ Len(Bytes(f, from, n)) = n
         /\ \A k \in 1..n : Bytes(f, from, n)[k] = <<f, from + k>>
<1>1. f \in Nat
  BY DEF Frames
<1> QED BY <1>1, BytesType DEF Octets

LEMMA ParsedType ==
  ASSUME NEW s, NEW d, NEW acc, NEW last, NEW pos, Parsed(s, d, acc, last, pos)
  PROVE  /\ Len(s) \in Nat /\ d \in Nat /\ Len(acc) \in Nat /\ d <= Len(acc)
         /\ pos[d] \in Nat /\ pos[Len(acc)] \in Nat /\ pos[Len(acc)] - pos[d] \in Nat
         /\ pos[Len(acc)] - pos[d] <= Len(s)
<1>1. Len(s) \in Nat /\ d \in Nat /\ Len(acc) \in Nat /\ d <= Len(acc)
  BY LenProperties DEF Parsed
<1>2. d \in d..Len(acc) /\ Len(acc) \in d..Len(acc)
  BY <1>1
<1>3. pos[d] \in Nat /\ pos[Len(acc)] \in Nat /\ pos[d] <= pos[Len(acc)]
  BY <1>1, <1>2 DEF Parsed, Ordered
<1>4. PartAt(s, pos[Len(acc)] - pos[d], last)
  BY DEF Parsed
<1>5. last[2] \in Nat
  BY DEF Parsed, IsLast, Octets
<1>6. pos[Len(acc)] - pos[d] \in Nat
  BY <1>3
<1>7. pos[Len(acc)] - pos[d] <= Len(s)
  BY <1>1, <1>4, <1>5, <1>6 DEF PartAt
<1> QED BY <1>1, <1>3, <1>6, <1>7

(* The whole frames lie within s, ahead of the part that is left.          *)
LEMMA WholeWithin ==
  ASSUME NEW s, NEW d, NEW acc, NEW last, NEW pos, Parsed(s, d, acc, last, pos),
         NEW k \in (d + 1)..Len(acc)
  PROVE  /\ acc[k] \in Frames /\ Length[acc[k]] \in Nat /\ Length[acc[k]] > Header
         /\ k \in Nat /\ k - 1 \in Nat /\ pos[k - 1] \in Nat
         /\ pos[k - 1] - pos[d] \in Nat /\ pos[k] = pos[k - 1] + Length[acc[k]]
         /\ (pos[k - 1] - pos[d]) + Length[acc[k]] <= pos[Len(acc)] - pos[d]
         /\ BeginsAt(s, pos[k - 1] - pos[d], acc[k], Length[acc[k]])
<1>1. d \in Nat /\ Len(acc) \in Nat /\ pos[d] \in Nat /\ pos[Len(acc)] \in Nat
  BY ParsedType
<1>2. /\ k \in 1..Len(acc) /\ k - 1 \in d..Len(acc) /\ k \in d..Len(acc) /\ d \in d..Len(acc)
      /\ Len(acc) \in d..Len(acc) /\ d <= k - 1 /\ k <= Len(acc) /\ k \in Nat /\ k - 1 \in Nat
  BY <1>1
<1>3. acc[k] \in Frames
  BY <1>2, ElementOfSeq DEF Parsed
<1>4. Length[acc[k]] \in Nat /\ Length[acc[k]] > Header
  BY <1>3, SizesAssumption
<1>5. pos[d] <= pos[k - 1] /\ pos[k] <= pos[Len(acc)] /\ pos[k - 1] \in Nat
  BY <1>2 DEF Parsed, Ordered
<1>6. BeginsAt(s, pos[k - 1] - pos[d], acc[k], Length[acc[k]])
  BY DEF Parsed, WholeAt
<1>7. pos[k] = pos[k - 1] + Length[acc[k]]
  BY DEF Parsed, WholeAt
<1> DEFINE x == pos[d]
           y == pos[k - 1]
           z == Length[acc[k]]
           m == pos[Len(acc)]
<1>8. x \in Nat /\ y \in Nat /\ z \in Nat /\ m \in Nat /\ x <= y /\ y + z <= m
  BY <1>1, <1>4, <1>5, <1>7
<1> HIDE DEF x, y, z, m
<1>9. y - x \in Nat /\ (y - x) + z <= m - x
  BY <1>8
<1> USE DEF x, y, z, m
<1> QED BY <1>2, <1>3, <1>4, <1>5, <1>6, <1>7, <1>9

(* s and the first bytes of t agree.                                       *)
LEMMA BeginsKept ==
  ASSUME NEW s, NEW t, NEW m \in Nat, \A i \in 1..m : t[i] = s[i],
         NEW q \in Nat, NEW z \in Nat, q + z <= m, NEW f, BeginsAt(s, q, f, z)
  PROVE  BeginsAt(t, q, f, z)
<1> SUFFICES ASSUME NEW j \in 1..z PROVE t[q + j] = <<f, j>>
  BY DEF BeginsAt
<1>1. q + j \in 1..m
  OBVIOUS
<1>2. t[q + j] = s[q + j]
  BY <1>1
<1> QED BY <1>2 DEF BeginsAt

(* n bytes after position m make a beginning of frame f longer.            *)
LEMMA BeginsMore ==
  ASSUME NEW t, NEW m, NEW p \in Nat, NEW from \in Nat, NEW n \in Nat, m = p + from, NEW f,
         BeginsAt(t, p, f, from), \A j \in 1..n : t[m + j] = <<f, from + j>>
  PROVE  BeginsAt(t, p, f, from + n)
<1> SUFFICES ASSUME NEW j \in 1..(from + n) PROVE t[p + j] = <<f, j>>
  BY DEF BeginsAt
<1>1. CASE j <= from
  <2>1. j \in 1..from
    BY <1>1
  <2> QED BY <2>1 DEF BeginsAt
<1>2. CASE j > from
  <2> DEFINE i == j - from
  <2>1. i \in 1..n /\ m + i = p + j /\ from + i = j
    BY <1>2
  <2>2. t[m + i] = <<f, from + i>>
    BY <2>1
  <2> QED BY <2>1, <2>2
<1> QED BY <1>1, <1>2

LEMMA PutsBytes ==
  ASSUME NEW s, s \in Seq(Octets), NEW last, NEW f, NEW from, NEW n, NEW t,
         Puts(s, last, f, from, n, t)
  PROVE  /\ t \in Seq(Octets) /\ Len(t) = Len(s) + n
         /\ \A i \in 1..Len(s) : t[i] = s[i]
         /\ \A j \in 1..n : t[Len(s) + j] = <<f, from + j>>
<1> DEFINE b == Bytes(f, from, n)
<1>1. n \in Nat /\ b \in Seq(Octets) /\ Len(b) = n /\ \A j \in 1..n : b[j] = <<f, from + j>>
  BY BytesOctets DEF Puts
<1>2. t = s \o b
  BY DEF Puts
<1> HIDE DEF b
<1>3. /\ t \in Seq(Octets) /\ Len(t) = Len(s) + n
      /\ \A i \in 1..(Len(s) + n) : t[i] = IF i <= Len(s) THEN s[i] ELSE b[i - Len(s)]
  BY <1>1, <1>2, ConcatProperties
<1>4. Len(s) \in Nat
  BY LenProperties
<1> DEFINE m == Len(s)
<1> HIDE DEF m
<1>5. ASSUME NEW j \in 1..n PROVE t[Len(s) + j] = <<f, from + j>>
  <2>1. m \in Nat /\ m = Len(s)
    BY <1>4 DEF m
  <2>2. m + j \in 1..(m + n) /\ ~(m + j <= m) /\ (m + j) - m = j
    BY <1>1, <2>1
  <2>3. t[m + j] = b[j]
    BY <1>3, <2>1, <2>2
  <2> QED BY <1>1, <2>1, <2>3
<1>6. ASSUME NEW i \in 1..Len(s) PROVE t[i] = s[i]
  <2>1. i \in 1..(Len(s) + n) /\ i <= Len(s)
    BY <1>1, <1>4
  <2> QED BY <1>3, <2>1
<1> QED BY <1>3, <1>5, <1>6

(* What Puts makes of the whole frames and of the part of one after them.  *)
LEMMA Grown ==
  ASSUME NEW s, NEW d, NEW acc, NEW last, NEW pos, Parsed(s, d, acc, last, pos),
         NEW f, NEW from, NEW n, NEW t, Puts(s, last, f, from, n, t)
  PROVE  /\ t \in Seq(Octets) /\ Len(t) = (pos[Len(acc)] - pos[d]) + (from + n)
         /\ BeginsAt(t, pos[Len(acc)] - pos[d], f, from + n)
         /\ \A k \in (d + 1)..Len(acc) : WholeAt(t, d, acc, pos, k)
<1> DEFINE p == pos[Len(acc)] - pos[d]
           m == Len(s)
<1>1. p \in Nat /\ m \in Nat /\ p <= m
  BY ParsedType
<1>2. f \in Frames /\ from \in Nat /\ n \in Nat
  BY DEF Puts
<1>3. /\ t \in Seq(Octets) /\ Len(t) = m + n
      /\ \A i \in 1..m : t[i] = s[i]
      /\ \A j \in 1..n : t[m + j] = <<f, from + j>>
  BY PutsBytes DEF Parsed
<1>4. m = p + from /\ BeginsAt(s, p, f, from)
  <2>0. IsLast(last) /\ Continues(last, <<f, from + 1>>)
    BY DEF Parsed, Puts
  <2>1. PartAt(s, p, last)
    BY DEF Parsed
  <2> HIDE DEF p, m
  <2>2. CASE Ended(last) /\ from = 0
    <3>1. Len(s) = p
      BY <2>1, <2>2 DEF PartAt
    <3>2. BeginsAt(s, p, f, from)
      BY <2>2 DEF BeginsAt
    <3> QED BY <1>1, <2>2, <3>1, <3>2 DEF m
  <2>3. CASE ~Ended(last) /\ last = <<f, from>> /\ from > 0
    <3>1. last[1] = f /\ last[2] = from
      BY <2>3
    <3> QED BY <2>1, <2>3, <3>1 DEF PartAt, m
  <2> QED BY <1>2, <2>0, <2>2, <2>3, ContinuesLast
<1> HIDE DEF p, m
<1>5. BeginsAt(t, p, f, from)
  <2>1. p + from <= m
    BY <1>1, <1>2, <1>4
  <2> QED BY <1>1, <1>2, <1>3, <1>4, <2>1, BeginsKept
<1>6. BeginsAt(t, p, f, from + n)
  BY <1>1, <1>2, <1>3, <1>4, <1>5, BeginsMore
<1>7. Len(t) = p + (from + n)
  BY <1>1, <1>2, <1>3, <1>4
<1>8. ASSUME NEW k \in (d + 1)..Len(acc) PROVE WholeAt(t, d, acc, pos, k)
  <2> DEFINE q == pos[k - 1] - pos[d]
             z == Length[acc[k]]
  <2>1. /\ z \in Nat /\ q \in Nat /\ q + z <= p /\ BeginsAt(s, q, acc[k], z)
        /\ pos[k] = pos[k - 1] + z
    BY WholeWithin DEF p
  <2> HIDE DEF q, z
  <2>2. q + z <= m
    BY <1>1, <2>1
  <2>3. BeginsAt(t, q, acc[k], z)
    BY <1>1, <1>3, <2>1, <2>2, BeginsKept
  <2> QED BY <2>1, <2>3 DEF WholeAt, q, z
<1> QED BY <1>3, <1>6, <1>7, <1>8 DEF p

(* A part of a frame is put on s,                                          *)
LEMMA PartComes ==
  ASSUME NEW s, NEW d, NEW acc, NEW last, NEW pos, Parsed(s, d, acc, last, pos),
         NEW f, NEW from, NEW n, NEW t, Puts(s, last, f, from, n, t), from + n < Length[f]
  PROVE  Parsed(t, d, acc, <<f, from + n>>, pos)
<1> DEFINE p == pos[Len(acc)] - pos[d]
           b == <<f, from + n>>
<1>1. /\ t \in Seq(Octets) /\ Len(t) = p + (from + n) /\ BeginsAt(t, p, f, from + n)
      /\ \A k \in (d + 1)..Len(acc) : WholeAt(t, d, acc, pos, k)
  BY Grown
<1>2. f \in Frames /\ from \in Nat /\ n \in Nat /\ n > 0 /\ Length[f] \in Nat /\ f # 0 /\ f \in Nat
  BY SizesAssumption DEF Puts, Frames
<1>3. b[1] = f /\ b[2] = from + n /\ b # NoByte
  BY <1>2 DEF NoByte, Byte
<1>4. ~Ended(b) /\ IsLast(b)
  <2>1. from + n \in 1..Length[f] /\ from + n \in Nat /\ from + n # Length[f]
    BY <1>2
  <2>2. b \in Octets
    BY <1>2, <2>1 DEF Octets
  <2> HIDE DEF b
  <2> QED BY <1>2, <1>3, <2>1, <2>2 DEF Ended, IsLast
<1> HIDE DEF p, b
<1>5. PartAt(t, p, b)
  BY <1>1, <1>3, <1>4 DEF PartAt
<1>6. Parsed(t, d, acc, b, pos)
  BY <1>1, <1>4, <1>5 DEF Parsed, p
<1> QED BY <1>6 DEF b

(* or the rest of it, which makes it one more whole frame.                 *)
LEMMA RestComes ==
  ASSUME NEW s, NEW d, NEW acc, NEW last, NEW pos, Parsed(s, d, acc, last, pos),
         NEW f, NEW from, NEW n, NEW t, Puts(s, last, f, from, n, t), from + n = Length[f]
  PROVE  \E q : Parsed(t, d, Append(acc, f), <<f, from + n>>, q)
<1> DEFINE p == pos[Len(acc)] - pos[d]
           b == <<f, from + n>>
           a == Append(acc, f)
           z == Length[f]
           m == Len(acc)
           v == pos[m] + z
           q == [pos EXCEPT ![m + 1] = v]
<1>1. /\ t \in Seq(Octets) /\ Len(t) = p + z /\ BeginsAt(t, p, f, z)
      /\ \A k \in (d + 1)..m : WholeAt(t, d, acc, pos, k)
  BY Grown
<1>2. /\ m \in Nat /\ d \in Nat /\ d <= m /\ pos[m] \in Nat /\ pos[d] \in Nat /\ p \in Nat
      /\ p = pos[m] - pos[d]
  BY ParsedType
<1>3. f \in Frames /\ f \in Nat /\ f # 0 /\ z \in Nat /\ z > 0 /\ from + n = z
  <2>1. f \in Frames
    BY DEF Puts
  <2>2. z \in Nat /\ z > 0
    BY <2>1, SizesAssumption
  <2> QED BY <2>1, <2>2 DEF Frames
<1>4. /\ pos \in [Nat -> Nat]
      /\ \A k, l \in d..m : k <= l => pos[k] <= pos[l]
  BY DEF Parsed, Ordered
<1>5. /\ a \in Seq(Frames) /\ Len(a) = m + 1 /\ a[m + 1] = f
      /\ \A k \in 1..m : a[k] = acc[k]
  <2>1. acc \in Seq(Frames)
    BY DEF Parsed
  <2> QED BY <1>3, <2>1, AppendProperties
<1>6. b[1] = f /\ b[2] = z /\ b # NoByte /\ Ended(b) /\ IsLast(b)
  <2>1. b = <<f, z>>
    BY <1>3
  <2>2. b[1] = f /\ b[2] = z /\ b # NoByte /\ b \in Octets
    BY <1>3, <2>1 DEF NoByte, Byte, Octets
  <2>3. z \in 1..z
    BY <1>3
  <2> HIDE DEF b
  <2> QED BY <1>3, <2>2, <2>3 DEF Ended, IsLast
<1>7. v \in Nat /\ pos[m] <= v /\ v - pos[d] = p + z
  <2> DEFINE x == pos[m]
             y == pos[d]
  <2>1. x \in Nat /\ y \in Nat /\ z \in Nat /\ p = x - y /\ v = x + z
    BY <1>2, <1>3
  <2> HIDE DEF x, y, z, v, p
  <2>2. v \in Nat /\ x <= v /\ v - y = p + z
    BY <2>1
  <2> QED BY <2>2 DEF x, y
<1> HIDE DEF p, b, a, z, m, v
<1>8. q \in [Nat -> Nat] /\ q[m + 1] = v /\ \A k \in 0..m : q[k] = pos[k]
  <2>1. m + 1 \in Nat /\ \A k \in 0..m : k \in Nat /\ k # m + 1
    BY <1>2
  <2> QED BY <1>4, <1>7, <2>1
<1> HIDE DEF q
<1>9. Ordered(d, a, q)
  <2> SUFFICES ASSUME NEW k \in d..(m + 1), NEW l \in d..(m + 1), k <= l PROVE q[k] <= q[l]
    BY <1>5, <1>8 DEF Ordered
  <2>1. CASE l # m + 1
    <3>1. k \in d..m /\ l \in d..m /\ k \in 0..m /\ l \in 0..m
      BY <1>2, <2>1
    <3>2. q[k] = pos[k] /\ q[l] = pos[l]
      BY <1>8, <3>1
    <3> QED BY <1>4, <3>1, <3>2
  <2>2. CASE k # m + 1 /\ l = m + 1
    <3>1. k \in d..m /\ k \in 0..m /\ m \in d..m /\ k <= m /\ k \in Nat
      BY <1>2, <2>2
    <3>2. pos[k] <= pos[m] /\ q[k] = pos[k] /\ q[l] = v
      BY <1>4, <1>8, <2>2, <3>1
    <3>3. pos[k] \in Nat /\ pos[m] \in Nat /\ v \in Nat /\ pos[m] <= v
      BY <1>2, <1>4, <1>7, <3>1
    <3> QED BY <3>2, <3>3
  <2>3. CASE k = m + 1 /\ l = m + 1
    <3>1. q[m + 1] \in Nat
      BY <1>7, <1>8
    <3> QED BY <2>3, <3>1
  <2> QED BY <2>1, <2>2, <2>3
<1>10. ASSUME NEW k \in (d + 1)..(m + 1) PROVE WholeAt(t, d, a, q, k)
  <2>0. d \in 0..m /\ q[d] = pos[d]
    BY <1>2, <1>8
  <2>1. CASE k # m + 1
    <3>1. k \in 0..m /\ k - 1 \in 0..m /\ k \in 1..m /\ k \in (d + 1)..m
      BY <1>2, <2>1
    <3>2. q[k] = pos[k] /\ q[k - 1] = pos[k - 1] /\ a[k] = acc[k]
      BY <1>5, <1>8, <3>1
    <3> QED BY <1>1, <2>0, <3>1, <3>2 DEF WholeAt
  <2>2. CASE k = m + 1
    <3>1. k - 1 = m /\ m \in 0..m
      BY <1>2, <2>2
    <3>2. q[k - 1] = pos[m] /\ q[k - 1] - q[d] = p
      BY <1>2, <1>8, <2>0, <3>1
    <3>3. q[k] = q[k - 1] + z /\ a[k] = f /\ Length[a[k]] = z
      BY <1>5, <1>8, <2>2, <3>2 DEF z, v
    <3> QED BY <1>1, <3>2, <3>3 DEF WholeAt
  <2> QED BY <2>1, <2>2
<1>11. PartAt(t, q[Len(a)] - q[d], b)
  <2>1. d \in 0..m
    BY <1>2
  <2>2. q[Len(a)] = v /\ q[d] = pos[d]
    BY <1>5, <1>8, <2>1
  <2>3. q[Len(a)] - q[d] = Len(t)
    BY <1>1, <1>7, <2>2
  <2> QED BY <1>6, <2>3 DEF PartAt
<1>12. d <= Len(a)
  BY <1>2, <1>5
<1>13. Parsed(t, d, a, b, q)
  BY <1>1, <1>2, <1>5, <1>6, <1>9, <1>10, <1>11, <1>12 DEF Parsed
<1> QED BY <1>13 DEF a, b

LEMMA BeginsAtStart ==
  ASSUME NEW s, NEW f, NEW n \in Nat, BeginsAt(s, 0, f, n)
  PROVE  \A j \in 1..n : s[j] = <<f, j>>
<1> SUFFICES ASSUME NEW j \in 1..n PROVE s[j] = <<f, j>>
  OBVIOUS
<1>1. 0 + j = j
  OBVIOUS
<1>2. s[0 + j] = <<f, j>>
  BY DEF BeginsAt
<1> QED BY <1>1, <1>2

(* The stream begins with frame f, the next one to hand over once all of it *)
(* is there.                                                               *)
LEMMA FirstFrame ==
  ASSUME NEW s, NEW d, NEW acc, NEW last, NEW pos, Parsed(s, d, acc, last, pos), Len(s) > 0
  PROVE  \E f \in Frames :
           /\ s[1] = <<f, 1>>
           /\ \A j \in 1..Len(s) : j <= Length[f] => s[j] = <<f, j>>
           /\ Length[f] <= Len(s) => d < Len(acc) /\ acc[d + 1] = f
<1> DEFINE m == Len(s)
<1>1. m \in Nat /\ m > 0 /\ d \in Nat /\ Len(acc) \in Nat /\ d <= Len(acc) /\ pos[d] \in Nat
  BY ParsedType
<1>2. CASE d < Len(acc)
  <2> DEFINE f == acc[d + 1]
  <2>1. d + 1 \in (d + 1)..Len(acc) /\ (d + 1) - 1 = d
    BY <1>1, <1>2
  <2>2. /\ f \in Frames /\ Length[f] \in Nat /\ Length[f] > Header
        /\ BeginsAt(s, pos[d] - pos[d], f, Length[f])
    <3>1. /\ f \in Frames /\ Length[f] \in Nat /\ Length[f] > Header
          /\ BeginsAt(s, pos[(d + 1) - 1] - pos[d], f, Length[f])
      BY <2>1, WholeWithin
    <3> QED BY <2>1, <3>1
  <2> HIDE DEF f
  <2>3. pos[d] - pos[d] = 0
    BY <1>1
  <2>4. \A j \in 1..Length[f] : s[j] = <<f, j>>
    BY <2>2, <2>3, BeginsAtStart
  <2>5. \A j \in 1..m : j <= Length[f] => j \in 1..Length[f]
    BY <1>1, <2>2
  <2>6. 1 \in 1..Length[f]
    BY <2>2, SizesAssumption
  <2> QED BY <1>2, <2>2, <2>4, <2>5, <2>6 DEF f
<1>3. CASE ~(d < Len(acc))
  <2>1. Len(acc) = d /\ pos[Len(acc)] - pos[d] = 0
    BY <1>1, <1>3
  <2>2. PartAt(s, 0, last) /\ IsLast(last)
    BY <2>1 DEF Parsed
  <2>3. ~Ended(last)
    BY <1>1, <2>2 DEF PartAt
  <2> DEFINE f == last[1]
  <2>4. /\ f \in Frames /\ last[2] \in 1..Length[f] /\ last[2] # Length[f]
        /\ m = 0 + last[2] /\ BeginsAt(s, 0, f, last[2])
    BY <2>2, <2>3 DEF IsLast, Ended, PartAt
  <2>5. Length[f] \in Nat
    BY <2>4, SizesAssumption
  <2> DEFINE z == Length[f]
  <2> HIDE DEF f, z, m
  <2>6. m = last[2] /\ m \in 1..z /\ m # z /\ z \in Nat
    BY <2>4, <2>5 DEF z
  <2>7. \A j \in 1..m : s[j] = <<f, j>>
    BY <2>4, <2>6, BeginsAtStart
  <2>8. ~(z <= m) /\ 1 \in 1..m
    BY <2>6
  <2> QED BY <2>4, <2>7, <2>8 DEF z, m
<1> QED BY <1>2, <1>3

(* The first frame is taken off s.                                         *)
LEMMA FirstTaken ==
  ASSUME NEW s, NEW d, NEW acc, NEW last, NEW pos, Parsed(s, d, acc, last, pos),
         NEW t, Takes(s, d, acc, t)
  PROVE  Parsed(t, d + 1, acc, last, pos)
<1> DEFINE e == d + 1
           z == Length[acc[e]]
           m == Len(s)
           x == pos[d]
<1>1. /\ m \in Nat /\ d \in Nat /\ e \in Nat /\ Len(acc) \in Nat /\ e <= Len(acc)
      /\ x \in Nat /\ pos[Len(acc)] \in Nat /\ pos[Len(acc)] - x <= m /\ d = e - 1
      /\ e \in (d + 1)..Len(acc)
  <2>1. /\ m \in Nat /\ d \in Nat /\ Len(acc) \in Nat /\ x \in Nat /\ pos[Len(acc)] \in Nat
        /\ pos[Len(acc)] - x <= m
    BY ParsedType
  <2> DEFINE a == Len(acc)
  <2>2. a \in Nat /\ d \in Nat /\ d < a
    BY <2>1 DEF Takes
  <2> HIDE DEF a
  <2>3. e \in Nat /\ e <= a /\ d = e - 1 /\ e \in (d + 1)..a
    BY <2>2
  <2> QED BY <2>1, <2>3 DEF a
<1>0. t = SubSeq(s, z + 1, m)
  BY DEF Takes
<1> HIDE DEF e, z, m, x
<1>2. /\ z \in Nat /\ pos[e] = x + z /\ (x - x) + z <= pos[Len(acc)] - x
  <2>1. /\ z \in Nat /\ pos[e] = pos[e - 1] + z
        /\ (pos[e - 1] - pos[d]) + z <= pos[Len(acc)] - pos[d]
    BY <1>1, WholeWithin DEF z
  <2> QED BY <1>1, <2>1 DEF x
<1>3. z <= m /\ pos[e] \in Nat
  <2>1. x - x = 0
    BY <1>1
  <2> DEFINE y == pos[Len(acc)] - x
  <2>2. y \in Int /\ 0 + z <= y /\ y <= m
    BY <1>1, <1>2, <2>1
  <2> HIDE DEF y
  <2> QED BY <1>1, <1>2, <2>2
<1>4. s \in Seq(Octets) /\ IsLast(last) /\ acc \in Seq(Frames)
  BY DEF Parsed
<1>6. /\ t \in Seq(Octets) /\ Len(t) = m - z
      /\ \A i \in 1..(m - z) : t[i] = s[z + i]
  <2>1. \A i \in (z + 1)..m : s[i] \in Octets
    <3>1. \A i \in 1..m : s[i] \in Octets
      BY <1>4, ElementOfSeq DEF m
    <3> QED BY <1>1, <1>2, <3>1
  <2>2. z + 1 \in Int /\ m \in Int
    BY <1>1, <1>2
  <2>3. /\ SubSeq(s, z + 1, m) \in Seq(Octets)
        /\ Len(SubSeq(s, z + 1, m)) = IF z + 1 <= m THEN m - (z + 1) + 1 ELSE 0
        /\ \A i \in 1..(m - (z + 1) + 1) : SubSeq(s, z + 1, m)[i] = s[(z + 1) + i - 1]
    BY <2>1, <2>2, SubSeqProperties
  <2>4. /\ (IF z + 1 <= m THEN m - (z + 1) + 1 ELSE 0) = m - z
        /\ m - (z + 1) + 1 = m - z /\ \A i \in 1..(m - z) : (z + 1) + i - 1 = z + i
    BY <1>1, <1>2, <1>3
  <2> QED BY <1>0, <2>3, <2>4
<1>5. Len(t) = m - z
  BY <1>6
<1>7. ASSUME NEW q \in Nat, NEW w \in Nat, NEW f, BeginsAt(s, q + z, f, w), q + z + w <= m
      PROVE  BeginsAt(t, q, f, w)
  <2> SUFFICES ASSUME NEW j \in 1..w PROVE t[q + j] = <<f, j>>
    BY DEF BeginsAt
  <2>1. q + j \in 1..(m - z) /\ z + (q + j) = (q + z) + j
    BY <1>1, <1>2, <1>7
  <2>2. t[q + j] = s[(q + z) + j]
    BY <1>6, <2>1
  <2> QED BY <1>7, <2>2 DEF BeginsAt
<1>8. Ordered(e, acc, pos)
  <2>1. pos \in [Nat -> Nat] /\ \A k, l \in d..Len(acc) : k <= l => pos[k] <= pos[l]
    BY DEF Parsed, Ordered
  <2>2. \A k \in e..Len(acc) : k \in d..Len(acc)
    BY <1>1 DEF e
  <2> QED BY <2>1, <2>2 DEF Ordered
<1>9. ASSUME NEW k \in (e + 1)..Len(acc) PROVE WholeAt(t, e, acc, pos, k)
  <2> DEFINE w == Length[acc[k]]
             y == pos[k - 1]
             u == pos[Len(acc)]
  <2>1. k \in (d + 1)..Len(acc) /\ e \in e..Len(acc) /\ k - 1 \in e..Len(acc) /\ e <= k - 1
    BY <1>1 DEF e
  <2>2. /\ w \in Nat /\ y \in Nat /\ y - x \in Nat /\ pos[k] = y + w
        /\ (y - x) + w <= u - x /\ BeginsAt(s, y - x, acc[k], w)
    BY <2>1, WholeWithin DEF x
  <2>3. pos[e] <= y
    BY <1>8, <2>1 DEF Ordered
  <2>4. u \in Nat /\ u - x <= m
    BY <1>1
  <2> HIDE DEF w, y, u
  <2> DEFINE q == y - pos[e]
  <2>5. q \in Nat /\ q + z = y - x /\ q + z + w <= m
    BY <1>1, <1>2, <1>3, <2>2, <2>3, <2>4
  <2> HIDE DEF q
  <2>6. BeginsAt(t, q, acc[k], w)
    BY <1>7, <2>2, <2>5
  <2> QED BY <2>2, <2>6 DEF WholeAt, q, w, y
<1>10. PartAt(t, pos[Len(acc)] - pos[e], last)
  <2> DEFINE u == pos[Len(acc)]
             p == u - pos[e]
  <2> SUFFICES PartAt(t, p, last)
    OBVIOUS
  <2>1. u \in Nat /\ u - x <= m
    BY <1>1
  <2>2. pos[e] <= u
    <3>1. e \in e..Len(acc) /\ Len(acc) \in e..Len(acc)
      BY <1>1
    <3> QED BY <1>1, <1>8, <3>1 DEF Ordered
  <2> HIDE DEF u
  <2>3. p \in Nat /\ p + z = u - x
    BY <1>1, <1>2, <1>3, <2>1, <2>2
  <2>4. PartAt(s, u - x, last)
    BY DEF Parsed, u, x
  <2> HIDE DEF p
  <2>5. CASE Ended(last)
    <3>0. m = u - x
      BY <2>4, <2>5 DEF PartAt, m
    <3> DEFINE r == u - x
    <3>1. p + z = r /\ p \in Nat /\ m = r /\ z \in Nat
      BY <1>1, <1>2, <2>3, <3>0
    <3> HIDE DEF r
    <3>2. m - z = p
      BY <3>1
    <3>3. Len(t) = p
      BY <1>5, <3>2
    <3> QED BY <2>5, <3>3 DEF PartAt
  <2>6. CASE ~Ended(last)
    <3>1. last[2] \in Nat
      BY <1>4 DEF IsLast, Octets
    <3>2. m = (u - x) + last[2] /\ BeginsAt(s, u - x, last[1], last[2])
      BY <2>4, <2>6 DEF PartAt, m
    <3>3. Len(t) = p + last[2] /\ p + z + last[2] <= m
      <4> DEFINE w == last[2]
                 r == u - x
      <4>1. m = r + w /\ w \in Nat /\ p + z = r /\ z \in Nat /\ p \in Nat
        BY <1>2, <2>3, <3>1, <3>2
      <4> HIDE DEF w, r
      <4>2. m - z = p + w /\ p + z + w <= m
        BY <4>1
      <4> QED BY <1>5, <4>2 DEF w
    <3>4. BeginsAt(t, p, last[1], last[2])
      BY <1>7, <2>3, <3>1, <3>2, <3>3
    <3> QED BY <2>6, <3>3, <3>4 DEF PartAt
  <2> QED BY <2>5, <2>6
<1>11. Parsed(t, e, acc, last, pos)
  BY <1>1, <1>4, <1>6, <1>8, <1>9, <1>10 DEF Parsed
<1> QED BY <1>11 DEF e

(* recv() moves n bytes from the kernel's buffer w to those read, g: they   *)
(* become h, and r stays in the buffer.                                    *)
Moves(g, w, n, h, r) ==
  /\ g \in Seq(Octets) /\ w \in Seq(Octets) /\ n \in 1..Len(w)
  /\ h = g \o SubSeq(w, 1, n) /\ r = SubSeq(w, n + 1, Len(w))

(* The stream g \o w stays what it was, and h are its first bytes.         *)
LEMMA MovedAcross ==
  ASSUME NEW g, NEW w, NEW n, NEW h, NEW r, Moves(g, w, n, h, r)
  PROVE  /\ h \o r = g \o w /\ Len(h) = Len(g) + n /\ Len(g \o w) = Len(g) + Len(w)
         /\ \A j \in 1..Len(g) : h[j] = g[j]
         /\ \A j \in 1..Len(h) : h[j] = (g \o w)[j]
         /\ r = SubSeq(g \o w, Len(h) + 1, Len(g \o w))
         /\ h \in Seq(Octets) /\ r \in Seq(Octets)
<1> DEFINE a == SubSeq(w, 1, n)
<1>1. /\ Len(w) \in Nat /\ n \in Nat /\ n <= Len(w) /\ n >= 1 /\ Len(g) \in Nat
      /\ g \in Seq(Octets) /\ w \in Seq(Octets)
  BY LenProperties DEF Moves
<1>2. a \in Seq(Octets) /\ Len(a) = n /\ r \in Seq(Octets) /\ Len(r) = Len(w) - n
  BY TakeType DEF Octets, Moves
<1>3. a \o r = w
  <2>1. 1 \in 1..(Len(w) + 1) /\ n \in (1 - 1)..Len(w) /\ Len(w) \in n..Len(w)
    BY <1>1
  <2> QED BY <1>1, <2>1, ConcatAdjacentSubSeq, SubSeqFull DEF Moves
<1>4. h = g \o a
  BY DEF Moves
<1> HIDE DEF a
<1>5. /\ h \in Seq(Octets) /\ Len(h) = Len(g) + n
      /\ \A i \in 1..(Len(g) + n) : h[i] = IF i <= Len(g) THEN g[i] ELSE a[i - Len(g)]
  <2>1. g \in Seq(Octets) /\ a \in Seq(Octets)
    BY <1>1, <1>2
  <2>2. /\ g \o a \in Seq(Octets) /\ Len(g \o a) = Len(g) + Len(a)
        /\ \A i \in 1..(Len(g) + Len(a)) : (g \o a)[i] = IF i <= Len(g) THEN g[i] ELSE a[i - Len(g)]
    BY <2>1, ConcatProperties
  <2> QED BY <1>2, <1>4, <2>2, Zenon
<1>6. h \o r = g \o w
  <2>1. (g \o a) \o r = g \o (a \o r)
    <3>1. g \in Seq(Octets) /\ a \in Seq(Octets) /\ r \in Seq(Octets)
      BY <1>1, <1>2
    <3> QED BY <3>1, ConcatAssociative
  <2> QED BY <1>3, <1>4, <2>1, Zenon
<1>7. ASSUME NEW j \in 1..Len(g) PROVE h[j] = g[j]
  <2>1. j \in 1..(Len(g) + n) /\ j <= Len(g)
    BY <1>1
  <2> QED BY <1>5, <2>1
<1>8. /\ Len(h \o r) = Len(h) + Len(r)
      /\ \A i \in 1..(Len(h) + Len(r)) : (h \o r)[i] = IF i <= Len(h) THEN h[i] ELSE r[i - Len(h)]
  BY <1>2, <1>5, ConcatProperties
<1>9. Len(h) \in Nat /\ Len(r) \in Nat
  BY <1>2, <1>5, LenProperties
<1>10. ASSUME NEW j \in 1..Len(h) PROVE h[j] = (g \o w)[j]
  <2>1. j \in 1..(Len(h) + Len(r)) /\ j <= Len(h)
    BY <1>9
  <2> QED BY <1>6, <1>8, <2>1
<1>11. r = SubSeq(g \o w, Len(h) + 1, Len(g \o w))
  <2> DEFINE s == h \o r
             q == Len(h)
             k == Len(r)
             u == SubSeq(s, q + 1, q + k)
  <2>1. s \in Seq(Octets) /\ Len(s) = q + k
    BY <1>2, <1>5, <1>8, ConcatProperties
  <2>2. \A i \in 1..k : s[q + i] = r[i]
    <3> SUFFICES ASSUME NEW i \in 1..k PROVE s[q + i] = r[i]
      OBVIOUS
    <3>1. q + i \in 1..(q + k) /\ ~(q + i <= q) /\ (q + i) - q = i
      BY <1>9
    <3> QED BY <1>8, <3>1
  <2>3. q \in Nat /\ k \in Nat /\ r \in Seq(Octets) /\ Len(r) = k
    BY <1>2, <1>9
  <2> HIDE DEF s, q, k
  <2>4. \A i \in (q + 1)..(q + k) : s[i] \in Octets
    <3>1. \A i \in (q + 1)..(q + k) : i \in 1..Len(s)
      BY <2>1, <2>3
    <3> QED BY <2>1, <3>1, ElementOfSeq
  <2>5. q + 1 \in Int /\ q + k \in Int
    BY <2>3
  <2>6. /\ u \in Seq(Octets)
        /\ Len(u) = IF q + 1 <= q + k THEN (q + k) - (q + 1) + 1 ELSE 0
        /\ \A i \in 1..((q + k) - (q + 1) + 1) : u[i] = s[(q + 1) + i - 1]
    BY <2>4, <2>5, SubSeqProperties
  <2> HIDE DEF u
  <2>7. (q + k) - (q + 1) + 1 = k /\ (IF q + 1 <= q + k THEN (q + k) - (q + 1) + 1 ELSE 0) = k
    BY <2>3
  <2>8. \A i \in 1..k : u[i] = r[i]
    <3> SUFFICES ASSUME NEW i \in 1..k PROVE u[i] = r[i]
      OBVIOUS
    <3>1. (q + 1) + i - 1 = q + i
      BY <2>3
    <3>2. u[i] = s[(q + 1) + i - 1]
      BY <2>6, <2>7
    <3> QED BY <2>2, <3>1, <3>2
  <2>9. u = r
    BY <2>3, <2>6, <2>7, <2>8, SeqEqual
  <2>10. r = SubSeq(s, q + 1, Len(s))
    BY <2>1, <2>9 DEF u
  <2>11. s = g \o w
    BY <1>6 DEF s
  <2> QED BY <2>10, <2>11 DEF q
<1>12. Len(g \o w) = Len(g) + Len(w)
  BY <1>1, ConcatProperties
<1> QED BY <1>2, <1>5, <1>6, <1>7, <1>10, <1>11, <1>12

-----------------------------------------------------------------------------
(* Why the stream implements the channel.  The bytes received and those in *)
(* the kernel are one stream, and until it is torn it is made of the frames *)
(* accepted and not yet delivered, and of the part of one more.            *)
Stream == got \o wire

(* No two send()s are busy with the same frame, nor with a future one.     *)
Distinct ==
  \A v \in Writers :
    pc[v] = "send" =>
      /\ frame[v] < nextFrame
      /\ \A w \in Writers : v # w /\ pc[w] = "send" => frame[v] # frame[w]

(* A send() that has moved nothing of its frame has all of it to move.  For *)
(* any other the stream ends in the middle of its frame; either it ends     *)
(* where the send() goes on, and the send() has the rest of the frame, or   *)
(* nothing it moves can continue the stream.                               *)
Placed ==
  ~torn => \A w \in Writers :
    pc[w] = "send" =>
      IF base[w] + gone[w] = 0
      THEN left[w] = Length[frame[w]]
      ELSE /\ lastByte[1] = frame[w] /\ ~Ended(lastByte)
           /\ IF lastByte[2] = base[w] + gone[w]
              THEN base[w] + left[w] = Length[frame[w]]
              ELSE gone[w] = 0

(* What is read of a body goes on with the frame its header began.         *)
BodyOfFrame == Header <= Len(got) /\ Len(got) < final /\ final = Length[got[1][1]]

InFrames ==
  ~torn /\ reader # "stopped" =>
    /\ \E pos : Parsed(Stream, Len(delivered), accepted, lastByte, pos)
    /\ reader = "body" => BodyOfFrame

ChannelInv == Typed /\ IsLast(lastByte) /\ Distinct /\ Placed /\ InFrames

LEMMA InitChannel == Init => ChannelInv
<1> SUFFICES ASSUME Init PROVE ChannelInv
  OBVIOUS
<1>1. Typed
  BY InitTypeOK DEF Typed
<1>2. IsLast(lastByte) /\ Ended(lastByte)
  BY DEF Init, IsLast, Ended, NoByte, Byte, Octets
<1>3. Distinct /\ Placed
  BY DEF Init, Distinct, Placed
<1>4. Parsed(Stream, Len(delivered), accepted, lastByte, [k \in Nat |-> 0])
  <2> DEFINE pos == [k \in Nat |-> 0]
  <2>1. Stream = << >> /\ accepted = << >> /\ Len(delivered) = 0
    BY ConcatEmptySeq, EmptySeq DEF Init, Stream
  <2>2. Stream \in Seq(Octets) /\ accepted \in Seq(Frames) /\ Len(Stream) = 0 /\ Len(accepted) = 0
    BY <2>1, EmptySeq
  <2>3. pos \in [Nat -> Nat] /\ pos[0] = 0
    OBVIOUS
  <2>4. \A k, l \in 0..0 : pos[k] <= pos[l]
    BY <2>3
  <2> HIDE DEF pos
  <2>5. Ordered(0, accepted, pos)
    BY <2>2, <2>3, <2>4 DEF Ordered
  <2>6. PartAt(Stream, pos[0] - pos[0], lastByte)
    BY <1>2, <2>2, <2>3 DEF PartAt
  <2>7. Parsed(Stream, 0, accepted, lastByte, pos)
    BY <1>2, <2>2, <2>3, <2>5, <2>6 DEF Parsed
  <2> QED BY <2>1, <2>7 DEF pos
<1>5. InFrames
  BY <1>4 DEF Init, InFrames
<1> QED BY <1>1, <1>2, <1>3, <1>5 DEF ChannelInv

(* The facts about a send() of w that the next lemmas use.                 *)
LEMMA SendType ==
  ASSUME Typed, NEW w \in Writers, pc[w] = "send"
  PROVE  /\ frame[w] \in Frames /\ Length[frame[w]] \in Nat /\ Length[frame[w]] > 0
         /\ base[w] \in Nat /\ gone[w] \in Nat /\ left[w] \in Nat
         /\ gone[w] < left[w] /\ base[w] + left[w] <= Length[frame[w]]
<1>1. base[w] \in Nat /\ gone[w] \in Nat /\ left[w] \in Nat
  BY DEF Typed, TypeOK
<1>2. frame[w] \in Frames /\ gone[w] < left[w] /\ base[w] + left[w] <= Length[frame[w]]
  BY DEF Typed, Sending
<1>3. Length[frame[w]] \in Nat /\ Length[frame[w]] > Header /\ Header \in Nat
  BY <1>2, SizesAssumption
<1> QED BY <1>1, <1>2, <1>3

(* A send() that does not tear the stream puts its bytes where they belong. *)
LEMMA MovePuts ==
  ASSUME Typed, IsLast(lastByte), NEW w \in Writers, NEW n \in 1..WireCap, Move(w, n),
         n <= left[w] - gone[w]
  PROVE  /\ lastByte' = <<frame[w], base[w] + gone[w] + n>> /\ IsLast(lastByte')
         /\ gone' = [gone EXCEPT ![w] = gone[w] + n]
         /\ base[w] + gone[w] + n <= base[w] + left[w]
         /\ torn => torn'
         /\ ~torn' =>
              /\ Continues(lastByte, <<frame[w], base[w] + gone[w] + 1>>)
              /\ Puts(Stream, lastByte, frame[w], base[w] + gone[w], n, Stream')
<1> DEFINE f == frame[w]
           from == base[w] + gone[w]
           b == Bytes(f, from, n)
<1>1. TypeOK /\ Sending /\ pc[w] = "send"
  BY DEF Typed, Move
<1>2. /\ lastByte' = <<f, from + n>>
      /\ torn' = (torn \/ ~Continues(lastByte, <<f, from + 1>>))
      /\ gone' = [gone EXCEPT ![w] = gone[w] + n]
  BY <1>1, MoveType
<1>3. /\ f \in Frames /\ Length[f] \in Nat /\ base[w] \in Nat /\ gone[w] \in Nat
      /\ left[w] \in Nat /\ base[w] + left[w] <= Length[f]
  BY <1>1, SendType
<1>4. n \in Nat /\ n > 0 /\ from \in Nat
  BY <1>3, SizesAssumption
<1>5. from + n <= base[w] + left[w] /\ from + n \in 1..Length[f] /\ f \in Nat
  BY <1>3, <1>4 DEF Frames
<1>6. IsLast(lastByte')
  BY <1>2, <1>3, <1>5 DEF IsLast, Octets
<1>7. got' = got /\ wire' = wire \o b
  BY DEF Move, readerVars
<1>8. b \in Seq(Octets) /\ got \in Seq(Octets) /\ wire \in Seq(Octets)
  BY <1>1, <1>3, <1>4, BytesOctets DEF TypeOK, Octets
<1> HIDE DEF f, from, b
<1>9. got \o (wire \o b) = (got \o wire) \o b
  BY <1>8, ConcatAssociative
<1>10. Stream' = Stream \o b
  BY <1>7, <1>9 DEF Stream
<1>11. ~torn' => Continues(lastByte, <<f, from + 1>>)
  BY <1>2, Zenon
<1>12. torn => torn'
  BY <1>2, Zenon
<1>13. ~torn' => Puts(Stream, lastByte, f, from, n, Stream')
  BY <1>3, <1>4, <1>10, <1>11 DEF Puts, b
<1> QED BY <1>2, <1>5, <1>6, <1>11, <1>12, <1>13 DEF f, from

LEMMA NextDistinct == Typed /\ Distinct /\ [Next]_vars => Distinct'
<1> SUFFICES ASSUME Typed, Distinct, [Next]_vars PROVE Distinct'
  OBVIOUS
<1>0. /\ pc \in [Writers -> {"idle", "send"}] /\ frame \in [Writers -> Nat]
      /\ nextFrame \in Nat
  BY SizesAssumption DEF Typed, TypeOK
<1>1. ASSUME NEW w \in Writers, Write(w) PROVE Distinct'
  <2>1. /\ pc' = [pc EXCEPT ![w] = "send"] /\ frame' = [frame EXCEPT ![w] = nextFrame]
        /\ nextFrame' = nextFrame + 1
    BY <1>1 DEF Write
  <2> SUFFICES ASSUME NEW v \in Writers, pc'[v] = "send"
               PROVE  /\ frame'[v] < nextFrame'
                      /\ \A u \in Writers : v # u /\ pc'[u] = "send" => frame'[v] # frame'[u]
    BY DEF Distinct
  <2>2. \A u \in Writers : u # w => pc'[u] = pc[u] /\ frame'[u] = frame[u]
    BY <1>0, <2>1
  <2>3. frame'[w] = nextFrame
    BY <1>0, <2>1
  <2>4. \A u \in Writers : u # w /\ pc[u] = "send" => frame[u] < nextFrame /\ frame[u] \in Nat
    BY <1>0 DEF Distinct
  <2>5. frame'[v] < nextFrame'
    BY <1>0, <2>1, <2>2, <2>3, <2>4
  <2>6. ASSUME NEW u \in Writers, v # u, pc'[u] = "send" PROVE frame'[v] # frame'[u]
    <3>1. CASE v = w
      BY <1>0, <2>2, <2>3, <2>4, <2>6, <3>1
    <3>2. CASE u = w
      BY <1>0, <2>2, <2>3, <2>4, <2>6, <3>2
    <3>3. CASE v # w /\ u # w
      BY <2>2, <2>6, <3>3 DEF Distinct
    <3> QED BY <3>1, <3>2, <3>3
  <2> QED BY <2>5, <2>6
<1>2. ASSUME /\ frame' = frame /\ nextFrame' = nextFrame
             /\ \A v \in Writers : pc'[v] = "send" => pc[v] = "send"
      PROVE  Distinct'
  BY <1>2 DEF Distinct
<1>3. ASSUME NEW w \in Writers, NEW n \in 1..WireCap, MoveSome(w, n) \/ MoveLast(w, n)
      PROVE  Distinct'
  BY <1>0, <1>2, <1>3 DEF MoveSome, MoveLast, Move, Return
<1>4. ASSUME NEW w \in Writers, ShortSend(w) \/ InterruptedSend(w) \/ FailedSend(w)
      PROVE  Distinct'
  BY <1>0, <1>2, <1>4 DEF ShortSend, InterruptedSend, FailedSend, Return
<1>5. CASE WriterCloses \/ ReaderStep \/ UNCHANGED vars
  <2>1. UNCHANGED writerVars
    BY <1>5 DEF WriterCloses, ReaderStep, Recv, RecvHeader, RecvBody, EmptyBody, EndOfStream,
                InterruptedRecv, Stop, vars
  <2> QED BY <1>2, <2>1 DEF writerVars
<1> QED BY <1>1, <1>3, <1>4, <1>5 DEF Next, WriterStep, Over

(* Where a move of w leaves the stream, and every other send().            *)
LEMMA MovePlaced ==
  ASSUME Typed, IsLast(lastByte), Distinct, Placed, NEW w \in Writers, NEW n \in 1..WireCap,
         Move(w, n), n <= left[w] - gone[w], ~torn'
  PROVE  /\ ~torn /\ base[w] + left[w] = Length[frame[w]]
         /\ \A v \in Writers : v # w /\ pc[v] = "send" =>
              base[v] + gone[v] = 0 /\ left[v] = Length[frame[v]]
<1> DEFINE f == frame[w]
           from == base[w] + gone[w]
<1>1. /\ pc[w] = "send" /\ base[w] \in Nat /\ gone[w] \in Nat /\ left[w] \in Nat
  BY SendType DEF Move
<1>2. ~torn
  BY MovePuts, Zenon
<1>3. \A v \in Writers : pc[v] = "send" =>
        IF base[v] + gone[v] = 0
        THEN left[v] = Length[frame[v]]
        ELSE /\ lastByte[1] = frame[v] /\ ~Ended(lastByte)
             /\ IF lastByte[2] = base[v] + gone[v]
                THEN base[v] + left[v] = Length[frame[v]]
                ELSE gone[v] = 0
  BY <1>2 DEF Placed
<1>4. Continues(lastByte, <<f, from + 1>>)
  BY MovePuts, Zenon
<1>5. from \in Nat
  BY <1>1
<1> HIDE DEF from
<1>6. \/ Ended(lastByte) /\ from = 0
      \/ ~Ended(lastByte) /\ lastByte = <<f, from>> /\ from > 0
  BY <1>4, <1>5, ContinuesLast
<1>7. base[w] + left[w] = Length[f]
  <2>1. CASE Ended(lastByte) /\ from = 0
    <3>1. left[w] = Length[f] /\ base[w] = 0
      BY <1>1, <1>3, <2>1 DEF from
    <3> QED BY <1>1, <3>1
  <2>2. CASE ~Ended(lastByte) /\ lastByte = <<f, from>> /\ from > 0
    <3>1. lastByte[2] = from /\ from # 0
      BY <1>5, <2>2
    <3> QED BY <1>1, <1>3, <3>1 DEF from
  <2> QED BY <1>6, <2>1, <2>2
<1>8. ASSUME NEW v \in Writers, v # w, pc[v] = "send"
      PROVE  base[v] + gone[v] = 0 /\ left[v] = Length[frame[v]]
  <2>1. frame[v] # f
    BY <1>1, <1>8 DEF Distinct
  <2>2. lastByte[1] = frame[v] => Ended(lastByte)
    <3>1. lastByte = <<f, from>> => lastByte[1] = f
      OBVIOUS
    <3> QED BY <1>6, <2>1, <3>1
  <2> QED BY <1>3, <1>8, <2>2
<1> QED BY <1>2, <1>7, <1>8

LEMMA NextPlaced ==
  Typed /\ IsLast(lastByte) /\ Distinct /\ Placed /\ [Next]_vars => IsLast(lastByte)' /\ Placed'
<1> SUFFICES ASSUME Typed, IsLast(lastByte), Distinct, Placed, [Next]_vars
             PROVE  IsLast(lastByte)' /\ Placed'
  OBVIOUS
<1>0. /\ pc \in [Writers -> {"idle", "send"}] /\ frame \in [Writers -> Nat]
      /\ base \in [Writers -> Nat] /\ gone \in [Writers -> Nat] /\ left \in [Writers -> Nat]
  BY DEF Typed, TypeOK
<1>1. ASSUME NEW w \in Writers, Write(w) PROVE IsLast(lastByte)' /\ Placed'
  <2>1. /\ pc' = [pc EXCEPT ![w] = "send"] /\ frame' = [frame EXCEPT ![w] = nextFrame]
        /\ base' = [base EXCEPT ![w] = 0] /\ gone' = [gone EXCEPT ![w] = 0]
        /\ left' = [left EXCEPT ![w] = Length[nextFrame]]
        /\ lastByte' = lastByte /\ torn' = torn
    BY <1>1 DEF Write
  <2>2. \A v \in Writers : v # w =>
          /\ pc'[v] = pc[v] /\ frame'[v] = frame[v] /\ base'[v] = base[v]
          /\ gone'[v] = gone[v] /\ left'[v] = left[v]
    BY <1>0, <2>1
  <2>3. base'[w] + gone'[w] = 0 /\ left'[w] = Length[frame'[w]]
    BY <1>0, <2>1
  <2> QED BY <2>1, <2>2, <2>3 DEF Placed
<1>2. ASSUME NEW w \in Writers, NEW n \in 1..WireCap, Move(w, n), n <= left[w] - gone[w],
             n = left[w] - gone[w] => pc'[w] # "send",
             \A v \in Writers : v # w => pc'[v] = pc[v]
      PROVE  IsLast(lastByte)' /\ Placed'
  <2>1. IsLast(lastByte)'
    BY <1>2, MovePuts
  <2> SUFFICES ASSUME ~torn', NEW v \in Writers, pc'[v] = "send"
               PROVE  IF base'[v] + gone'[v] = 0
                      THEN left'[v] = Length[frame'[v]]
                      ELSE /\ lastByte'[1] = frame'[v] /\ ~Ended(lastByte')
                           /\ IF lastByte'[2] = base'[v] + gone'[v]
                              THEN base'[v] + left'[v] = Length[frame'[v]]
                              ELSE gone'[v] = 0
    BY <2>1 DEF Placed
  <2>2. UNCHANGED <<frame, base, left>>
    BY <1>2 DEF Move
  <2>3. /\ base[w] + left[w] = Length[frame[w]]
        /\ \A u \in Writers : u # w /\ pc[u] = "send" =>
              base[u] + gone[u] = 0 /\ left[u] = Length[frame[u]]
    BY <1>2, MovePlaced, Zenon
  <2>4. /\ gone' = [gone EXCEPT ![w] = gone[w] + n]
        /\ lastByte' = <<frame[w], base[w] + gone[w] + n>>
    BY <1>2, MovePuts
  <2>5. CASE v # w
    BY <1>0, <1>2, <2>2, <2>3, <2>4, <2>5
  <2>6. CASE v = w
    <3>0. pc[w] = "send"
      BY <1>2 DEF Move
    <3>1. /\ base[w] \in Nat /\ gone[w] \in Nat /\ left[w] \in Nat /\ n \in Nat /\ n > 0
          /\ frame[w] \in Frames /\ Length[frame[w]] \in Nat /\ gone[w] < left[w]
      BY <3>0, SendType, SizesAssumption
    <3>2. gone'[w] = gone[w] + n
      BY <1>0, <2>4
    <3>3. lastByte'[1] = frame[w] /\ lastByte'[2] = base[w] + gone'[w]
      BY <2>4, <3>1, <3>2
    <3>4. n < left[w] - gone[w]
      BY <1>2, <2>6, <3>1
    <3>5. lastByte'[2] # Length[frame[w]] /\ base[w] + gone'[w] # 0
      BY <2>3, <3>1, <3>2, <3>3, <3>4
    <3>6. lastByte' # NoByte
      BY <3>1, <3>3 DEF NoByte, Byte, Frames
    <3>7. ~Ended(lastByte')
      BY <3>3, <3>5, <3>6 DEF Ended
    <3> QED BY <2>2, <2>3, <2>6, <3>3, <3>5, <3>7
  <2> QED BY <2>5, <2>6
<1>3. ASSUME NEW w \in Writers, NEW n \in 1..WireCap, MoveSome(w, n)
      PROVE  IsLast(lastByte)' /\ Placed'
  <2>1. Move(w, n) /\ n < left[w] - gone[w] /\ pc' = pc
    BY <1>3 DEF MoveSome
  <2>2. left[w] \in Nat /\ gone[w] \in Nat /\ n \in Nat
    BY <1>0, SizesAssumption
  <2> QED BY <1>2, <2>1, <2>2
<1>4. ASSUME NEW w \in Writers, NEW n \in 1..WireCap, MoveLast(w, n)
      PROVE  IsLast(lastByte)' /\ Placed'
  <2>1. Move(w, n) /\ n = left[w] - gone[w] /\ pc' = [pc EXCEPT ![w] = "idle"]
    BY <1>4 DEF MoveLast, Return
  <2>2. left[w] \in Nat /\ gone[w] \in Nat /\ n \in Nat
    BY <1>0, SizesAssumption
  <2>3. pc'[w] # "send" /\ \A v \in Writers : v # w => pc'[v] = pc[v]
    BY <1>0, <2>1
  <2> QED BY <1>2, <2>1, <2>2, <2>3
<1>5. ASSUME NEW w \in Writers, ShortSend(w) PROVE IsLast(lastByte)' /\ Placed'
  <2>1. /\ left' = [left EXCEPT ![w] = left[w] - gone[w]]
        /\ base' = [base EXCEPT ![w] = gone[w]] /\ gone' = [gone EXCEPT ![w] = 0]
        /\ gone[w] > 0 /\ pc[w] = "send"
        /\ UNCHANGED <<pc, frame, lastByte, torn>>
    BY <1>5 DEF ShortSend
  <2>2. base[w] \in Nat /\ gone[w] \in Nat /\ left[w] \in Nat /\ Length[frame[w]] \in Nat
    BY <2>1, SendType
  <2>3. \A v \in Writers : v # w =>
          base'[v] = base[v] /\ gone'[v] = gone[v] /\ left'[v] = left[v]
    BY <1>0, <2>1
  <2>4. base'[w] = gone[w] /\ gone'[w] = 0 /\ left'[w] = left[w] - gone[w]
    BY <1>0, <2>1
  <2>5. ASSUME ~torn
        PROVE  /\ base'[w] + gone'[w] # 0 /\ lastByte[1] = frame[w] /\ ~Ended(lastByte)
               /\ lastByte[2] = base'[w] + gone'[w] => base'[w] + left'[w] = Length[frame[w]]
    <3>1. base[w] + gone[w] # 0 /\ base'[w] + gone'[w] = gone[w] /\ gone[w] # 0
      BY <2>1, <2>2, <2>4
    <3>2. /\ lastByte[1] = frame[w] /\ ~Ended(lastByte)
          /\ lastByte[2] = base[w] + gone[w] /\ base[w] + left[w] = Length[frame[w]]
      BY <2>1, <2>5, <3>1 DEF Placed
    <3> QED BY <2>2, <2>4, <3>1, <3>2
  <2> QED BY <2>1, <2>3, <2>4, <2>5 DEF Placed
<1>6. ASSUME NEW w \in Writers, InterruptedSend(w) \/ FailedSend(w)
      PROVE  IsLast(lastByte)' /\ Placed'
  <2>1. pc' = [pc EXCEPT ![w] = "idle"] /\ UNCHANGED <<frame, base, gone, left, lastByte, torn>>
    BY <1>6 DEF InterruptedSend, FailedSend, Return, historyVars
  <2>2. \A v \in Writers : pc'[v] = "send" => pc[v] = "send"
    BY <1>0, <2>1
  <2> QED BY <2>1, <2>2 DEF Placed
<1>7. CASE WriterCloses \/ ReaderStep \/ UNCHANGED vars
  <2>1. UNCHANGED <<writerVars, historyVars>>
    BY <1>7 DEF WriterCloses, ReaderStep, Recv, RecvHeader, RecvBody, EmptyBody, EndOfStream,
                InterruptedRecv, Stop, vars
  <2>2. UNCHANGED <<pc, frame, base, gone, left, lastByte, torn>>
    BY <2>1 DEF writerVars, historyVars
  <2> QED BY <2>2 DEF Placed
<1> QED BY <1>1, <1>3, <1>4, <1>5, <1>6, <1>7 DEF Next, WriterStep, Over

LEMMA MoveInFrames ==
  ASSUME ChannelInv, NEW w \in Writers, NEW n \in 1..WireCap, MoveSome(w, n) \/ MoveLast(w, n)
  PROVE  InFrames'
<1> SUFFICES ASSUME ~torn', reader' # "stopped"
             PROVE  /\ \E q : Parsed(Stream', Len(delivered'), accepted', lastByte', q)
                    /\ reader' = "body" => BodyOfFrame'
  BY DEF InFrames
<1> DEFINE f == frame[w]
           from == base[w] + gone[w]
<1>1. Typed /\ IsLast(lastByte) /\ Distinct /\ Placed /\ InFrames
  BY DEF ChannelInv
<1>2. Move(w, n) /\ pc[w] = "send" /\ reader' = reader /\ delivered' = delivered
      /\ UNCHANGED <<got, final>>
  BY DEF MoveSome, MoveLast, Move, readerVars
<1>3. /\ Length[f] \in Nat /\ base[w] \in Nat /\ gone[w] \in Nat /\ left[w] \in Nat /\ n \in Nat
  BY <1>1, <1>2, SendType, SizesAssumption
<1>4. n <= left[w] - gone[w]
  BY <1>3 DEF MoveSome, MoveLast
<1>5. ~torn /\ base[w] + left[w] = Length[f]
  BY <1>1, <1>2, <1>4, MovePlaced, Zenon
<1>6. lastByte' = <<f, from + n>> /\ Puts(Stream, lastByte, f, from, n, Stream')
  BY <1>1, <1>2, <1>4, MovePuts, Zenon
<1>7. PICK pos : Parsed(Stream, Len(delivered), accepted, lastByte, pos)
  BY <1>1, <1>2, <1>5 DEF InFrames
<1>8. reader' = "body" => BodyOfFrame'
  BY <1>1, <1>2, <1>5 DEF InFrames, BodyOfFrame
<1> HIDE DEF f
<1>9. CASE MoveSome(w, n)
  <2>1. accepted' = accepted /\ n < left[w] - gone[w]
    BY <1>9 DEF MoveSome
  <2>2. from + n < Length[f]
    BY <1>3, <1>5, <2>1
  <2> HIDE DEF from
  <2>3. Parsed(Stream', Len(delivered), accepted, <<f, from + n>>, pos)
    BY <1>6, <1>7, <2>2, PartComes
  <2>4. Parsed(Stream', Len(delivered'), accepted', lastByte', pos)
    BY <1>2, <1>6, <2>1, <2>3, Zenon
  <2> QED BY <1>8, <2>4
<1>10. CASE MoveLast(w, n)
  <2>1. accepted' = Append(accepted, f) /\ n = left[w] - gone[w]
    BY <1>10 DEF MoveLast, f
  <2>2. from + n = Length[f]
    BY <1>3, <1>5, <2>1
  <2> HIDE DEF from
  <2>3. \E q : Parsed(Stream', Len(delivered), Append(accepted, f), <<f, from + n>>, q)
    BY <1>6, <1>7, <2>2, RestComes
  <2>4. \E q : Parsed(Stream', Len(delivered'), accepted', lastByte', q)
    BY <1>2, <1>6, <2>1, <2>3, Zenon
  <2> QED BY <1>8, <2>4
<1> QED BY <1>9, <1>10

(* What recv() does to the stream.                                         *)
LEMMA RecvMoves ==
  ASSUME TypeOK, NEW n \in 1..Len(wire)
  PROVE  LET h == got \o SubSeq(wire, 1, n)
             r == SubSeq(wire, n + 1, Len(wire))
         IN  /\ h \o r = Stream /\ Len(h) = Len(got) + n /\ Len(got) \in Nat
             /\ Len(Stream) = Len(got) + Len(wire)
             /\ \A j \in 1..Len(got) : h[j] = got[j]
             /\ \A j \in 1..Len(h) : h[j] = Stream[j]
             /\ r = SubSeq(Stream, Len(h) + 1, Len(Stream))
             /\ h \in Seq(Octets) /\ r \in Seq(Octets)
<1> DEFINE h == got \o SubSeq(wire, 1, n)
           r == SubSeq(wire, n + 1, Len(wire))
<1>1. Moves(got, wire, n, h, r) /\ got \in Seq(Octets)
  BY DEF Moves, TypeOK, Octets
<1>2. Len(got) \in Nat
  BY <1>1, LenProperties
<1> HIDE DEF h, r
<1>3. /\ h \o r = got \o wire /\ Len(h) = Len(got) + n /\ Len(got \o wire) = Len(got) + Len(wire)
      /\ \A j \in 1..Len(got) : h[j] = got[j]
      /\ \A j \in 1..Len(h) : h[j] = (got \o wire)[j]
      /\ r = SubSeq(got \o wire, Len(h) + 1, Len(got \o wire))
      /\ h \in Seq(Octets) /\ r \in Seq(Octets)
  BY <1>1, MovedAcross
<1>4. /\ h \o r = Stream /\ Len(h) = Len(got) + n /\ Len(Stream) = Len(got) + Len(wire)
      /\ \A j \in 1..Len(got) : h[j] = got[j]
      /\ \A j \in 1..Len(h) : h[j] = Stream[j]
      /\ r = SubSeq(Stream, Len(h) + 1, Len(Stream))
      /\ h \in Seq(Octets) /\ r \in Seq(Octets)
  BY <1>3 DEF Stream
<1> QED BY <1>2, <1>4 DEF h, r

(* The first bytes of a frame, and only they, are what they say.           *)
LEMMA FromStart ==
  ASSUME NEW f \in Frames, NEW n \in Nat
  PROVE  /\ Bytes(f, 0, n) \in Seq(Octets) /\ Len(Bytes(f, 0, n)) = n
         /\ \A j \in 1..n : Bytes(f, 0, n)[j] = <<f, j>>
<1>1. /\ Bytes(f, 0, n) \in Seq(Octets) /\ Len(Bytes(f, 0, n)) = n
      /\ \A j \in 1..n : Bytes(f, 0, n)[j] = <<f, 0 + j>>
  <2>1. 0 \in Nat
    OBVIOUS
  <2> QED BY <2>1, BytesOctets
<1>2. \A j \in 1..n : 0 + j = j
  OBVIOUS
<1> QED BY <1>1, <1>2

LEMMA OnlyFromStart ==
  ASSUME NEW h, h \in Seq(Octets), NEW f \in Frames, NEW n, n \in Nat \ {0}, Len(h) = n,
         \A j \in 1..n : h[j] = <<f, j>>
  PROVE  /\ h = Bytes(f, 0, n)
         /\ \A g \in Frames : h = Bytes(g, 0, n) => g = f
<1>1. h = Bytes(f, 0, n)
  <2> DEFINE b == Bytes(f, 0, n)
  <2>1. b \in Seq(Octets) /\ Len(b) = n /\ \A j \in 1..n : b[j] = <<f, j>>
    BY FromStart
  <2> HIDE DEF b
  <2>2. Len(h) = Len(b) /\ \A j \in 1..Len(h) : h[j] = b[j]
    BY <2>1
  <2>3. h = b
    BY <2>1, <2>2, SeqEqual
  <2> QED BY <2>3 DEF b
<1>2. ASSUME NEW g \in Frames, h = Bytes(g, 0, n) PROVE g = f
  <2>1. \A j \in 1..n : Bytes(g, 0, n)[j] = <<g, j>>
    BY FromStart
  <2>2. 1 \in 1..n
    OBVIOUS
  <2>3. h[1] = <<g, 1>> /\ h[1] = <<f, 1>>
    BY <1>2, <2>1, <2>2
  <2> QED BY <2>3
<1> QED BY <1>1, <1>2

(* A whole header says the size of the frame it begins,                    *)
LEMMA HeaderSays ==
  ASSUME NEW h, h \in Seq(Octets), NEW f \in Frames, Len(h) = Header,
         \A j \in 1..Header : h[j] = <<f, j>>
  PROVE  FinalSizes(h) = {Length[f]}
<1> DEFINE whole == {g \in Frames : h = Bytes(g, 0, Header)}
<1>1. Header \in Nat \ {0}
  BY SizesAssumption
<1>2. h = Bytes(f, 0, Header) /\ \A g \in Frames : h = Bytes(g, 0, Header) => g = f
  BY <1>1, OnlyFromStart
<1>3. whole = {f}
  BY <1>2
<1> HIDE DEF whole
<1>4. whole # {} /\ {Length[g] : g \in whole} = {Length[f]}
  BY <1>3
<1> QED BY <1>4 DEF FinalSizes, whole

(* and a whole frame is decoded to what it is.                             *)
LEMMA FrameDecoded ==
  ASSUME NEW h, h \in Seq(Octets), NEW f \in Frames, Len(h) = Length[f],
         \A j \in 1..Length[f] : h[j] = <<f, j>>
  PROVE  Decoded(h) = f
<1>1. Length[f] \in Nat \ {0}
  BY SizesAssumption
<1>2. h = Bytes(f, 0, Length[f])
  BY <1>1, OnlyFromStart
<1>3. ASSUME NEW g \in Frames, h = WholeFrame(g) PROVE g = f
  <2>1. 1 \in 1..Length[g] /\ Length[g] \in Nat /\ 1 \in 1..Length[f]
    BY <1>1, SizesAssumption
  <2>2. Bytes(g, 0, Length[g])[1] = <<g, 1>>
    BY <2>1, FromStart
  <2>3. h[1] = <<g, 1>> /\ h[1] = <<f, 1>>
    BY <1>3, <2>1, <2>2 DEF WholeFrame
  <2> QED BY <2>3
<1> QED BY <1>2, <1>3 DEF Decoded, WholeFrame

(* The first byte of a stream that is not torn is the first of a frame.    *)
LEMMA FirstInFrames ==
  ASSUME ChannelInv, ~torn, reader # "stopped", Len(Stream) > 0
  PROVE  \E pos : \E f \in Frames :
           /\ Parsed(Stream, Len(delivered), accepted, lastByte, pos)
           /\ Stream[1] = <<f, 1>>
           /\ \A j \in 1..Len(Stream) : j <= Length[f] => Stream[j] = <<f, j>>
           /\ Length[f] <= Len(Stream) =>
                Len(delivered) < Len(accepted) /\ accepted[Len(delivered) + 1] = f
<1>1. PICK pos : Parsed(Stream, Len(delivered), accepted, lastByte, pos)
  BY DEF ChannelInv, InFrames
<1>2. \E f \in Frames :
        /\ Stream[1] = <<f, 1>>
        /\ \A j \in 1..Len(Stream) : j <= Length[f] => Stream[j] = <<f, j>>
        /\ Length[f] <= Len(Stream) =>
             Len(delivered) < Len(accepted) /\ accepted[Len(delivered) + 1] = f
  BY <1>1, FirstFrame
<1> QED BY <1>1, <1>2

LEMMA HeaderInFrames ==
  ASSUME ChannelInv, ~torn, RecvHeader
  PROVE  BodyOfFrame' /\ Stream' = Stream
<1> DEFINE n == Header - Len(got)
           h == got \o SubSeq(wire, 1, n)
           r == SubSeq(wire, n + 1, Len(wire))
<1>1. TypeOK /\ Reading
  BY DEF ChannelInv, Typed
<1>2. /\ reader = "header" /\ n <= Len(wire) /\ got' = h /\ wire' = r
      /\ final' \in FinalSizes(got')
  BY DEF RecvHeader
<1>3. Len(got) \in Nat /\ Len(wire) \in Nat /\ Header \in Nat /\ Header > 0
  BY <1>1, LenProperties, SizesAssumption DEF TypeOK
<1>4. n \in 1..Len(wire) /\ Len(got) + n = Header
  BY <1>1, <1>2, <1>3 DEF Reading
<1> HIDE DEF n
<1>5. /\ h \o r = Stream /\ Len(h) = Len(got) + n /\ Len(Stream) = Len(got) + Len(wire)
      /\ \A j \in 1..Len(h) : h[j] = Stream[j]
      /\ h \in Seq(Octets)
  BY <1>1, <1>4, RecvMoves
<1> HIDE DEF h, r
<1>6. Len(h) = Header /\ Header <= Len(Stream) /\ Len(Stream) \in Nat /\ Len(Stream) > 0
  BY <1>3, <1>4, <1>5
<1>7. PICK f \in Frames : \A j \in 1..Len(Stream) : j <= Length[f] => Stream[j] = <<f, j>>
  BY <1>2, <1>6, FirstInFrames
<1>8. Length[f] \in Nat /\ Length[f] > Header
  BY SizesAssumption
<1>9. \A j \in 1..Header : h[j] = <<f, j>>
  <2>1. \A j \in 1..Header : j \in 1..Len(Stream) /\ j <= Length[f] /\ j \in 1..Len(h)
    BY <1>3, <1>6, <1>8
  <2> QED BY <1>5, <1>7, <2>1
<1>10. FinalSizes(h) = {Length[f]}
  BY <1>5, <1>6, <1>9, HeaderSays
<1>11. final' = Length[f] /\ got' = h
  BY <1>2, <1>10
<1>12. h[1] = <<f, 1>> /\ h[1][1] = f
  <2>1. 1 \in 1..Header
    BY <1>3
  <2> QED BY <1>9, <2>1
<1>13. BodyOfFrame'
  BY <1>3, <1>6, <1>8, <1>11, <1>12 DEF BodyOfFrame
<1>14. Stream' = h \o r
  BY <1>2 DEF Stream
<1> QED BY <1>5, <1>13, <1>14

(* A message handled before the stream is torn is the oldest frame that is *)
(* accepted and not delivered.                                             *)
LEMMA BodyInFrames ==
  ASSUME ChannelInv, ~torn, RecvBody
  PROVE  /\ Len(delivered) < Len(accepted)
         /\ delivered' = Append(delivered, accepted[Len(delivered) + 1])
         /\ \E pos : Parsed(Stream', Len(delivered) + 1, accepted, lastByte, pos)
<1> DEFINE n == final - Len(got)
           h == got \o SubSeq(wire, 1, n)
           r == SubSeq(wire, n + 1, Len(wire))
<1>1. TypeOK
  BY DEF ChannelInv, Typed
<1>2. /\ reader = "body" /\ n > 0 /\ n <= Len(wire) /\ wire' = r /\ got' = << >>
      /\ delivered' = Append(delivered, Decoded(h))
  BY DEF RecvBody
<1>3. Len(got) \in Nat /\ Len(wire) \in Nat /\ Header \in Nat /\ Header > 0 /\ final \in Nat
  BY <1>1, LenProperties, SizesAssumption DEF TypeOK
<1>4. n \in 1..Len(wire) /\ Len(got) + n = final
  BY <1>2, <1>3
<1> HIDE DEF n
<1>5. /\ Len(h) = Len(got) + n /\ Len(Stream) = Len(got) + Len(wire)
      /\ \A j \in 1..Len(got) : h[j] = got[j]
      /\ \A j \in 1..Len(h) : h[j] = Stream[j]
      /\ r = SubSeq(Stream, Len(h) + 1, Len(Stream))
      /\ h \in Seq(Octets) /\ r \in Seq(Octets)
  BY <1>1, <1>4, RecvMoves
<1> HIDE DEF h, r
<1>6. Len(h) = final /\ final <= Len(Stream) /\ Len(Stream) \in Nat /\ Len(Stream) > 0
  BY <1>3, <1>4, <1>5
<1>7. PICK pos :
        \E g \in Frames :
          /\ Parsed(Stream, Len(delivered), accepted, lastByte, pos)
          /\ Stream[1] = <<g, 1>>
          /\ \A j \in 1..Len(Stream) : j <= Length[g] => Stream[j] = <<g, j>>
          /\ Length[g] <= Len(Stream) =>
               Len(delivered) < Len(accepted) /\ accepted[Len(delivered) + 1] = g
  BY <1>2, <1>6, FirstInFrames
<1>8. PICK f \in Frames :
        /\ Parsed(Stream, Len(delivered), accepted, lastByte, pos)
        /\ Stream[1] = <<f, 1>>
        /\ \A j \in 1..Len(Stream) : j <= Length[f] => Stream[j] = <<f, j>>
        /\ Length[f] <= Len(Stream) =>
             Len(delivered) < Len(accepted) /\ accepted[Len(delivered) + 1] = f
  BY <1>7
<1>9. final = Length[got[1][1]] /\ Header <= Len(got)
  BY <1>2 DEF ChannelInv, InFrames, BodyOfFrame
<1>10. got[1] = <<f, 1>>
  <2>1. 1 \in 1..Len(got) /\ 1 \in 1..Len(h)
    BY <1>3, <1>4, <1>5, <1>9
  <2> QED BY <1>5, <1>8, <2>1
<1>11. final = Length[f]
  <2>1. got[1][1] = f
    BY <1>10
  <2> QED BY <1>9, <2>1
<1>12. Decoded(h) = f
  <2>1. \A j \in 1..Length[f] : j \in 1..Len(Stream) /\ j <= Length[f] /\ j \in 1..Len(h)
    BY <1>3, <1>6, <1>11
  <2>2. \A j \in 1..Length[f] : h[j] = <<f, j>>
    BY <1>5, <1>8, <2>1
  <2>3. Len(h) = Length[f]
    BY <1>6, <1>11
  <2> QED BY <1>5, <2>2, <2>3, FrameDecoded
<1>13. Len(delivered) < Len(accepted) /\ accepted[Len(delivered) + 1] = f
  BY <1>6, <1>8, <1>11
<1>14. Stream' = SubSeq(Stream, Length[f] + 1, Len(Stream))
  <2>1. Stream' = << >> \o r
    BY <1>2 DEF Stream
  <2>2. << >> \o r = r
    BY <1>5, ConcatEmptySeq
  <2>3. Len(h) = Length[f]
    BY <1>6, <1>11
  <2> QED BY <1>5, <2>1, <2>2, <2>3
<1>15. Takes(Stream, Len(delivered), accepted, Stream')
  BY <1>13, <1>14 DEF Takes
<1>16. Parsed(Stream', Len(delivered) + 1, accepted, lastByte, pos)
  BY <1>8, <1>15, FirstTaken
<1>17. delivered' = Append(delivered, accepted[Len(delivered) + 1])
  BY <1>2, <1>12, <1>13
<1> QED BY <1>13, <1>16, <1>17

LEMMA NextInFrames == ChannelInv /\ [Next]_vars => InFrames'
<1> SUFFICES ASSUME ChannelInv, [Next]_vars PROVE InFrames'
  OBVIOUS
<1>0. TypeOK /\ InFrames
  BY DEF ChannelInv, Typed
<1>1. ASSUME NEW w \in Writers, NEW n \in 1..WireCap, MoveSome(w, n) \/ MoveLast(w, n)
      PROVE  InFrames'
  BY <1>1, MoveInFrames
<1>2. ASSUME UNCHANGED <<wire, readerVars, historyVars>> PROVE InFrames'
  <2>1. UNCHANGED <<torn, reader, wire, got, final, delivered, accepted, lastByte>>
    BY <1>2 DEF readerVars, historyVars
  <2> QED BY <1>0, <2>1 DEF InFrames, BodyOfFrame, Stream
<1>3. ASSUME UNCHANGED <<wire, readerVars, accepted, lastByte, torn>> PROVE InFrames'
  <2>1. UNCHANGED <<reader, got, final, delivered>>
    BY <1>3 DEF readerVars
  <2> QED BY <1>0, <1>3, <2>1 DEF InFrames, BodyOfFrame, Stream
<1>4. ASSUME NEW w \in Writers,
             Write(w) \/ ShortSend(w) \/ InterruptedSend(w) \/ FailedSend(w)
      PROVE  InFrames'
  BY <1>3, <1>4 DEF Write, ShortSend, InterruptedSend, FailedSend, historyVars
<1>5. CASE WriterCloses \/ UNCHANGED vars
  BY <1>2, <1>5 DEF WriterCloses, vars
<1>6. ASSUME NEW n \in 1..WireCap, Recv(n) PROVE InFrames'
  <2> DEFINE h == got \o SubSeq(wire, 1, n)
             r == SubSeq(wire, n + 1, Len(wire))
  <2>1. /\ reader \in {"header", "body"} /\ n \in 1..Len(wire) /\ Len(got) + n < Target
        /\ got' = h /\ wire' = r
        /\ UNCHANGED <<reader, final, delivered, torn, accepted, lastByte>>
    BY <1>0, <1>6, SizesAssumption DEF Recv, historyVars, TypeOK
  <2>2. /\ h \o r = Stream /\ Len(h) = Len(got) + n /\ Len(got) \in Nat
        /\ \A j \in 1..Len(got) : h[j] = got[j]
    BY <1>0, <2>1, RecvMoves
  <2> HIDE DEF h, r
  <2>3. Stream' = Stream
    BY <2>1, <2>2 DEF Stream
  <2>4. ASSUME reader = "body", BodyOfFrame PROVE BodyOfFrame'
    <3>1. 1 \in 1..Len(got) /\ n \in Nat
      BY <2>1, <2>2, <2>4, SizesAssumption DEF BodyOfFrame
    <3>2. h[1] = got[1]
      BY <2>2, <3>1
    <3>3. Header <= Len(h) /\ Len(h) < final
      BY <2>1, <2>2, <2>4, <3>1, SizesAssumption DEF BodyOfFrame, Target
    <3> QED BY <2>1, <2>4, <3>2, <3>3 DEF BodyOfFrame
  <2> QED BY <1>0, <2>1, <2>3, <2>4 DEF InFrames
<1>7. CASE RecvHeader
  <2> SUFFICES ASSUME ~torn PROVE InFrames'
    BY <1>7 DEF RecvHeader, InFrames, historyVars
  <2>1. BodyOfFrame' /\ Stream' = Stream
    BY <1>7, HeaderInFrames
  <2>2. reader # "stopped" /\ UNCHANGED <<torn, delivered, accepted, lastByte>>
    BY <1>7 DEF RecvHeader, historyVars
  <2> QED BY <1>0, <2>1, <2>2 DEF InFrames
<1>8. CASE RecvBody
  <2> SUFFICES ASSUME ~torn PROVE InFrames'
    BY <1>8 DEF RecvBody, InFrames, historyVars
  <2>1. /\ Len(delivered) < Len(accepted)
        /\ delivered' = Append(delivered, accepted[Len(delivered) + 1])
        /\ \E pos : Parsed(Stream', Len(delivered) + 1, accepted, lastByte, pos)
    BY <1>8, BodyInFrames
  <2>2. reader' # "body" /\ UNCHANGED <<accepted, lastByte>>
    BY <1>8 DEF RecvBody, historyVars
  <2>3. Len(delivered') = Len(delivered) + 1
    <3>1. delivered' = Append(delivered, Decoded(got \o SubSeq(wire, 1, final - Len(got))))
      BY <1>8 DEF RecvBody
    <3>2. delivered \in Seq(0..MaxFrames)
      BY <1>0 DEF TypeOK
    <3> QED BY <3>1, <3>2, DecodedType, AppendProperties
  <2> QED BY <2>1, <2>2, <2>3 DEF InFrames
<1>9. CASE EmptyBody
  <2> SUFFICES ASSUME ~torn PROVE InFrames'
    BY <1>9 DEF EmptyBody, InFrames, historyVars
  <2>1. Len(got) < final /\ final <= Len(got)
    BY <1>0, <1>9 DEF EmptyBody, InFrames, BodyOfFrame
  <2>2. Len(got) \in Nat /\ final \in Nat
    BY <1>0, LenProperties DEF TypeOK
  <2> QED BY <2>1, <2>2
<1>10. CASE EndOfStream \/ InterruptedRecv
  BY <1>10 DEF EndOfStream, InterruptedRecv, Stop, InFrames
<1> QED BY <1>1, <1>4, <1>5, <1>6, <1>7, <1>8, <1>9, <1>10
     DEF Next, WriterStep, ReaderStep, Over

LEMMA ChannelInvariant == Spec => []ChannelInv
<1>1. ChannelInv /\ [Next]_vars => ChannelInv'
  BY NextTypeOK, NextReading, NextDistinct, NextPlaced, NextInFrames DEF ChannelInv, Typed
<1> QED BY InitChannel, <1>1, PTL DEF Spec

LEMMA ChannelStep == ChannelInv /\ [Next]_vars => [Channel!Next]_Channel!vars
<1> SUFFICES ASSUME ChannelInv, [Next]_vars PROVE [Channel!Next]_Channel!vars
  OBVIOUS
<1> USE DEF Channel!vars
<1>1. ASSUME UNCHANGED <<accepted, delivered, torn>> PROVE UNCHANGED Channel!vars
  BY <1>1
<1>2. ASSUME NEW w \in Writers, NEW n \in 1..WireCap, MoveSome(w, n) \/ MoveLast(w, n)
      PROVE  [Channel!Next]_Channel!vars
  <2>1. Typed /\ IsLast(lastByte) /\ pc[w] = "send" /\ Move(w, n) /\ delivered' = delivered
    BY <1>2 DEF ChannelInv, MoveSome, MoveLast, Move, readerVars
  <2>2. frame[w] \in Frames /\ left[w] \in Nat /\ gone[w] \in Nat /\ n \in Nat
    BY <2>1, SendType, SizesAssumption
  <2>3. n <= left[w] - gone[w]
    BY <1>2, <2>2 DEF MoveSome, MoveLast
  <2>4. (torn => torn') /\ torn \in BOOLEAN /\ torn' \in BOOLEAN
    BY <2>1, <2>3, MovePuts, MoveType, Zenon DEF Typed, TypeOK
  <2>5. accepted' = accepted \/ accepted' = Append(accepted, frame[w])
    BY <1>2 DEF MoveSome, MoveLast
  <2>6. CASE torn'
    <3>1. torn' = TRUE
      BY <2>4, <2>6
    <3>2. Channel!Tear
      BY <2>1, <2>2, <2>5, <3>1, Zenon DEF Channel!Tear
    <3> QED BY <3>2 DEF Channel!Next
  <2>7. CASE ~torn'
    <3>1. torn' = torn
      BY <2>4, <2>7
    <3>2. accepted' = Append(accepted, frame[w]) => Channel!Accept(frame[w])
      BY <2>1, <3>1 DEF Channel!Accept
    <3> QED BY <1>1, <2>1, <2>2, <2>5, <3>1, <3>2, Zenon DEF Channel!Next
  <2> QED BY <2>6, <2>7
<1>3. CASE RecvBody
  <2>1. UNCHANGED <<accepted, torn>>
    BY <1>3 DEF RecvBody, historyVars
  <2>2. CASE ~torn
    <3>1. /\ Len(delivered) < Len(accepted)
          /\ delivered' = Append(delivered, accepted[Len(delivered) + 1])
      BY <1>3, <2>2, BodyInFrames
    <3> QED BY <2>1, <3>1 DEF Channel!Next, Channel!Deliver
  <2>3. CASE torn
    <3> DEFINE m == Decoded(got \o SubSeq(wire, 1, final - Len(got)))
    <3>1. delivered' = Append(delivered, m)
      BY <1>3 DEF RecvBody
    <3>2. m \in 0..MaxFrames
      BY DecodedType
    <3>3. m \in Frames \union {0}
      BY <3>2, SizesAssumption DEF Frames
    <3> HIDE DEF m
    <3>4. Channel!DeliverAnything
      BY <2>1, <2>3, <3>1, <3>3 DEF Channel!DeliverAnything
    <3> QED BY <3>4 DEF Channel!Next
  <2> QED BY <2>2, <2>3
<1>4. ASSUME NEW w \in Writers,
             Write(w) \/ ShortSend(w) \/ InterruptedSend(w) \/ FailedSend(w)
      PROVE  UNCHANGED Channel!vars
  BY <1>1, <1>4 DEF Write, ShortSend, InterruptedSend, FailedSend, readerVars, historyVars
<1>5. ASSUME NEW n \in 1..WireCap, Recv(n) PROVE UNCHANGED Channel!vars
  BY <1>1, <1>5 DEF Recv, historyVars
<1>6. CASE RecvHeader \/ EmptyBody \/ EndOfStream \/ InterruptedRecv
  BY <1>1, <1>6 DEF RecvHeader, EmptyBody, EndOfStream, InterruptedRecv, Stop, historyVars
<1>7. CASE WriterCloses \/ UNCHANGED vars
  BY <1>1, <1>7 DEF WriterCloses, vars, readerVars, historyVars
<1> QED BY <1>2, <1>3, <1>4, <1>5, <1>6, <1>7 DEF Next, WriterStep, ReaderStep, Over

(* The stream of frames, with writers interrupted at any byte, implements  *)
(* the channel: until the stream is torn, what processMessage is handed are *)
(* the frames writeToSocket returned true for, whole, once and in order.   *)
THEOREM StreamIsChannel == Spec => ImplementsChannel
<1>1. Init => Channel!Init
  BY DEF Init, Channel!Init
<1> QED BY <1>1, ChannelInvariant, ChannelStep, PTL DEF Spec, ImplementsChannel, Channel!Spec

LEMMA ChannelKeepsOrder ==
  TypeOK /\ TypeOK' /\ Channel!FifoUntilTorn /\ [Channel!Next]_Channel!vars
    => Channel!FifoUntilTorn'
<1> SUFFICES ASSUME TypeOK, TypeOK', Channel!FifoUntilTorn, [Channel!Next]_Channel!vars, ~torn'
             PROVE  Channel!Prefix'
  BY DEF Channel!FifoUntilTorn
<1>0. /\ accepted \in Seq(Frames) /\ delivered \in Seq(0..MaxFrames)
      /\ Len(accepted) \in Nat /\ Len(delivered) \in Nat
  BY LenProperties DEF TypeOK
<1>1. ~torn /\ ~Channel!Tear
  BY DEF Channel!vars, Channel!Next, Channel!Accept, Channel!Deliver, Channel!Tear,
         Channel!DeliverAnything
<1>2. /\ Len(delivered) <= Len(accepted)
      /\ \A i \in 1..Len(delivered) : delivered[i] = accepted[i]
  BY <1>1 DEF Channel!FifoUntilTorn, Channel!Prefix
<1>3. ASSUME NEW f \in Frames, Channel!Accept(f) PROVE Channel!Prefix'
  <2>1. accepted' = Append(accepted, f) /\ delivered' = delivered
    BY <1>3 DEF Channel!Accept
  <2>2. Len(accepted') = Len(accepted) + 1 /\ \A i \in 1..Len(accepted) : accepted'[i] = accepted[i]
    BY <1>0, <2>1, AppendProperties
  <2>3. \A i \in 1..Len(delivered) : i \in 1..Len(accepted)
    BY <1>0, <1>2
  <2> QED BY <1>0, <1>2, <2>1, <2>2, <2>3 DEF Channel!Prefix
<1>4. CASE Channel!Deliver
  <2> DEFINE m == accepted[Len(delivered) + 1]
  <2>1. /\ Len(delivered) < Len(accepted) /\ accepted' = accepted
        /\ delivered' = Append(delivered, m)
    BY <1>4 DEF Channel!Deliver
  <2>2. m \in 0..MaxFrames
    <3>1. Len(delivered) + 1 \in 1..Len(accepted)
      BY <1>0, <2>1
    <3>2. m \in Frames
      BY <1>0, <3>1, ElementOfSeq
    <3> QED BY <3>2, SizesAssumption DEF Frames
  <2>3. /\ Len(delivered') = Len(delivered) + 1 /\ delivered'[Len(delivered) + 1] = m
        /\ \A i \in 1..Len(delivered) : delivered'[i] = delivered[i]
    BY <1>0, <2>1, <2>2, AppendProperties
  <2>4. ASSUME NEW i \in 1..Len(delivered') PROVE delivered'[i] = accepted'[i]
    <3>1. i \in 1..Len(delivered) \/ i = Len(delivered) + 1
      BY <1>0, <2>3
    <3> QED BY <1>2, <2>1, <2>3, <3>1
  <2> QED BY <1>0, <2>1, <2>3, <2>4 DEF Channel!Prefix
<1>5. CASE UNCHANGED Channel!vars
  BY <1>2, <1>5 DEF Channel!vars, Channel!Prefix
<1> QED BY <1>1, <1>3, <1>4, <1>5 DEF Channel!Next, Channel!DeliverAnything

(* Until the stream is torn, what processMessage has been handed is what    *)
(* the oldest successful writeToSocket calls wrote, in that order.          *)
THEOREM FramesInOrder == Spec => []Channel!FifoUntilTorn
<1>1. Init => Channel!FifoUntilTorn
  BY DEF Init, Channel!FifoUntilTorn, Channel!Prefix
<1>2. ChannelInv /\ ChannelInv' /\ Channel!FifoUntilTorn /\ [Next]_vars => Channel!FifoUntilTorn'
  BY ChannelStep, ChannelKeepsOrder DEF ChannelInv, Typed
<1> QED BY <1>1, <1>2, ChannelInvariant, PTL DEF Spec
=============================================================================
