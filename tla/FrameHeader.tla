---------------------------- MODULE FrameHeader ----------------------------
(***************************************************************************)
(* The five bytes in front of every message, size and opcode, as the native *)
(* and the Java implementation of the audio socket write and read them.     *)
(***************************************************************************)
EXTENDS Integers, Sequences

CONSTANTS
  Links,      \* pairs of implementations <<sender, receiver>>
  BodySizes,  \* sizes of the protobuf messages sent
  CharSigned  \* whether char is signed: not on armeabi-v7a, the only ABI built

Impls == {"native", "java"}

MaxJavaLength == 10 * 1024 * 1024

(* SOCKET_BUFFER_SIZE, of the m_pBuffer a native receiver reads into, the  *)
(* five bytes of the header included.                                      *)
SocketBufferSize == 100000

ASSUME HeaderAssumption ==
  /\ Links \subseteq Impls \X Impls
  /\ BodySizes \subseteq 1..(MaxJavaLength - 1)
  /\ CharSigned \in BOOLEAN

VARIABLES
  link,    \* the pair of implementations
  sent,    \* the frame that was written: its kind and the size of its body
  bytes,   \* the size field and the opcode on the wire
  result   \* what the receiver makes of them

vars == <<link, sent, bytes, result>>

-----------------------------------------------------------------------------
(* Mutant: a message type has been inserted before REQUEST on this side.   *)
OpcodesMovedUp ==
  [AUDIO_DATA |-> 1, AUDIO_RESPONSE |-> 2, BUFFER_INFO |-> 3,
   FORMAT_INFO |-> 4, REQUEST |-> 6, SHUTDOWN |-> 7]

(* enum MessageType                                                        *)
NativeOpcode ==
  [AUDIO_DATA |-> 1, AUDIO_RESPONSE |-> 2, BUFFER_INFO |-> 3,
   FORMAT_INFO |-> 4, REQUEST |-> 5, SHUTDOWN |-> 6]

(* The OPCODE_ constants of AudioSocket.                                   *)
JavaOpcode ==
  [AUDIO_DATA |-> 1, AUDIO_RESPONSE |-> 2, REQUEST |-> 3,
   FORMAT_INFO |-> 4, BUFFER_INFO |-> 5, SHUTDOWN |-> 6]

Opcode(impl) == IF impl = "native" THEN NativeOpcode ELSE JavaOpcode

Kinds == DOMAIN NativeOpcode

KindOf(impl, opcode) == CHOOSE k \in Kinds : Opcode(impl)[k] = opcode

-----------------------------------------------------------------------------
Low(n)  == n % 256
High(n) == n \div 256

(* Mutant: least significant byte first.                                   *)
LittleEndian(n) == <<Low(n), Low(High(n)), Low(High(High(n))), Low(High(High(High(n))))>>

(* convertInt32ToBytes and intToByte: most significant byte first.         *)
ToBytes(n) == <<Low(High(High(High(n)))), Low(High(High(n))), Low(High(n)), Low(n)>>

(* A word as its bytes, most significant first: (char) b, shifted to byte  *)
(* i.  A negative char has ones in all of the bytes above its own.         *)
Shifted(b, i) ==
  [j \in 1..4 |-> IF j = i THEN b ELSE IF CharSigned /\ b >= 128 /\ j < i THEN 255 ELSE 0]

(* The bitwise or, of words whose bytes overlap only where one is all ones.*)
Or(v, w) ==
  [j \in 1..4 |-> IF v[j] = 0 THEN w[j] ELSE IF w[j] = 0 THEN v[j] ELSE 255]

(* The 32-bit int with these bytes.                                        *)
Word(b) ==
  LET top == IF b[1] >= 128 THEN b[1] - 256 ELSE b[1]
  IN  ((top * 256 + b[2]) * 256 + b[3]) * 256 + b[4]

(* convertBytesToInt32 and convertBytesToUInt32, whose value processMessage *)
(* takes as an int: data[3] is the only byte not cast to char.             *)
FromBytes(b) ==
  Word(Or(Or(<<0, 0, 0, b[4]>>, Shifted(b[3], 3)), Or(Shifted(b[2], 2), Shifted(b[1], 1))))

(* byteToInt: ByteBuffer.getInt.                                           *)
JavaFromBytes(b) == Word(b)

-----------------------------------------------------------------------------
(* What a receiver does with a frame, when it does not handle a message.   *)
Closes  == [kind |-> "closes", size |-> 0]
Rejects == [kind |-> "rejects", size |-> 0]
Nothing == [kind |-> "nothing", size |-> 0]

(* The body has been read past the end of m_pBuffer: the build may do      *)
(* anything from there on, and the model stops.                            *)
Overrun == [kind |-> "overrun", size |-> 0]

Message(k, n) == [kind |-> k, size |-> n]

(* writeProtoBufMessage and the write methods of AudioSocket: the size on  *)
(* the wire includes the opcode byte.                                      *)
Send(k, n) ==
  /\ sent = Nothing
  /\ sent' = Message(k, n)
  /\ bytes' = [size |-> ToBytes(n + 1), opcode |-> Opcode(link[1])[k]]
  /\ UNCHANGED <<link, result>>

(* ~SocketHost sends SHUTDOWN, which has no body; no other code sends it.  *)
SendShutdown == link[1] = "native" /\ Send("SHUTDOWN", 0)

(* processEvents and processMessage.  A frame larger than m_pBuffer is     *)
(* logged as FATAL and read all the same; one without a body is invalid,   *)
(* and so is an opcode they do not switch on.                              *)
NativeReceive ==
  LET size == FromBytes(bytes.size) - 1
      kind == KindOf("native", bytes.opcode)
  IN  /\ link[2] = "native"
      /\ result' = IF size > SocketBufferSize - 5 THEN Overrun
                   ELSE IF size <= 0 \/ kind = "SHUTDOWN" THEN Rejects ELSE Message(kind, size)

(* Mutant: the opcode is only looked at when there is a message to read.   *)
JavaReceiveBodyFirst ==
  LET length == JavaFromBytes(bytes.size)
      kind   == KindOf("java", bytes.opcode)
  IN  /\ link[2] = "java"
      /\ result' = IF length <= 1 THEN Rejects ELSE Message(kind, length - 1)

(* mLoop and processInputStream: SHUTDOWN and a length over 10 MB end the  *)
(* loop.                                                                   *)
JavaReceive ==
  LET length == JavaFromBytes(bytes.size)
      kind   == KindOf("java", bytes.opcode)
  IN  /\ link[2] = "java"
      /\ result' = IF kind = "SHUTDOWN" \/ length > MaxJavaLength THEN Closes
                   ELSE Message(kind, length - 1)

Receive ==
  /\ sent # Nothing /\ result = Nothing
  /\ NativeReceive \/ JavaReceive
  /\ UNCHANGED <<link, sent, bytes>>

Init ==
  /\ link \in Links
  /\ sent = Nothing /\ result = Nothing
  /\ bytes = [size |-> ToBytes(0), opcode |-> 0]

Done == result # Nothing /\ UNCHANGED vars

Next ==
  \/ SendShutdown
  \/ \E k \in Kinds \ {"SHUTDOWN"}, n \in BodySizes : Send(k, n)
  \/ Receive \/ Done

Spec == Init /\ [][Next]_vars

-----------------------------------------------------------------------------
(* Type correctness: what is sent, the five bytes and the receiver's view. *)
TypeOK ==
  /\ link \in Links
  /\ sent \in {Nothing, Message("SHUTDOWN", 0)}
       \union [kind : Kinds \ {"SHUTDOWN"}, size : BodySizes]
  /\ bytes \in [size : [1..4 -> 0..255], opcode : 0..6]
  /\ result \in {Nothing, Closes, Rejects, Overrun} \union [kind : Kinds, size : Int]

Arrived == result # Nothing /\ sent.kind # "SHUTDOWN"

(* The kinds on whose opcodes the two implementations agree.               *)
SharedKinds == {"AUDIO_DATA", "AUDIO_RESPONSE", "FORMAT_INFO"}

(* What the receiver has room for: the code relies on no one sending more  *)
(* to a native one.                                                        *)
Fits == link[2] = "native" => sent.size <= SocketBufferSize - 5

(* "All packets are prefixed with an integer (4 bytes) representing the    *)
(* message size, followed by a byte representing the message type"         *)
(* (AudioSocket): a receiver finds the size of the message any sender put  *)
(* there, up to the last one that fits its buffer, and its kind if they    *)
(* use the same opcode for it.                                             *)
FrameUnderstood ==
  Arrived /\ Fits => /\ result.size = sent.size
                     /\ link[1] = link[2] \/ sent.kind \in SharedKinds => result.kind = sent.kind

(* "In order to be able to not hit a deadlock in read() on the java side,  *)
(* we send a shutdown message" (~SocketHost): it ends the loop of a Java   *)
(* socket, and a native one goes on.                                       *)
ShutdownEndsJava ==
  result # Nothing /\ sent.kind = "SHUTDOWN" => (result = Closes <=> link[2] = "java")
=============================================================================
