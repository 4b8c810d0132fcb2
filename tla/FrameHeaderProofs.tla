------------------------- MODULE FrameHeaderProofs -------------------------
(***************************************************************************)
(* Proofs about the frame header, for every size a message can have.        *)
(***************************************************************************)
EXTENDS FrameHeader, TLAPS

Byte == 0..255

LEMMA LowHigh ==
  ASSUME NEW n \in Nat
  PROVE  Low(n) \in Byte /\ High(n) \in Nat /\ n = High(n) * 256 + Low(n)
BY DEF Low, High, Byte

(* The top byte of a size that fits an int has its top bit clear.          *)
LEMMA TopByte ==
  ASSUME NEW n \in Nat, n < 128 * 256 * 256 * 256
  PROVE  High(High(High(n))) \in 0..127
<1>1. High(n) \in Nat /\ n = High(n) * 256 + Low(n) /\ Low(n) \in Byte
  BY LowHigh
<1>2. High(High(n)) \in Nat /\ High(n) = High(High(n)) * 256 + Low(High(n)) /\ Low(High(n)) \in Byte
  BY <1>1, LowHigh
<1>3. /\ High(High(High(n))) \in Nat
      /\ High(High(n)) = High(High(High(n))) * 256 + Low(High(High(n)))
      /\ Low(High(High(n))) \in Byte
  BY <1>2, LowHigh
<1> QED
  BY <1>1, <1>2, <1>3, SMT DEF Byte

(* The four bytes are the number: ByteBuffer.getInt reads what either      *)
(* implementation writes.                                                  *)
LEMMA WordToBytes ==
  ASSUME NEW n \in Nat, n < 128 * 256 * 256 * 256
  PROVE  ToBytes(n) \in [1..4 -> Byte] /\ Word(ToBytes(n)) = n
<1> DEFINE a == High(n)  b == High(a)  c == High(b)
<1>1. a \in Nat /\ n = a * 256 + Low(n) /\ Low(n) \in Byte
  BY LowHigh
<1>2. b \in Nat /\ a = b * 256 + Low(a) /\ Low(a) \in Byte
  BY <1>1, LowHigh
<1>3. c \in Nat /\ b = c * 256 + Low(b) /\ Low(b) \in Byte
  BY <1>2, LowHigh
<1>4. c \in 0..127 /\ Low(c) = c
  BY TopByte, SMT DEF Low
<1>5. ToBytes(n) = <<c, Low(b), Low(a), Low(n)>>
  BY <1>4 DEF ToBytes
<1> HIDE DEF a, b, c
<1>6. ToBytes(n) \in [1..4 -> Byte]
  BY <1>1, <1>2, <1>3, <1>4, <1>5 DEF Byte
<1>7. Word(ToBytes(n)) = ((c * 256 + Low(b)) * 256 + Low(a)) * 256 + Low(n)
  BY <1>4, <1>5 DEF Word
<1> QED
  BY <1>1, <1>2, <1>3, <1>6, <1>7

(* Where char is unsigned, the shifts and ors of the native code put the   *)
(* bytes back where they were.                                             *)
LEMMA FromBytesIsWord ==
  ASSUME ~CharSigned, NEW v \in [1..4 -> Byte]
  PROVE  FromBytes(v) = Word(v)
<1> DEFINE w == Or(Or(<<0, 0, 0, v[4]>>, Shifted(v[3], 3)), Or(Shifted(v[2], 2), Shifted(v[1], 1)))
<1>1. \A i \in 1..4 : v[i] \in Byte
  OBVIOUS
<1>2. w[1] = v[1] /\ w[2] = v[2] /\ w[3] = v[3] /\ w[4] = v[4]
  <2>1. /\ Shifted(v[1], 1) = [j \in 1..4 |-> IF j = 1 THEN v[1] ELSE 0]
        /\ Shifted(v[2], 2) = [j \in 1..4 |-> IF j = 2 THEN v[2] ELSE 0]
        /\ Shifted(v[3], 3) = [j \in 1..4 |-> IF j = 3 THEN v[3] ELSE 0]
    BY DEF Shifted
  <2> QED BY <2>1 DEF Or
<1> QED
  BY <1>2 DEF FromBytes, Word

(* An implementation knows its own opcodes.                                *)
LEMMA KindOfOpcode ==
  ASSUME NEW impl \in Impls, NEW k \in Kinds
  PROVE  KindOf(impl, Opcode(impl)[k]) = k
<1>1. Kinds = {"AUDIO_DATA", "AUDIO_RESPONSE", "BUFFER_INFO", "FORMAT_INFO", "REQUEST", "SHUTDOWN"}
  BY DEF Kinds, NativeOpcode
<1>2. \A i, j \in Kinds : Opcode(impl)[i] = Opcode(impl)[j] => i = j
  BY <1>1 DEF Opcode, NativeOpcode, JavaOpcode
<1> QED
  BY <1>2 DEF KindOf

(* Those of the shared kinds, and of SHUTDOWN, are the other one's too.    *)
LEMMA SharedOpcode ==
  ASSUME NEW impl \in Impls, NEW other \in Impls, NEW k \in SharedKinds \union {"SHUTDOWN"}
  PROVE  k \in Kinds /\ Opcode(impl)[k] = Opcode(other)[k]
BY DEF SharedKinds, Kinds, Opcode, NativeOpcode, JavaOpcode

(* An opcode other than SHUTDOWN's is some message's to the other one.     *)
LEMMA NotShutdown ==
  ASSUME NEW impl \in Impls, NEW other \in Impls, NEW k \in Kinds \ {"SHUTDOWN"}
  PROVE  KindOf(other, Opcode(impl)[k]) # "SHUTDOWN"
<1>1. Kinds = {"AUDIO_DATA", "AUDIO_RESPONSE", "BUFFER_INFO", "FORMAT_INFO", "REQUEST", "SHUTDOWN"}
  BY DEF Kinds, NativeOpcode
<1>2. PICK j \in Kinds : Opcode(other)[j] = Opcode(impl)[k]
  <2>1. \/ k \in SharedKinds /\ Opcode(other)[k] = Opcode(impl)[k]
        \/ k = "REQUEST" /\ \E j \in {"REQUEST", "BUFFER_INFO"} : Opcode(other)[j] = Opcode(impl)[k]
        \/ k = "BUFFER_INFO" /\ \E j \in {"REQUEST", "BUFFER_INFO"} : Opcode(other)[j] = Opcode(impl)[k]
    BY <1>1 DEF SharedKinds, Impls, Opcode, NativeOpcode, JavaOpcode
  <2> QED BY <1>1, <2>1
<1>3. Opcode(other)["SHUTDOWN"] # Opcode(impl)[k]
  BY <1>1 DEF Impls, Opcode, NativeOpcode, JavaOpcode
<1> QED
  BY <1>2, <1>3 DEF KindOf

-----------------------------------------------------------------------------
(* What is on the wire is what was sent, and the receiver has made of it   *)
(* what its code does.                                                     *)
OnTheWire ==
  /\ link \in Impls \X Impls
  /\ sent # Nothing =>
       /\ \/ sent.kind = "SHUTDOWN" /\ sent.size = 0
          \/ sent.kind \in Kinds \ {"SHUTDOWN"} /\ sent.size \in BodySizes
       /\ bytes = [size |-> ToBytes(sent.size + 1), opcode |-> Opcode(link[1])[sent.kind]]
  /\ result # Nothing =>
       /\ sent # Nothing
       /\ IF sent.kind = "SHUTDOWN" THEN result = IF link[2] = "java" THEN Closes ELSE Rejects
          ELSE Fits => /\ result.size = sent.size
                       /\ link[1] = link[2] \/ sent.kind \in SharedKinds => result.kind = sent.kind

LEMMA InitOnTheWire == Init => OnTheWire
BY HeaderAssumption DEF Init, OnTheWire

(* What either receiver finds in a frame that is on the wire.              *)
LEMMA ReceiveUnderstands ==
  ASSUME ~CharSigned, OnTheWire, Receive
  PROVE  IF sent.kind = "SHUTDOWN" THEN result' = IF link[2] = "java" THEN Closes ELSE Rejects
         ELSE Fits => /\ result'.size = sent.size
                      /\ link[1] = link[2] \/ sent.kind \in SharedKinds => result'.kind = sent.kind
<1> DEFINE n == sent.size + 1
           op == Opcode(link[1])[sent.kind]
<1>1. /\ link[1] \in Impls /\ link[2] \in Impls
      /\ bytes = [size |-> ToBytes(n), opcode |-> op]
      /\ sent # Nothing
  BY DEF OnTheWire, Receive
<1>2. n \in Nat /\ n <= MaxJavaLength /\ sent.size \in Nat /\ sent.kind \in Kinds
      /\ (sent.kind = "SHUTDOWN" <=> n = 1)
  <2>1. CASE sent.kind = "SHUTDOWN" /\ sent.size = 0
    BY <2>1 DEF MaxJavaLength, Kinds, NativeOpcode
  <2>2. CASE sent.kind \in Kinds \ {"SHUTDOWN"} /\ sent.size \in BodySizes
    <3>1. MaxJavaLength \in Nat
      BY SMT DEF MaxJavaLength
    <3>2. sent.size \in 1..(MaxJavaLength - 1)
      BY <2>2, HeaderAssumption
    <3> QED BY <2>2, <3>1, <3>2
  <2> QED BY <1>1, <2>1, <2>2 DEF OnTheWire
<1>3. ToBytes(n) \in [1..4 -> Byte] /\ Word(ToBytes(n)) = n
  BY <1>2, WordToBytes, SMT DEF MaxJavaLength
<1>4. FromBytes(bytes.size) = n /\ JavaFromBytes(bytes.size) = n
  BY <1>1, <1>3, FromBytesIsWord DEF JavaFromBytes
<1>5. /\ sent.kind = "SHUTDOWN" <=> KindOf(link[2], op) = "SHUTDOWN"
      /\ link[1] = link[2] \/ sent.kind \in SharedKinds => KindOf(link[2], op) = sent.kind
  <2>1. CASE sent.kind = "SHUTDOWN"
    BY <2>1, <1>1, <1>2, SharedOpcode, KindOfOpcode
  <2>2. CASE sent.kind # "SHUTDOWN"
    BY <2>2, <1>1, <1>2, SharedOpcode, KindOfOpcode, NotShutdown
  <2> QED BY <2>1, <2>2
<1> HIDE DEF n, op
<1>6. CASE NativeReceive
  <2>1. link[2] = "native" /\ result' = IF n - 1 > SocketBufferSize - 5 THEN Overrun
                                       ELSE IF n - 1 <= 0 \/ KindOf("native", op) = "SHUTDOWN"
                                       THEN Rejects ELSE Message(KindOf("native", op), n - 1)
    BY <1>1, <1>4, <1>6 DEF NativeReceive
  <2> QED BY <1>2, <1>5, <2>1 DEF Message, Fits, SocketBufferSize, n
<1>7. CASE JavaReceive
  <2>1. link[2] = "java" /\ result' = IF KindOf("java", op) = "SHUTDOWN" \/ n > MaxJavaLength
                                     THEN Closes ELSE Message(KindOf("java", op), n - 1)
    BY <1>1, <1>4, <1>7 DEF JavaReceive
  <2>2. ~(n > MaxJavaLength)
    BY <1>2, SMT DEF MaxJavaLength
  <2> QED BY <1>2, <1>5, <2>1, <2>2 DEF Message, n
<1> QED BY <1>6, <1>7 DEF Receive

LEMMA NextOnTheWire == ~CharSigned /\ OnTheWire /\ [Next]_vars => OnTheWire'
<1> SUFFICES ASSUME ~CharSigned, OnTheWire, [Next]_vars PROVE OnTheWire'
  OBVIOUS
<1>1. ASSUME NEW k \in Kinds \ {"SHUTDOWN"}, NEW n \in BodySizes, Send(k, n)
      PROVE OnTheWire'
  BY <1>1 DEF Send, OnTheWire, Message
<1>2. CASE SendShutdown
  BY <1>2 DEF SendShutdown, Send, OnTheWire, Message
<1>3. CASE Receive
  BY <1>3, ReceiveUnderstands DEF OnTheWire, Receive, Fits
<1>4. CASE UNCHANGED vars
  BY <1>4 DEF vars, OnTheWire, Fits
<1> QED
  BY <1>1, <1>2, <1>3, <1>4 DEF Next, Done

(* For any body up to the 10 MB a Java receiver takes, or the 99995 bytes  *)
(* that fit the buffer of a native one, any pair of implementations agrees *)
(* on its size, and on its kind where they give it the same opcode.  The   *)
(* build's char is unsigned: where it is signed, sizes from 32767 on are   *)
(* misread.                                                                *)
THEOREM HeadersUnderstood == ~CharSigned => (Spec => []FrameUnderstood)
<1> SUFFICES ASSUME ~CharSigned PROVE Spec => []FrameUnderstood
  OBVIOUS
<1>1. OnTheWire => FrameUnderstood
  BY DEF OnTheWire, FrameUnderstood, Arrived
<1>2. OnTheWire /\ [Next]_vars => OnTheWire'
  BY NextOnTheWire
<1> QED
  BY <1>1, <1>2, InitOnTheWire, PTL DEF Spec

(* SHUTDOWN ends the loop of a Java receiver and of no native one.         *)
THEOREM ShutdownIsHeard == ~CharSigned => (Spec => []ShutdownEndsJava)
<1> SUFFICES ASSUME ~CharSigned PROVE Spec => []ShutdownEndsJava
  OBVIOUS
<1>1. OnTheWire => ShutdownEndsJava
  <2>1. link \in Impls \X Impls => link[2] \in {"native", "java"}
    BY DEF Impls
  <2> QED BY <2>1 DEF OnTheWire, ShutdownEndsJava, Closes, Rejects
<1>2. OnTheWire /\ [Next]_vars => OnTheWire'
  BY NextOnTheWire
<1> QED
  BY <1>1, <1>2, InitOnTheWire, PTL DEF Spec

-----------------------------------------------------------------------------
(* Every opcode one implementation writes is some message's to the other.  *)
LEMMA KindOfType ==
  ASSUME NEW impl \in Impls, NEW other \in Impls, NEW k \in Kinds
  PROVE  KindOf(other, Opcode(impl)[k]) \in Kinds
<1>1. Kinds = {"AUDIO_DATA", "AUDIO_RESPONSE", "BUFFER_INFO", "FORMAT_INFO", "REQUEST", "SHUTDOWN"}
  BY DEF Kinds, NativeOpcode
<1>2. PICK j \in Kinds : Opcode(other)[j] = Opcode(impl)[k]
  <2>1. CASE k = "REQUEST" \/ k = "BUFFER_INFO"
    <3>1. \E j \in {"REQUEST", "BUFFER_INFO"} : Opcode(other)[j] = Opcode(impl)[k]
      BY <2>1 DEF Impls, Opcode, NativeOpcode, JavaOpcode
    <3> QED BY <1>1, <3>1
  <2>2. CASE k \notin {"REQUEST", "BUFFER_INFO"}
    BY <1>1, <2>2, SharedOpcode DEF SharedKinds
  <2> QED BY <2>1, <2>2
<1> QED BY <1>2 DEF KindOf

LEMMA OpcodeType == ASSUME NEW impl \in Impls, NEW k \in Kinds PROVE Opcode(impl)[k] \in 0..6
<1>1. Kinds = {"AUDIO_DATA", "AUDIO_RESPONSE", "BUFFER_INFO", "FORMAT_INFO", "REQUEST", "SHUTDOWN"}
  BY DEF Kinds, NativeOpcode
<1> QED BY <1>1 DEF Opcode, NativeOpcode, JavaOpcode

LEMMA InitTypeOK == Init => TypeOK
<1> SUFFICES ASSUME Init PROVE TypeOK
  OBVIOUS
<1>1. ToBytes(0) \in [1..4 -> 0..255]
  BY WordToBytes, SMT DEF Byte
<1> QED BY <1>1 DEF Init, TypeOK

LEMMA SendType ==
  ASSUME TypeOK, OnTheWire, NEW k \in Kinds, NEW n \in Nat, n < MaxJavaLength, Send(k, n)
  PROVE  bytes' \in [size : [1..4 -> 0..255], opcode : 0..6]
<1>1. ToBytes(n + 1) \in [1..4 -> 0..255]
  <2>1. n + 1 \in Nat /\ n + 1 < 128 * 256 * 256 * 256
    BY SMT DEF MaxJavaLength
  <2> QED BY <2>1, WordToBytes DEF Byte
<1>2. Opcode(link[1])[k] \in 0..6
  BY OpcodeType DEF OnTheWire
<1> QED BY <1>1, <1>2 DEF Send

LEMMA NextTypeOK == ~CharSigned /\ OnTheWire /\ TypeOK /\ [Next]_vars => TypeOK'
<1> SUFFICES ASSUME ~CharSigned, OnTheWire, TypeOK, [Next]_vars PROVE TypeOK'
  OBVIOUS
<1>0. /\ MaxJavaLength \in Nat /\ MaxJavaLength > 1 /\ "SHUTDOWN" \in Kinds
      /\ \A n \in BodySizes : n \in Nat /\ n < MaxJavaLength
  <2>1. MaxJavaLength \in Nat /\ MaxJavaLength > 1
    BY SMT DEF MaxJavaLength
  <2> QED BY <2>1, HeaderAssumption DEF Kinds, NativeOpcode
<1>1. ASSUME NEW k \in Kinds \ {"SHUTDOWN"}, NEW n \in BodySizes, Send(k, n) PROVE TypeOK'
  <2>1. bytes' \in [size : [1..4 -> 0..255], opcode : 0..6]
    BY <1>0, <1>1, SendType
  <2> QED BY <1>1, <2>1 DEF Send, TypeOK, Message
<1>2. CASE SendShutdown
  <2>1. bytes' \in [size : [1..4 -> 0..255], opcode : 0..6]
    BY <1>0, <1>2, SendType DEF SendShutdown
  <2> QED BY <1>2, <2>1 DEF SendShutdown, Send, TypeOK, Message
<1>3. CASE Receive
  <2>1. /\ link[1] \in Impls /\ link[2] \in Impls /\ sent.kind \in Kinds
        /\ bytes.opcode = Opcode(link[1])[sent.kind] /\ sent.size \in Nat
        /\ sent.size < MaxJavaLength
        /\ bytes.size = ToBytes(sent.size + 1)
    BY <1>0, <1>3 DEF OnTheWire, Receive
  <2>2. /\ KindOf("native", bytes.opcode) \in Kinds /\ KindOf("java", bytes.opcode) \in Kinds
    BY <2>1, KindOfType DEF Impls
  <2>3. FromBytes(bytes.size) - 1 \in Int /\ JavaFromBytes(bytes.size) - 1 \in Int
    <3>1. sent.size + 1 \in Nat /\ sent.size + 1 < 128 * 256 * 256 * 256
      BY <2>1, SMT DEF MaxJavaLength
    <3>2. /\ ToBytes(sent.size + 1) \in [1..4 -> Byte]
          /\ Word(ToBytes(sent.size + 1)) = sent.size + 1
      BY <3>1, WordToBytes
    <3> QED BY <2>1, <3>1, <3>2, FromBytesIsWord DEF JavaFromBytes
  <2> DEFINE received == {Nothing, Closes, Rejects, Overrun} \union [kind : Kinds, size : Int]
  <2>4. Rejects \in received /\ Closes \in received /\ Overrun \in received
        /\ \A k \in Kinds, n \in Int : Message(k, n) \in received
    BY DEF Message
  <2> HIDE DEF received
  <2>5. result' \in received
    <3>1. CASE NativeReceive
      BY <2>2, <2>3, <2>4, <3>1 DEF NativeReceive
    <3>2. CASE JavaReceive
      BY <2>2, <2>3, <2>4, <3>2 DEF JavaReceive
    <3> QED BY <1>3, <3>1, <3>2 DEF Receive
  <2> QED BY <1>3, <2>5 DEF Receive, TypeOK, received
<1>4. CASE UNCHANGED vars
  BY <1>4 DEF vars, TypeOK
<1> QED BY <1>1, <1>2, <1>3, <1>4 DEF Next, Done

(* Four bytes and an opcode go over the wire, whatever is sent, and the     *)
(* receiver makes a known kind of message of them or none.                 *)
THEOREM TypeCorrect == ~CharSigned => (Spec => []TypeOK)
<1> SUFFICES ASSUME ~CharSigned PROVE Spec => []TypeOK
  OBVIOUS
<1>1. OnTheWire /\ TypeOK /\ [Next]_vars => (OnTheWire /\ TypeOK)'
  BY NextOnTheWire, NextTypeOK
<1>2. Init => OnTheWire /\ TypeOK
  BY InitOnTheWire, InitTypeOK
<1> QED BY <1>1, <1>2, PTL DEF Spec
=============================================================================
