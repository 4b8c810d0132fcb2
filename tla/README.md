# A TLA+ model of Encore's provider library

Encore's provider library connects an audio plugin (a music provider or a DSP
effect) with the main app. Calls go over AIDL; audio goes over a local UNIX
socket, on which both ends exchange framed protobuf messages. The app's end is a
`SocketHost` (C++) or an `AudioHostSocket` (Java), the plugin's end a
`SocketClient` or an `AudioClientSocket`. This directory models the socket: its
threads, its locks, its bytes, its descriptors, and what it promises to the code
that plays music through it; and, beside it, the registry of callbacks that the
sample service keeps and the entities that travel over AIDL.

Paths below are relative to the repository; `nativesocket/` stands for
`src/main/jni/nativesocket/` and `providers/` for
`src/main/java/com/fastbootmobile/encore/providers/`, `model/` for its sibling.

## 1. The system

| Component | State | Operations | Interacts with |
|---|---|---|---|
| Write handshake (`SocketCommon`) | `m_WrittenMutex`, `m_iWrittenSamples`, `m_WrittenCondition` | `writeAudioData`, the AUDIO_RESPONSE branch of `processMessage` | plugin threads, its own event thread, the host over the socket |
| Framed byte stream (`writeProtoBufMessage`, `writeToSocket`, `processEvents`) | `m_pBuffer`, the kernel's buffer, the read and write positions | send a frame, receive a frame | any number of writers, one reader |
| Frame header (`SocketCommon.h`, `AudioSocket`) | none | size to bytes and back, kind to opcode and back | both implementations |
| Native lifecycle (`SocketHost`, `SocketClient`) | `m_Server`, `m_Client`, `m_EventThread`, `m_pBuffer` | constructor, `initialize`, `processEventsThread`, destructor | the kernel, the other process |
| Java client (`AudioSocket`, `AudioClientSocket`) | `mSocketName`, `mSocket`, the streams, `mCodedOutputStream`, `mLoopRun`, `mLoopThread` | `connect`, the loop, the write methods | binder thread, loop thread, players, the host |
| Java host (`AudioHostSocket`) | `mSocket`, `mLoopRun`, `mLoopThread`, the streams | `connect`, the accept loop, `disconnectSocket` | one client at a time |
| Entities (`model/`, `ProviderIdentifier`) | fields of songs, albums, ... | setters, parcelling, `isIdentical`, `equals` | AIDL |
| Sample service (`boilerplate/SamplePluginService.java`) | `mCallbacks`, `mIdentifier` | register, unregister callbacks, `onDestroy` | binder threads, the clients' processes |
| AIDL interfaces, `Constants`, `Plugin.proto` | none | declarations | |

What is hard here: a synchronous call is built out of a notify that carries no
identity; frames are written without a lock and read with one `recv` loop;
signals end system calls half-way; either process may die at any byte; a Java
socket is switched to another name while a thread is blocked on it in a `read()`
that closing does not wake. `PROJECT.json` lists each of these hazards at its
line, with the properties that cover it.

What makes each part correct:

* handshake: a call returns the host's answer to *its* frame; no notify is
  missed; every call returns;
* byte stream: frames come out whole, once and in order;
* header: a receiver finds the size and the kind the sender put there;
* native lifecycle: a descriptor field stands for the connection its owner means;
  one thread reads a connection; what is opened is closed, or counted; a waiting
  client gets its turn; stopping the event thread ends;
* Java sockets: one loop at a time, on the current stream; switching ends; a loop
  that stops is not silent;
* entities: two copies of an entity are identical if and only if nothing has
  changed;
* sample service: the list says what the calls have done, each callback once.

## 2. The modules

`SocketCommon` - the handshake. Frames are whole messages in two bounded queues,
`out` and `back`. `pc[c]` is where thread `c` is in `writeAudioData`: `Begin`
(144), `Lock` (153), `SendAndWait`/`SendAndReturn`/`SendFails`/`SendInterrupted`
(156, 171), `StartWait` (162: queueing the thread and releasing the mutex are one
step, as a condition variable does), `DeadlinePasses`, `WakeSpuriously`,
`LeaveWait` (the mutex is taken again, a timeout zeroes the count) and
`ReadResult` (169, outside the lock). The event thread is `Receive`,
`CallbackReturns`, `Publish` (86-88) and `EventThreadEnds`. It may itself call
`writeAudioData` from inside `onAudioResponse`: it is then one of `Callers`. The
host is the app's callback as the code and `README.md` describe it: it queues all
of a frame's samples or none, and answers. A write is named by its number and an
answer by the number of the write it answers, so the model can tell a call's own
answer from another's, which the code cannot; `stored` is the set of writes whose
samples the host queued. An answer may be lost (`HostReplyInterrupted`: a signal ends
the host's `send()`, and `writeAudioResponse` does not look at the result); `processed`
is the last write whose response has been published. `slips` and `overlap` are history: they count the events
after which a response in flight no longer has a call waiting for it.

`FrameStream` - one direction of the stream. Byte `k` of frame `f` is `<<f, k>>`.
A writer hands `send()` the data at offset `base`; the kernel moves it in pieces
(`MoveSome`, `MoveLast`) as room appears, which is how other writers get in
between; a signal makes the `send()` short (`ShortSend`) or fail
(`InterruptedSend`); the write fails when the connection is over (`FailedSend`).
The reader is `processEvents`: `Recv` returns any part of what is needed,
`RecvHeader` decodes the size, `RecvBody` completes a message and hands it to
`processMessage`, `EmptyBody` is its "size invalid" return. `ReaderIsHost` tells a
`SocketHost` (drops the client on a failure) from a `SocketClient` (ignores
`processMessage`'s result; its thread ends on a failed `recv`, with the socket
open).

`MessageChannel` - what `FrameStream` is for: a FIFO channel of whole messages
that promises nothing once it is torn. `ImplementsChannel` is
`Channel!Spec` under the identity mapping of the history variables `accepted`,
`delivered` and `torn`. `torn` becomes true with the first byte that does not
continue the stream of whole frames; the end of a process leaves a prefix and
tears nothing.

`FrameHeader` - the size and the opcode. Words are four bytes; `Shifted` and `Or`
keep the sign extension that the casts to `char` do where `char` is signed. A native
receiver reads a frame of more than `SOCKET_BUFFER_SIZE` bytes past the end of its
buffer (`SocketHost.cpp:205-215`): the model stops there, with the result `Overrun`.

`AudioClientSocket` - the Java client: threads that call `connect`, a loop thread per
connection, players that write a frame in two steps (`WriteHeader`, which stands for
the size and opcode writes, and `WriteBody`), and the app's end of each connection.
`AudioSocket.connect` is public and takes no lock, and neither does the model: each
caller, a binder thread or the loop thread inside a callback, has its own place
(`pc`), argument (`target`) and thread to join (`joins`), and takes its steps between
any two of another's: `Connect` (91), `TestSocket` (96), `Disconnect` (97-108), `Join`
(109), `ConnectFails`/`ConnectSucceeds` (81-87), `StartLoop` (89-91). The lines within
a pair of brackets are one step. `crossed` is history: two calls have overlapped. A
second call may then find `mSocket` null while the first is in its join, and start a
second loop beside the one that should end; a field taken away between two lines is a
NullPointerException (`Throws`). `reentered` is history too: `connect` has switched the
socket from a callback, whose join of its own thread throws, so that a second loop
starts beside the first. A frame as one item is not faithful to two loops on one
stream, so the properties of the loop exclude both cases by name; `WholeFrames`, about
the writes, does not. `close()` may or may not wake a blocked `read()` (`LoopWoken`,
never forced). `mOutStream` is not volatile: a player may see any stream the field has
held. `mLoopRun` is taken to be seen at once; a stale `true` only takes the loop to a
`read()` that throws. The length, its partial reads (`readDecay`) and the message are
one receive step: with one reader the partial reads have no other effect. The app's
end sends SHUTDOWN if it is a `SocketHost` that is destroyed (`HostShutdown`), which
nothing forces and an `AudioHostSocket` never does.

`NativeConnection` - the native socket from construction to destruction. It
composes three modules. `LocalSockets` is what the kernel keeps: the name, the
backlog of connections, which process has a descriptor of which connection, and
whether there is anything to read. `SocketHost` is the app: its owner
(`HostInitialize` 76-78, `HostJoin`, `HostListens`/`HostBindFails`, and the
destructor as `HostDestroy`, `HostShuts`, `HostFrees`), its event thread
(`HostTest` 149-150, `HostAccepts`, `HostReceives`, `HostDrops` 161-165,
`HostForgets` 166) and a thread that writes, which reads `m_Client` again for each
`send()` (`HostWrites`, `HostSendsPart`, `HostSendsAll`, and `HostSendFails`, for which
a signal is enough).
`SocketClient` is the plugins: the owner of each client object and the event
threads its initializations started. `NativeConnection` adds the death of a
process and its restart. A descriptor field holds the connection its number was
given for; `Stale` is the number of a socket that was closed at once; `hostServer`,
the host's `m_Server`, is no number, a stale one (after a `bind` or `listen` that
failed) or `Listening`. A client's `connect` fails for want of a socket, of a listener
or by a signal (`ClientRefused`). Frames are
whole (their bytes are `FrameStream`'s): `toHost` and `toClient` are the
connections with something to read. Simplifications: there is no table of
descriptors, so what else a stale number may hit, in a second close or in the
shutdown of the host's destructor, is only known to be "another file"; a message that `processMessage` refuses is a `HostDrops`; the thread of a
destroyed host, which runs on in freed memory, is not followed, and that of a
destroyed client only for as long as it is blocked in `recv()` ("orphan"), where
it keeps the connection open. What the model makes visible: the listening socket
is never closed, only shut down, so that every later `initialize` in the process
fails with EADDRINUSE; initializing a running client leaks its old socket, which
the host goes on serving; a host's destructor leaves its client's connection
open, and native clients ignore SHUTDOWN.

`AudioHostSocket` - the Java host, with the same unlocked `connect`. A caller, a thread
of the app or a loop thread in a callback or in the listener, runs `Connect`,
`TestSocket` (135), `Close` (136-138), `Wake` (the connection to itself that works
around Android bug 29939), `Forget` (`mSocket = null`), `Join` (155),
`Initialize`/`InitializeFails` (124) and `StartLoop` (125-130). On the loop thread it
waits for itself. `crossed`: while one caller is in `Join`, another, even the listener
on the very thread being joined, finds `mSocket` null, starts a second loop and sets
`mLoopRun` again, so that the first loop goes on and its join never ends. A loop
thread takes the steps at which it reads a field again: `LoopCheck`, `LoopAccept`,
`LoopAccepted`, the two tests of line 55, the log line whose exception is caught,
`LoopPolls`, `LoopReceives` / `LoopStops` / `LoopThrows`, and the callbacks. `inbox` is
as much of the client's data as the loop can tell apart: nothing, a part of a frame, a
good or a bad frame, a frame cut off, the end. `mLoopRun` is taken to be seen at once
although it is not volatile, and nobody interrupts the joining thread. A length of
which only 1 to 3 bytes arrived before the end is the same as an end between frames:
`available()` stays too small for ever.

`CallbackRegistry` - the list of the sample service. The search is under the lock,
one callback a step, since `getIdentifier()` is a call to the client's process,
which throws when that has died; `ArrayList.add` outside of it is a read of the size
(`AddReads`) and a store (`AddStores`), so that two of them lose an element or leave
a hole, and an iterator notices a modification (`modified`). `Poisoned`: once a dead
client is in the list, every search ends at it, so new clients are dropped in
silence, and only `onDestroy` gets rid of it.

`Entities` - one entity of a provider, changed through its setters and list
methods, and the copy the app got last. `name` stands for the strings, `details` for
the numbers and flags, `list` for the references. `IsIdentical` has the test of each
kind, with its quirks: an album or playlist without a name is not identical to
itself, a genre to no genre, and the lists are compared only up to the end of the
other one's.

The `MC...` modules and the `.cfg` files give the constants values. Operators
whose comment starts with "Mutant" are deliberate bugs: each replaces a
definition in turn, to show that the property named for it in `PROJECT.json`
would notice.

## 3. What is checked

| Run | Instance | What it shows |
|---|---|---|
| `handshake` | 2 threads, one the event thread; 4 calls; queues of 1 | the six safety properties of the handshake |
| `handshake_live` | 2 threads, one the event thread; 3 calls; queues of 1 | every call returns, also one made inside `onAudioResponse` |
| `frames` | 2 writers, frames of 3 and 4 bytes, header of 2, buffer of 3, 2 signals, a host that reads | refinement of the channel, liveness |
| `native` | 1 plugin, 2 connections, backlog of 2, 2 initializations of hosts, 1 re-initialization of a client | descriptors, leaks, threads, strays, turns, joins |
| `java_client` | 2 names, 1 binder thread and 2 loop threads, 3 connects, 2 connections, 1 player, 2 frames, 1 message or SHUTDOWN | switching the socket |
| `java_host` | 2 names, 1 thread of the app and 3 loop threads, 3 connects, 3 server sockets, 2 clients | the accept loop and its end |
| `headers` | 310 sizes, all pairs of implementations | sizes and opcodes |
| `registry` | 2 clients, 2 threads, 4 calls | what the list says after the calls |
| `entities` | 2 names and none, 2 values of the other fields, 2 references, lists up to 3 | what `isIdentical` says |
| `send_cycle` | 5 calls, queues of 1 | **violated**: one call beyond the pipeline can block for good |
| `resend_offset` | 1 writer, 1 frame, 2 signals | **violated**: the third `send()` starts at a wrong offset |
| `coded_output` | 2 connections, byte[] writes | **violated**: bodies go to the first stream |

The properties of the handshake. `NoMissedNotify` is the comment at
`SocketCommon.cpp:149`. `ExactUntilDisturbed` is the comment at
`SocketCommon.h:53`, with the condition under which it is true: no timeout, no
spurious wake-up, no asynchronous write, no overlapping call so far. `DriftBounded`
says what is left without the condition: responses that a later call may take for
its own are never more than the slips that put them there. `PositiveWasQueued`:
the count is some queued write's. `NoSendCycle` bounds the deadlock that
`send_cycle` exhibits: it needs more calls than both buffers and two threads hold.

The native socket. `HostDescriptors` and `ClientDescriptors` say what the fields
stand for; `StrayNeedsDrop` that a frame for one client reaches another only if the
event thread dropped a client meanwhile (which does happen: a `send()` of the rest
of a frame may go to the next client); `LeakBounded` counts what a plugin leaves open;
`TurnComes` and `JoinEnds` are the two waits, for the backlog and for the event
thread. `JoinEnds` is as strong as the code allows: "Ensure we stop previous events"
(`SocketHost.cpp:76`, `SocketClient.cpp:66`) waits for the *other* process to send
something or go away.

The Java sockets. Whatever `connect` promises it promises to calls that do not overlap:
`OneLoop`, `OneLoopReads`, `LoopOrNotice`, `CrashNeedsDisconnect`, `DisconnectReturns`
and `ConnectReturns` name `crossed` as an exception. Each is false without it: TLC then
finds a counterexample in the same instance, for `LoopOrNotice` and
`CrashNeedsDisconnect` in one with a second thread of the app. `ConnectReturns` has one more: `connect` joins a loop that
may stay in a `read()` which `close()` does not wake, on a connection on which the app
neither sends anything nor ends; the app may itself be waiting for this very call.

The Java host. `LoopOrNotice`: a host that has a name and no loop has failed, or has
told its listener. `CrashNeedsDisconnect` bounds the uncaught NullPointerExceptions
of lines 52 and 55. `DisconnectReturns` and `CutClientLeaves` name their exceptions: a
callback that waits for itself, and a client that stops inside a frame without
ending.

The registry and the entities. `DuplicateNeedsOverlap`, `ReturnedMeansRegistered` and
`UnregisteredIsGone` each name the condition without which the code does not keep
the promise: two calls at once, or a dead client in the list. `IdenticalMeansSame` and
`SameMeansIdentical` are the two halves of "exactly the same contents"
(`model/BoundEntity.java:156-160`), with what each kind leaves out.

The bounds. Queues of one frame make every `send()` block at the earliest moment.
Four calls by two threads cover a timeout whose reply is taken by the next call
and by the one after, and are `OutCap + BackCap + 2`, the largest number for which
`NoSendCycle` says something; `send_cycle` uses one more. In `frames` the buffer
holds less than two frames and each frame is longer than its header, so that reads
and writes split both; two signals are enough for a tear. Three connects cover a
switch, a failed switch and the recovery from one. Two connections are what a
stray frame, a leak and a turn need; a second plugin would only make connections
the first can make as well, since plugins meet in the host alone. Three connects of
the host allow a switch during a switch, from the listener of the loop that is being
joined, two clients a queue behind the one served. The liveness run has three calls,
one less than the pipeline holds: a call, one from its callback, and one after both.
The sizes of `headers` end with the last that fits the native buffer, the next one, and
the last that Java takes. Two threads with four calls are enough for both races of
`add` and a call after them; a list of three has a middle. Bounds are the constants
`Max...`; they occur only as guards of the actions that start something new.

Deadlock is checked in every run; `Quiescent`, `Over` and `Done` are the states in
which the system may rightly stop: in the Java client this includes a loop left in
`read()`, in the Java host a connector left in `join()`. In `NativeConnection` a
process may always die, and in `Entities` a copy be sent, so neither stops.

Fairness. Threads that can run do, and the clock advances (`SocketCommon`); the
event thread reads and the kernel moves bytes it has room for (`FrameStream`); callers
inside `connect` and loops run (`AudioClientSocket`, `AudioHostSocket`), and the app is
not forced to send, to destroy its host or to end; owners inside a call and event
threads run (`NativeConnection`). Weak
fairness is enough; for a mutex this is what a free mutex and a waiting thread
give. No new call, signal, spurious wake-up, failure, lost reply, close, client, frame
or death is forced.

`WriteReturns`, `AcceptedIsDelivered` and `CallReturns` (`Deaf`) name their exception:
a client whose event thread a signal has ended with its socket open reads no more
frames, and so blocks the host, then its own writers, once the buffers are full.

## 4. What is proved

The eight `...Proofs` modules are checked by TLAPS, for every value of the constants
that satisfies the named assumptions of their modules. So the callers of the Java
sockets are any set of threads there.

* Handshake: `TypeCorrect`, `NotifyNeverMissed`, `DriftIsBounded`,
  `PositiveIsQueued`, `ExactWhenUndisturbed`, `NoSendCycleInPipeline`: all the
  safety properties of the run. None is inductive alone. They rest on `Pipeline`:
  `MutexHeld` (which label holds the mutex), `InOrder` (the frames between a send
  and its publication are increasing numbers, with gaps where a reply was lost: the
  event thread's, then `back`, the host's, `out`) and `InFlight` (each of them leaves
  room for those behind it up to `sent`, so that there are at most `sent - processed`). With it,
  `NoMissedNotify` follows because `Publish` needs the mutex a sender holds until
  it waits. `DriftBounded` counts: each step that takes a call out of `Pending`
  either publishes a response or slips. `ExactUntilDisturbed` adds `Alone` (without
  an overlap one call is in progress) and uses `DriftBounded` with zero slips: when
  a call's own response is published, nothing else was in flight.
  `NoSendCycle` adds `FramesAreCalls`: every frame is a call's, so a closed cycle
  is `OutCap + BackCap + 2` frames and one call that has not sent its own.
* Byte stream: `TypeCorrect`, from an invariant on the offsets of a `send()` in
  progress (`Sending`) and on the reader's buffer (`Reading`), which is what keeps
  `left - gone` a natural number. `TornByTwo` adds that, without an overlap, one
  writer is in a write (`OneAtATime`), that an undoubled write has been cut short at
  most once (`HitOnce`), and that the last byte on the stream is then the one before
  the next to go (`Continuous`). With the frame numbers (`Numbered`) it also gives
  `AllSentUnlessDoubled`: what run `resend_offset` finds (true is returned for a frame
  that is not all on the stream) takes two signals in one write.
* Byte stream, refinement: `StreamIsChannel` proves that `FrameStream` implements
  `MessageChannel`, with the variables of the same names for the channel's. Writes and
  moves of a part of a frame are stutters, the last move of a frame is `Accept`, the
  completion of a body is `Deliver`, and a byte out of place is `Tear`. The
  step of `RecvBody` needs to know what the bytes are; this is `ChannelInv`:
  the bytes received and those in the kernel are one stream, `got \o wire`, and until
  it is torn it is `Parsed`: the frames accepted and not delivered, one after the other,
  then the part of one more that ends with `lastByte` (`InFrames`). It is kept because
  a `send()` either goes on where the stream ends and has the rest of its frame, or
  nothing it moves continues the stream (`Placed`), and no two writes have the same frame
  (`Distinct`). `PartComes`, `RestComes` and `FirstTaken` are the three lemmas on such
  streams: a part of a frame arrives, its last part arrives, the first frame is taken off.
  `FramesInOrder` draws the consequence for the two lists of frames.
* Header: `TypeCorrect`, `HeadersUnderstood` (every body that fits the receiver's
  buffer) and `ShutdownIsHeard`, where `char` is unsigned: a number is its four bytes (`WordToBytes`), the shifts and ors of the
  native decoder give the same word (`FromBytesIsWord`), and opcodes are injective.
* Native socket, host: `HostKeepsTrack` and `NoStrayWithoutDrop`, from `HostInv`: a
  process that has never listened has accepted nothing (`Unlistened`), the loop's
  place says whether `m_Client` stands for an open connection (`LoopKnows`), and a
  write that began with a client still has it, or has seen a drop (`Writing`).
* Native socket, clients: `OneThread` and `ClientKeepsTrack` from `ClientPart`: a
  connection not made yet has no thread and no descriptor (`Made`), the current thread's
  connection is open (`ThreadOpen`), `m_Server` is its thread's (`ServerOfThread`),
  and only running threads are in `recv()` (`InRecvRuns`). `LeakIsBounded` gives each
  leaked connection one of the re-initializations (`LeakInv`).
* Java host: `AtMostOneLoop`, `StoppedIsTold`, `CrashOnlyInDisconnect`, from `Solo`, which
  holds until two calls of `connect` overlap: one caller is busy and finds the fields as
  the step before has left them (`OneConnect`), only `mLoopThread` is alive, and none is
  where `mSocket` is null but for the join that waits for it (`OnlyThread`), and between
  calls it is alive with `mLoopRun` true, or the listener has been told (`Served`).
* Java client: `OneLoop`, from the same two parts of its own `Solo` (the one loop alive is
  `mLoopThread`, on `mInStream`, and it is gone where `connect` sets up the next), and
  `FramesAreWhole` without the byte[] method and however calls overlap, from
  `HalfWritten`: a header without a body belongs to a player between the two, or to a
  stream that takes nothing more, or two players overlapped.
* Registry: `NoDuplicateWithoutOverlap`, `RegisteredUntilCrowded`, `GoneUntilCrowded`. The invariant says of a `register` in
  progress that the part of the list it has searched does not have its callback, that
  nobody else is adding it unless its client has two calls at once, and hence that it
  is not in the list when it is added (`DupInv`). The other two add what holds as
  long as no two calls have overlapped (`Orderly`): the list has no null element
  (`Solid`), an append goes where the list ends (`Counted`), and an iterator is
  never invalid and has passed only other callbacks (`Steady`); so a
  call that ends without an exception has done what it was asked (`EndsAnswer`).
* Entities: `IdenticalIsSame` and `SameIsIdentical`, for lists of any length: the copy
  of an album or an artist is a prefix of the entity's list, which is what makes the
  one-sided comparison enough.

Every safety property that a passing run checks is a theorem, and so is the refinement.
Only model-checked: the liveness properties (`CallReturns`, `AcceptedIsDelivered`,
`WriteReturns`, `ConnectReturns`, `DisconnectReturns`, `CutClientLeaves`, `TurnComes`,
`JoinEnds`), as they need fairness and ENABLED, which the prover does not handle; and the
three violations, which are counterexamples.

## 5. Findings

Each violation run contradicts a statement of the repository, quoted in
`PROJECT.json`: the 500 ms limit does not cover the send or the lock; the resend
offset forgets all but the last `send()`; the cached `CodedOutputStream` survives its
connection. Other disagreements that the models met and no run is spent on, since one
look at the lines shows them:

* a timed-out write returns 0, which asks for a retry (`README.md:75`), though its
  samples may be queued (`SocketCommon.cpp:165`);
* a `connect()` that failed cannot be retried with the same name: it returns without
  doing anything (`AudioSocket.java:86` against `:94`), and with another name it throws
  (`AudioClientSocket.java:99`);
* opcodes 3 and 5 are swapped between the implementations (`SocketCommon.h:30`,
  `AudioSocket.java:56-58`); `FrameUnderstood` is about the others;
* `Album.isIdentical` ignores the year, and for albums and artists the answer depends
  on who is asked: the old copy tells that the new one has grown, the new one calls
  the old one identical; `Genre.isIdentical` asks whether the other is a
  `Playlist`, and throws if that has no name;
* `ProviderIdentifier`'s parcel leaves out `mIsMultiProviderIdentifier`.

## 6. Not modelled

* The contents of messages beyond their kind and size (the Java handlers merge each
  into a builder that is never cleared, but all fields are required); what follows
  once a frame larger than the receive buffer has been read (`Overrun` is the end of the
  model); memory after `delete`; `gProtobufUsageCount`.
* SIGPIPE (Android's runtime ignores it, so a broken connection is an error return),
  the finalizers of the Java sockets and of the `LocalSocket`s that are dropped without
  being closed, `InterruptedException` from outside.
* `SearchResult` and `ProviderIdentifier`, and the provider and logo of an entity:
  values that the code copies and compares, without operations to interleave.
* The AIDL declarations, `Constants`, the generated protobuf code, the build files, and
  the vendored protobuf library, which is most of the repository's lines: it is
  third-party code behind `SerializeToArray` and `ParseFromArray`.

What could still be added: the bytes of `FrameStream` under the descriptors of
`NativeConnection`, so that a stray piece of a frame is seen by the client that gets it.
