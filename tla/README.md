# Verification of the EngProject streaming programs

The repository is a set of small C++ programs that stream audio and video
between machines: a TCP relay with its clients, peer-to-peer UDP programs,
latency-measuring variants of both, and a WebRTC signalling sketch.  This
directory holds TLA+ modules translated from that code, the TLC configurations
that check them, and theorems that TLAPS checks.

Source paths below are relative to `src/`.

## 1. Inventory

| Component | Source | State | Operations | Interacts with |
|---|---|---|---|---|
| TCP relay server | `TCPS/Server/TCPS.cpp` (the same loops in `TCPattempt/TCP_server/TCPserver2.cpp` and `TCPMeasure/Audio/TCPLBSr.cpp`) | vector `clients`, mutex `client_m`, a detached thread per client | accept and register, receive, broadcast under the mutex, unregister and close | stream clients over TCP |
| Streaming client | `TCPS/Client/TCPSC.cpp`, older `TCPattempt/TCP_client/TCPclient2.cpp` | `stop_streaming`, three sockets, two ALSA devices, two threads | connect with retries, capture and send, receive and play, shut down | relay; two local visualizers (Python) |
| UDP peer | `Online_Tracks/UDPconn1.cpp`, `UDPconn2.cpp` | `stop_streaming`, condition variable, one socket, two local descriptors | capture and send, receive and play, stop on Ctrl+C | the other peer |
| Audio/video node | `Online_AV/Online_AV.cpp` | `running`, `peer_List` and its mutex, one socket, `fragment_buffer` | broadcast HELLO, discover, send audio, send video in fragments, play audio, put frames together, shut down | all nodes of the LAN |
| Measured audio client | `TCPMeasure/Audio/TCPLBCl.cpp` | retries, two threads on one socket | connect with retries, send and wait for an acknowledgement, receive and play | the relay `TCPLBSr.cpp` |
| Round-trip measurement | `TCPMeasure/Basic/ClientBasicTCPM.cpp`, `MeasureTCP.cpp` | retries, the two byte streams, a detached thread per client | send a packet and wait; receive a piece and acknowledge it | each other |
| UDP audio loop | `UDPaudio/UDPaudio.cpp` | two threads, a socket each | send time-stamped audio; receive and play | another instance |
| Discovery stream | `IPcheck/IPcheckstream.cpp` | `peer_addresses` and its mutex, two sockets | broadcast HELLO, add a peer, send to all peers, play | nodes of the LAN |
| Raw audio link | `rtaudio_stream/` | one socket | send; receive | each other |
| WebRTC signalling | `WebRTC/Peers/`, `WebRTC/WebRTCServer.js` | websocket, `io_context`, read buffer | connect, read, send; relay to all | browser peers |
| Scripts | `*.py` | framing of a byte stream, plots | read records, draw | the programs above |
| Tests of devices, vendored code | `OpenCVTest/`, `WebRTC/` libraries, build outputs | - | - | - |

How they interact.  Clients and relay share nothing but TCP connections; a
relay's handler threads share the vector and the mutex, and all of a process's
threads share its descriptor table.  A client's threads share the flag
`stop_streaming` and descriptors passed by value.  UDP programs share a lossy
network that reorders and duplicates; in `Online_AV` three threads receive on
one socket, so that the kernel's choice of a thread is part of the protocol.

What is hard here, and what the properties are about:

- *Broadcast under a mutex* (relay): one order for all receivers, iterators and
  descriptors that stay valid while others join and leave, a receiver that is
  reset in the middle of the loop, a `send()` that blocks with the mutex held.
- *Descriptor numbers are reused*: a `close()` followed by somebody's
  `accept()`, `socket()` or `open()` gives the number a new meaning while the
  old one is still written down somewhere.
- *Ending*: a flag that is read between two blocking calls, threads that wait
  for data in order to notice the flag, a signal between the test of a
  predicate and the wait, joins that wait for them.
- *Counting attempts and fragments*: a retry counter that is used to tell
  success from failure, a number of fragments that is used to tell a complete
  frame, frame numbers that several senders count from 0.
- *Byte streams*: `recv()` returns any part of what was sent, so that packets,
  pieces and acknowledgements need not correspond; two threads of a client read
  the same stream for different things.
- *The other end goes*: what a thread learns of it, and when, depends on whether
  it sends or receives, on bytes nobody has read, and on SIGPIPE.
- *Device errors* at any point: each thread has its own way out, some set the
  flag, some do not.

What makes each component correct:

- relay: every registered client receives all chunks of the others, in one
  order, nothing twice; the vector names the sockets of the running handlers
  and nothing else; broadcasts end; descriptors of clients that left are closed;
- client: no thread works on or closes a number that has become another
  file's; a client that is told to stop, or has lost its relay, ends; a
  visualizer that accepted is used;
- UDP peer: the socket outlives its users; a stop reaches all threads; the end
  of a stream is recognised when it is the end;
- audio/video node: a displayed frame is one that was sent, whole; a frame that
  has been received is displayed; when one thread ends the others do; the peer list is free of duplicates and stable
  under the loops over it; the node ends when asked to;
- measurement: a sender that waits for an acknowledgement has one coming, what
  its figure is worth is known, each side ends or releases its socket when the
  other has gone, and a client that is gone or slow harms no other.

## 2. Modules

| Module | What it is | Source lines |
|---|---|---|
| `RelayServer` | the relay's main thread, handler threads, and the part of the kernel they use | `TCPS.cpp` 42-211 |
| `TotalOrderBroadcast` | what a relay promises: a log, and members that lag behind it | (abstract) |
| `RelayServerInv` | the inductive invariants | |
| `RelayServerProofs` | theorems and proofs: descriptors, vector, mutex | |
| `RelayOrderProofs` | theorems and proofs: one order of all streams | |
| `RelayRefinementProofs` | theorems and proofs: `TotalOrderBroadcast` is implemented | |
| `StreamClient` | `main()`, `audio_cap`, `play_audio` of both clients, the descriptor table | `TCPSC.cpp` 42-347, `TCPclient2.cpp` 42-318 |
| `StreamClientProofs` | theorems and proofs | |
| `UdpPeer` | two peers with their threads, signal handler and condition variable | `UDPconn1.cpp` 47-312 |
| `UdpPeerProofs` | theorems and proofs | |
| `VideoStream` | a frame's way from encoder to display | `Online_AV.cpp` 59-75, 102-201, 231-306 |
| `VideoStreamProofs` | theorems and proofs | |
| `AvNode` | the six threads and `main()` of a node, the peer list, the shared socket; the four threads of its predecessor | `Online_AV.cpp` 102-434, `IPcheckstream.cpp` 41-147 |
| `AvNodeProofs` | theorems and proofs | |
| `Measurement` | both kinds of measuring client with their servers | `TCPLBCl.cpp` 25-188, `ClientBasicTCPM.cpp` 22-111, `MeasureTCP.cpp` 12-86, `TCPLBSr.cpp` 30-60, 126-147 |
| `MeasurementProofs` | theorems and proofs | |
| `MC...` | small constants for TLC | |

### RelayServer

A connection is identified by its client.  `clients`, `client_m`, `new_fd`,
`client_socket`, `buffer` are the variables of the code; `next` is the position
of the range-`for`; `pc` and `mainPc` say where a thread is.  `fdTab`,
`backlog`, `peer`, `up`, `out`, `taken` are the kernel: which connection a
number stands for, the accept queue, what the other end did, and the two byte
streams.  `accept()` returns the lowest free number, as POSIX demands.
One action is the code between two points where another thread can do
something that matters: `recv()`, taking the mutex, each `send()`, the erase,
the `close()`.  `send()` has four outcomes: written, discarded (the other end
closed, which the kernel does not know yet), failed (reset, with SIGPIPE
ignored), killed (reset, default action).  `TCPS.cpp` leaves SIGPIPE alone and
`TCPLBSr.cpp` ignores it; the constant `IgnoreSigpipe` tells them apart.  The
history `log` gets a chunk when its broadcast takes the mutex.

`TotalOrderBroadcast` is the abstract specification; `ImplementsBroadcast` in
`RelayServer` maps a connection to a member (in from `push_back` until its
client leaves) and its place in the vector, relative to the broadcast that is
going on, to its place in the log.

### StreamClient

The constant part of the state is `older`, chosen at the start: which of the two
programs runs.  They share the two threads; the newer one retries its
visualizers and closes the relay's socket in `audio_cap`, the older one tries
once and closes after the joins.  Audio data does not exist in the model;
the outcome of each device and socket call does.  Five descriptors (three
sockets, two ALSA devices) are handed out lowest first.

### UdpPeer

Two instances of the program, with at most one datagram of each kind on its way
to each.
`audio_cap` and `play_audio` have a step for each blocking call, `main()` one for
the predicate, one for going to sleep.  The local descriptors are never
initialised in the code; the constant `garbage` names those whose stack slots
happen to hold the socket's number.  `MayFail` and `MayOverrun` say which peer
may meet which other mishap.  `UDPconn2.cpp` differs from `UDPconn1.cpp` in
its ports and addresses only.

### VideoStream

A datagram is the record that `VideoPlayback` casts it to.  Audio packets and
HELLOs are what their bytes are in that record: an audio packet starts with a
sequence number, so that it lands in the bucket of some frame, and its first
eight bytes of sound lie where a fragment has its size `fragment_s`.  They are
any number of `AudioWords`.  If the frame of such a bucket is put together,
bytes from beyond the fragment's data are read (`Online_AV.cpp:265`), which is
undefined: whatever is there is taken (`Reform`), or the process ends
(`ReformFails`, after which `alive` is false).  `mishaps` is a
history of what the network and the users did; properties that hold only
without some mishap say so.  A datagram taken by one of the other two receiving
threads is lost for this one, which is part of `Lose`.

### AvNode

One node in full, the others as what comes from them.  A HELLO is the address
it comes from; the node's own broadcasts reach it, too, so it becomes its own
peer and its streams come back to it.  The queue of the socket is a bounded
set.  `peer_mute` is held by a sending thread from the lock to the end of its
loop; `LookForPeers`' critical section blocks on nothing and is one step.

`older`, chosen at the start, tells the two programs apart.  `IPcheckstream.cpp`
has the same broadcast, list, mutex and loop, no video, no way to end, errors
of the device that it ignores, and a socket of its own for HELLOs, so that its
two receivers do not take each other's datagrams (`SameSocket`); every datagram
on that socket makes its sender a peer.  The threads that the programs share
have the names of the newer one.

### Measurement

`program` tells the two pairs of programs apart.  A connection carries a number
of bytes in each direction (`up`, `down`); a `recv()` takes any number of them
from one to the size of its buffer.  What is in the bytes no control depends
on: the clients test an acknowledgement's length only.  `conn` says which end
has closed and what the other one can know of it: a `send()` to an end that has
closed is discarded and draws a reset, after which a `recv()` fails and a
further `send()` fails, or ends `MeasureTCP`, which leaves SIGPIPE alone (the
server is then "crashed").  An end that closes with bytes unread sends the reset
at once.

The relay `TCPLBSr` is here what its clients can notice of it: `clients`, the
chunk that each handler has received, the mutex (`client_m`), and the loop
under it, one `send()` a step (`other_client` is the client it sends to, `rest`
those still to come).  A `send()` of the audio programs waits until the bytes fit
under `SndBuf`, the handlers' with the mutex held.  `main()` takes the mutex to
register a client, the handlers to unregister one.  The order of the vector and
the descriptors are `RelayServer`'s subject; here the loop takes the clients in
any order.  The basic programs have at most a packet or a few acknowledgements
on their way, which are taken to find room.

## 3. Runs

Deadlock checking is off everywhere: programs end, traffic is bounded, and
threads that stay blocked for good (in `recv()`, or on a client that does not
read) are behaviours of the code.  What must not block is stated as liveness.

| Run | Properties | What it shows |
|---|---|---|
| `relay_safety` | `TypeOK`, `RegisteredOnce`, `NoStaleDescriptor`, `SameOrder`, `IInv`, `StreamInv`, `ImplementsBroadcast` | three clients that join, send, leave and are reset in every interleaving |
| `relay_live` | `BroadcastEnds`, `DescriptorReleased` | with clients that read and SIGPIPE ignored, broadcasts end and descriptors are freed |
| `relay_sigpipe` | `BroadcastReachesAll` violated | a reset client kills the server in mid-broadcast (`TCPS.cpp:53`) |
| `client` | `TypeOK`, `NoForeignClose`, `JoinBeforeClose`, `StopEnds`, `ServerCloseEnds` | both clients; who closes what, and that they end |
| `client_retry` | `ConnectedIsKept` violated | success at the fifth attempt counts as failure (`TCPSC.cpp:315`) |
| `udp` | `TypeOK`, `SocketHeld`, `StopEnds` | two peers with failures, overruns and garbage descriptors; a stop reaches all threads |
| `udp_empty` | `EmptyMeansClosed` violated | a recovered overrun sends an empty datagram, which ends the other peer (`UDPconn1.cpp:94`) |
| `video` | `TypeOK`, `PureIsWhole`, `CompleteIsShown`, `FramesShown` | fragments over a network that loses, reorders and duplicates |
| `video_mix` | `ShownWhole` violated | an audio packet, or a fragment of another node, makes up for a fragment that has not come, and the frame is put together without it (`Online_AV.cpp:251, 256`) |
| `av_node` | `TypeOK`, `KnownOnce`, `LoopUndisturbed`, `OneEndsAll`, `StopEnds`, `Discovery` | six threads (four in the older program), the user and a peer that comes and goes |
| `av_stop` | `EnterStops` violated | a node that is alone does not end (`Online_AV.cpp:212`) |
| `measure` | `TypeOK`, `AckOwed`, `SendsToClient`, `LagStays`, `AckArrives`, `ServerGoneEnds`, `SocketReleased` | two clients of either kind and their server: streams cut anywhere, either end killed at any point, the relay's handlers waiting in `send()` with the mutex held |

What some of these properties do not say:

- `CompleteIsShown` holds where no datagram overtakes another or is copied and
  nothing else comes under the frame's number.  With any of these the frame may
  stay in the map for good: a last fragment that overtakes another is counted
  too early, and nothing counts again (`Online_AV.cpp:254`).
- `PureIsWhole` is about frames put together of one run's fragments without
  copies; what else may be put together is in `video_mix`.
- `StopEnds` of the UDP peers assumes a user who presses Ctrl+C again and a peer
  that streams (see Fairness), and so is no answer to a lost notification, to a
  thread that sets the flag and notifies nobody, or to a silent peer.  `StopEnds`
  of the client assumes that a stalled visualizer reads again or leaves.
  `StopEnds` of the node is about a node that has a peer; `av_stop` shows one that
  is alone.
- `SocketHeld` excludes the peer one of whose uninitialised descriptors holds the
  socket's number; that peer may close its socket under its own threads.
- `SocketReleased` excludes a server that SIGPIPE has ended (`MeasureTCP.cpp:30`) and
  the time while a client that plays nothing is connected (`Deaf`).  Such a client
  exists: its playback thread could not open the device (`TCPLBCl.cpp:138-141`),
  its other thread streams on and reads eight bytes now and then, and `main()`
  waits for both.  The `send()` to it may then not return, with the mutex held,
  and nobody is registered, unregistered or closed until it goes.
- `AckArrives` is about the basic client.  `TCPLBCl.cpp:112` announces an
  acknowledgement to the audio client, too, but its relay sends none: the thread
  goes on only when somebody else's sound comes, or the relay goes
  (`ServerGoneEnds`).
- `LagStays` records what short reads do to the figures; it is no promise of the
  code.

Bounds, and why they are enough:

- *Relay.*  Three connections are the least with a sender, a receiver that goes
  away and one after it in the vector, or two senders and a common receiver.
  An accept queue of one makes connecting wait; every client sends one byte,
  and a connection's number is reused as soon as it is closed.  Connections are
  interchangeable, hence the symmetry (no liveness is checked with it).  In
  `relay_live` two connections send two bytes each, read one at a time into
  buffers of one byte, so that `send()` blocks on a full buffer.
- *Client.*  `max_retries = 5` is the code's value; there are as many
  descriptors as the process opens; one chunk waiting is enough to get
  `recv()` to return.
- *UDP.*  A datagram of each kind on the way to each peer: more of one kind
  changes nothing that a thread can see.  One peer has the failures and
  overruns, the other the descriptor that holds the socket's number, so that
  the mishaps of one meet the waiting of the other.
- *Video.*  Fragments of two bytes, frames of one byte (one fragment, not full)
  and four (two, full), two frames, three datagrams on their way, one restart,
  one copy, an audio packet whose sound reads as the size 0 or as one beyond the
  fragment's data, and any two kinds of mishap in one behaviour.  One fragment is the
  least that is both first and last, two the least that can be reordered.
- *Node.*  One peer and the node itself make two addresses, enough to have a
  loop with more than one send and a list that changes; with one place in the
  queue datagrams are dropped.
- *Measurement.*  Packets of three bytes (in the audio programs a stamp of two and
  one of sound) in buffers of three, and acknowledgements of two, are the least
  that can be cut into pieces that do not end where a packet ends.  One client
  sends three packets, the other one: enough to be behind and to go on, and for
  nine bytes to fill a connection that holds five (`SndBuf`), so that a handler
  waits in `send()` when clients come and go; without its exclusion of deaf
  clients `SocketReleased` is violated within these bounds.  One attempt to
  connect: another one only repeats it.

Fairness, and what in the code justifies it:

- threads that can run do run (weak fairness per thread or per program): the
  operating system's scheduler;
- relay: clients in `Readers` read; nobody has to connect, send or leave.  The
  mutex needs only weak fairness: `BroadcastEnds` is about the holder, and
  `DescriptorReleased`, which waits for the mutex, is checked with bounded
  traffic, after which nobody else wants it (with endless traffic it would need
  a mutex that starves no thread);
- client: a stalled receiver takes bytes again or leaves, and the relay sends as
  long as it is connected: without this a client in `recv()` has no reason to
  return, which the code does not guard against;
- UDP: of datagrams sent for ever some arrive and are received (strong fairness
  of `PlayRecv`), and a user whose program does not stop presses Ctrl+C again:
  the notification of the first one may be lost (`UDPconn1.cpp:297`);
- video: what is not lost is received, and a frame that is being sent is sent to
  its end;
- node: a peer that is on is heard of again and again (it sends a HELLO every
  `Broadcast_Int` seconds), frames have an end, and each of the three waiting
  receivers gets a datagram now and then (the kernel queues waiters).  In the
  older program the HELLOs of a peer that is on are not all lost (strong
  fairness of `HelloArrives`);
- measurement: the threads of clients and servers run, the relay accepts, and a
  device need not fail: nobody has to start or to be killed.  The bound on
  packets stops a client's sending thread for good, as a silent microphone
  would.

## 4. Proofs

Every invariant, every safety property of steps and the refinement that the
passing runs check on small instances are theorems for every value of the
constants.  The named assumptions of the modules are all they rest on:

- `RelayServer`: any set of connections and of descriptors, any sizes of buffers
  (naturals); `NoConn` is no connection, descriptors are naturals;
- `StreamClient`: any positive number of attempts, any finite set of at least
  five descriptors (the process opens three sockets and two devices, so that it
  never runs out of them in the model, as it does not in the code);
- `UdpPeer`: any two peers, any choice of `MayFail`, `MayOverrun`, `garbage`;
- `VideoStream`: any set of peers, any positive size of fragments, any natural
  numbers for bytes of sound (`AudioAssumption`), any set of positive frame sizes
  that has a largest one (`LargestAssumption`: a camera's resolution does not
  change while the program runs, which bounds the encoded frame; `TypeOK` needs it
  to bound `total_fragments`), any bounds;
- `AvNode`: any set of peers and any size of the queue;
- `Measurement`: any set of clients (`NobodyAssumption`: "nobody" is none of
  them), any positive sizes of buffers, packets and acknowledgements, a
  connection that has room for a packet (`RoomAssumption`), any number of attempts
  and of packets, either pair of programs.

| Module | Theorem | Says |
|---|---|---|
| `RelayServerProofs` | `Inductive` | `Spec => []IInv` |
| | `TypeCorrect` | `Spec => []TypeOK` |
| | `Registration` | `Spec => []RegisteredOnce` |
| | `Freshness` | `Spec => []NoStaleDescriptor` |
| `RelayOrderProofs` | `OrderInductive` | `Spec => []OrderInv` |
| | `StreamsSound` | `Spec => []StreamInv` |
| | `OneOrder` | `Spec => []SameOrder` |
| `RelayRefinementProofs` | `Refinement` | `Spec => ImplementsBroadcast` |
| | `BroadcastSpec` | `Spec => Abstract!Spec` |
| `StreamClientProofs` | `ClientInductive` | `Spec => []IInv` |
| | `ClientTypes` | `Spec => []TypeOK` |
| | `ClientNoForeignClose` | `Spec => []NoForeignClose` |
| | `ClientJoinBeforeClose` | `Spec => []JoinBeforeClose` |
| `UdpPeerProofs` | `UdpTypes` | `Spec => []TypeOK` |
| | `UdpSocketHeld` | `Spec => []SocketHeld` |
| `VideoStreamProofs` | `VideoInductive` | `Spec => []IInv` |
| | `VideoTypes` | `Spec => []TypeOK` |
| | `WholeFrameShown` | `Spec => []CompleteIsShown` |
| | `PureFrameWhole` | `Spec => []PureIsWhole` |
| | `FramesInOrder` | `Spec => ShownInOrder` |
| `AvNodeProofs` | `AvInductive` | `Spec => []IInv` |
| | `AvTypes` | `Spec => []TypeOK` |
| | `AvKnownOnce` | `Spec => []KnownOnce` |
| | `AvLoopUndisturbed` | `Spec => LoopUndisturbed` |
| `MeasurementProofs` | `MeasureInductive` | `Spec => []IInv` |
| | `MeasureTypes` | `Spec => []TypeOK` |
| | `MeasureAckOwed` | `Spec => []AckOwed` |
| | `MeasureLagStays` | `Spec => LagStays` |
| | `MeasureSendsToClient` | `Spec => []SendsToClient` |

Each module names its own invariant `IInv` where it needs one.  Every action has
a lemma or a step of its own.

*Relay, who owns what.*  `RegisteredOnce` is not inductive: that `push_back`
creates no duplicate depends on `accept()` returning a number that the vector
does not hold, and that depends on no stale number being in it.  `IInv` therefore
says who owns what: an open descriptor belongs to the handler of its connection,
or to `main()` between `accept()` and the start of the handler (`OneOwner`,
`OwnSocket`, `Admitted`); connections in the accept queue are there once and
have no descriptor yet (`Queued`); the vector holds the descriptors of the
serving handlers and the one just pushed, each once (`VectorSound`,
`VectorComplete`, `VectorDistinct`); and the mutex is held by the handler that
is in its loop (`MutexHeld`), which is what keeps the erase of one handler out
of the loop of another.  The erase is modelled by the increasing sequence of the
kept positions (`Kept`) rather than by a filter, because filters on sequences are
defined by recursion.  `IInv` is also an invariant of `relay_safety`.

*Relay, one order.*  `SameOrder` compares what two clients received; nothing in
it says where the bytes came from.  `StreamInv` does, and the run checks it, too:
a byte that its client has sent is on its way to the server (`UpNew`), or in the
buffer of a handler that waits for the mutex (`BufferNew`), or in one chunk of
the log (`LogSound`), in one of these places only; whatever was written to a
client is in the log (`OutLogged`); the broadcast in progress is that of the last
chunk (`LastChunk`).  Then a chunk that a handler writes is later in the log than
everything any client has, and no client can have bytes on both sides of it.

*Relay, refinement.*  An abstract member is "in" from `push_back` until its client
goes away, and its position is the end of the log, or one before it while it
waits for the chunk of the broadcast.  `push_back` is `Join` (a stutter if the
client has gone already), taking the mutex is `Publish`, skipping the sender
(`SkipSelf`) and a written `send()` are `Deliver`, the end of a client is `Leave`
of one, the end of the server by SIGPIPE `Leave` of all; every other step changes
nothing abstract.  `IInv` shows which client a number in the vector stands for,
`StreamInv` that the log's last chunk is the buffer being written.  `Refinement`
is what the run checks, with the chunk that is published given as the handler's
buffer; `BroadcastSpec` concludes `TotalOrderBroadcast`'s own `Spec`.

*Client.*  `NoForeignClose` is about numbers that are copied: `audio_cap` closes
the relay's socket while `play_audio` and `main()` still hold its number, and
either device may then be opened on it.  `IInv` says for each of `main()`'s three
numbers what it may stand for and when (`ServerKnown`, `CapKnown`, `PlayKnown`): its
socket; or, once the one who closes it has done so, nothing or the device of the
other thread.  `DeviceHeld` ties a device to its thread's loop,
`ThreadsJoined` the threads to `main()`, `HasServer` and `RetriesLeft` say how far
`main()` has got.

*UDP peers.*  `SocketHeld` needs to know that past its joins `main()` finds both
threads ended and that they do not start again, and that a thread closes a
local descriptor at its end only.

*Video.*  A fragment has a place in its sender's stream: the run, the number of
the frame, the index.  What was sent lies before the sender's own place
(`SentBefore`), one number of a run stands for a frame of one size (`SameSize`),
fragments are cut as `VideoRecandSend` cuts them (`Sound`), and, as long as nothing
overtakes or is copied, what was received lies before what is on its way
(`InOrder`, `Fresh`, `SingleCopies`).  `PureIsWhole` then is counting: fragments of
one frame with different indices below the total are as many as the total only
if every index is there (`Counting`, by the injection into the indices), and the
sizes of the pieces follow from the division (`Quotient`, `Parts`, `Piece`).
`CompleteIsShown` needs the order: the last fragment, at which the code looks, is
the last to come.  `FramesInOrder` says that while nothing overtakes, is copied or
mixed, the frames of a process are decoded in the order they were sent in, each
once at most; it needs `LastShown`, which says what the frame on display was
decoded from, and is stated beside its proof (`ShownInOrder`).  Both name the
mishaps that they exclude, losses and restarts may happen.  `VideoTypes` has to
allow any size that an audio packet claims; that a size within bounds is claimed
by every fragment of video is part of `Sound`.

*Node.*  `IInv` adds to `TypeOK` and `KnownOnce` that the mutex is held by a sending
thread exactly while it is in its loop (`MutexHeld`).  `LoopUndisturbed` is an
action property: with `MutexHeld`, no step of `LookForPeers` can change the list
while some thread is in its loop, because it would need the mutex.

*Measurement.*  The number that matters is what the connection still owes a
client: the bytes of acknowledgement on their way to it, and one more
acknowledgement for every piece that the bytes on their way to the server will
be received in, of which there are at least `Pieces(up)`.  A packet adds one
piece; a `recv()` of the server takes away one at most and adds an
acknowledgement; a read of the client takes at most what it awaits.  So no step
lowers the difference between what is owed and what is awaited (`Balance`),
from which both `AckOwed` (it is never negative) and `LagStays` (once positive
it remains so) follow.  The arithmetic of `Pieces` is in lemmas of its own
(`PacketPiece`, `RecvPiece`, `AckBytes`).  `SendsToClient` rests
on two invariants of its own: who is in `clients` is connected (`Registered`), and
while a handler is in its loop it holds the mutex, and whoever it sends to or has
still to send to is in `clients` (`LoopHeld`).  The steps that would break it,
registering and unregistering, need the mutex.

Model-checked only, on the bounds of section 3: liveness under fairness
(`BroadcastEnds`, `DescriptorReleased`, the three `StopEnds`, `ServerCloseEnds`,
`FramesShown`, `OneEndsAll`, `Discovery`, `AckArrives`, `ServerGoneEnds`, `SocketReleased`).
TLAPS proves neither leads-to under fairness nor `ENABLED`.

## 5. Plan

Written, in this order: relay (model, abstract specification, invariant,
proofs), client, UDP peer, video fragments, node, measurement, the node's
predecessor; then the proofs about UDP peer, node and measurement, the order of
the relay's streams and its refinement, client and video.  What remains:

1. Safety halves of the liveness properties, where they are worth a statement:
   for `StopEnds` and `BroadcastEnds`, that no state is without a step for the
   thread in question, said without `ENABLED`.
2. The disagreements of the violated runs turned into theorems about the code:
   under which additional condition (no reset while SIGPIPE is not ignored, no
   recovered overrun, one sending node) the documented claim does hold.

## 6. What the models leave out

- Contents of audio and video, timestamps (unless a protocol decides by them),
  delays, output, the codec.
- The set-up before the threads start where its failure only ends the program
  (`bind`, `listen`, ALSA in `Online_AV`): it is the initial state.
- The relay: failures of `accept()` other than an empty queue, and partial
  sends; `send()` on a blocking socket writes all of a chunk or fails.
- `TCPSC.cpp`'s comment at line 328 says the threads are joined before the
  socket is closed; its `audio_cap` closes it at line 159.  The model does what
  the code does, and `JoinBeforeClose` is stated for `TCPclient2.cpp`, where it
  holds.  `NoForeignClose` shows that the early close hits no other file.
- `fragment_buffer` is never cleaned of frames that lost a fragment, so it grows
  without bound in a long run.
- The audio/video node's playback of datagrams that are not audio.
- What an audio client that waits for an acknowledgement takes from other
  clients' sound is missing from what its other thread plays; the model counts
  the bytes of each, and says nothing of the sound.
- The order of frames: no code or document promises one, and where datagrams
  overtake each other the display may go back (`Online_AV.cpp:271`).
- A node's own broadcast makes it a peer of its own (`IPcheckstream.cpp:68`
  excludes 127.0.0.1, which is not its source; `Online_AV.cpp:324` excludes
  nothing).  The model has it, no property objects to it.
- Contents of acknowledgements (`MeasureTCP.cpp:27` echoes whatever the first
  eight bytes of its buffer are) and the printed figures, whose divisor may be
  zero.
- *WebRTC signalling*: `main.cpp` makes no offer and sets no description, so no
  candidate is ever announced and nothing is sent; what is received is dropped,
  as `onMessage` is never set.  There is no protocol in the code to model.
- *UDPaudio*: two threads that share nothing and that nothing can stop.
- *Raw audio link, camera test*: one loop each.  *Scripts*: they plot what they
  read; `TCPS/Measure.py:43` reads records of a byte stream with single
  `recv()` calls, and `Online_AV/Measure.py:82` counts outside its lock.
- *Vendored code, build output, installer*: none of this system's logic.
