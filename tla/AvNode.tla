-------------------------------- MODULE AvNode --------------------------------
(***************************************************************************)
(* A node of Online_AV/Online_AV.cpp, among peers that run the same        *)
(* program.  main() starts six threads and waits for Enter.  Two threads   *)
(* send audio and video to the addresses in peer_List, one broadcasts      *)
(* HELLO, and three receive on the node's one socket: the kernel gives a   *)
(* datagram to any thread that waits, whatever it is meant for.  All leave *)
(* their loops when `running` is false; a receiver looks at it only        *)
(* between two datagrams, and recv() has no timeout.                       *)
(*                                                                         *)
(* IPcheck/IPcheckstream.cpp is an older program without video and without *)
(* an end: four threads, a socket for HELLOs and one for audio.            *)
(*                                                                         *)
(* A HELLO is represented by the address it comes from.  What becomes of   *)
(* video fragments is the subject of VideoStream.                          *)
(***************************************************************************)
EXTENDS Integers, Sequences, FiniteSets

CONSTANTS
  Self,        \* the address of this node
  Peer,        \* the addresses of the other nodes
  MaxQueue     \* the datagrams a socket holds; the kernel drops the others

Address == Peer \cup {Self}

ASSUME AddressAssumption == Self \notin Peer /\ Address \cap {"audio", "video"} = {}
ASSUME QueueAssumption == MaxQueue \in Nat \ {0}

VARIABLES
  older,       \* IPcheckstream runs, on all nodes
  mainPc,      \* where main() is
  running,
  pc,          \* where each of the threads is
  peer_mute,   \* the thread that holds the mutex, or "nobody"
  peer_List,   \* std::vector<sockaddr_in> peer_List, or std::set peer_addresses
  peer_addr,   \* LookForPeers' peer_addr while it has a HELLO to handle, else Self
  queue,       \* kernel: the datagrams that wait in the sockets
  on           \* the peers that run at present

vars == <<older, mainPc, running, pc, peer_mute, peer_List, peer_addr, queue, on>>

Sender == {"AudioRecAndSend", "VideoRecandSend"}
OlderThread == {"sendHELLO", "LookForPeers", "AudioRecAndSend", "AudioPlayback"}
Receiver == {"LookForPeers", "AudioPlayback", "VideoPlayback"}
Thread == {"sendHELLO"} \cup Sender \cup Receiver
Datagram == {"audio", "video"} \cup Address
Known == {peer_List[i] : i \in DOMAIN peer_List}

(***************************************************************************)
(* The type invariant.                                                     *)
(***************************************************************************)
TypeOK ==
  /\ older \in BOOLEAN
  /\ mainPc \in {"input", "join", "exit"} /\ running \in BOOLEAN
  /\ pc \in [Thread -> {"open", "loop", "recv", "lock", "send", "done"}]
  /\ peer_mute \in Sender \cup {"nobody"}
  /\ peer_List \in Seq(Address)
  /\ peer_addr \in Address
  /\ queue \subseteq Datagram
  /\ on \subseteq Peer

\* The sockets and devices are set up and the threads started.
Init ==
  /\ older \in BOOLEAN
  /\ mainPc = "input" /\ running = TRUE
  /\ pc = [t \in Thread |-> IF older /\ t \notin OlderThread THEN "done"
                            ELSE IF t = "VideoRecandSend" THEN "open" ELSE "loop"]
  /\ peer_mute = "nobody"
  /\ peer_List = <<>> /\ peer_addr = Self
  /\ queue = {} /\ on \in SUBSET Peer

-----------------------------------------------------------------------------
(***************************************************************************)
(* The network and the other nodes.                                        *)
(***************************************************************************)
Bound == mainPc # "exit"

\* Only the older program has a socket of its own for HELLOs.
SameSocket(d, e) == older => (d \in Address <=> e \in Address)

\* A datagram for this node may get lost, and does if the queue is full.
Arrives(d) ==
  \/ UNCHANGED queue
  \/ /\ Bound /\ Cardinality({e \in queue : SameSocket(d, e)}) < MaxQueue
     /\ queue' = queue \cup {d}

PeerSends(p, d) ==
  /\ p \in on /\ (older => d # "video")
  /\ Arrives(d)
  /\ UNCHANGED <<older, mainPc, running, pc, peer_mute, peer_List, peer_addr, on>>

PeerComesOrGoes(p) ==
  /\ on' = IF p \in on THEN on \ {p} ELSE on \cup {p}
  /\ UNCHANGED <<older, mainPc, running, pc, peer_mute, peer_List, peer_addr, queue>>

Peers ==
  \E p \in Peer : PeerComesOrGoes(p) \/ \E d \in {p, "audio", "video"} : PeerSends(p, d)

-----------------------------------------------------------------------------
(***************************************************************************)
(* main().                                                                 *)
(***************************************************************************)
\* cin.get() returns only when the user presses Enter.
Enter ==
  /\ ~older /\ mainPc = "input"
  /\ mainPc' = "join" /\ running' = FALSE
  /\ UNCHANGED <<older, pc, peer_mute, peer_List, peer_addr, queue, on>>

\* The joins, then close().
Join ==
  /\ mainPc = "join" /\ \A t \in Thread : pc[t] = "done"
  /\ mainPc' = "exit" /\ queue' = {}
  /\ UNCHANGED <<older, running, pc, peer_mute, peer_List, peer_addr, on>>

-----------------------------------------------------------------------------
(***************************************************************************)
(* The sending threads.                                                    *)
(***************************************************************************)
Goes(t, from, to) == pc[t] = from /\ pc' = [pc EXCEPT ![t] = to]

\* The loop test that ends a thread.
Leave(t) ==
  /\ ~running /\ Goes(t, "loop", "done")
  /\ UNCHANGED <<older, mainPc, running, peer_mute, peer_List, peer_addr, queue, on>>

\* The broadcast reaches every node of the network, the sender itself, too.
sendHELLO ==
  /\ running /\ pc["sendHELLO"] = "loop"
  /\ Arrives(Self)
  /\ UNCHANGED <<older, mainPc, running, pc, peer_mute, peer_List, peer_addr, on>>

\* A mutant: without a camera the thread only ends.
OpenQuietly ==
  /\ Goes("VideoRecandSend", "open", "loop") \/ Goes("VideoRecandSend", "open", "done")
  /\ UNCHANGED <<older, mainPc, running, peer_mute, peer_List, peer_addr, queue, on>>

\* Without a camera the thread stops the node before it looks at the flag.
OpenCamera ==
  /\ \/ Goes("VideoRecandSend", "open", "loop") /\ UNCHANGED running
     \/ Goes("VideoRecandSend", "open", "done") /\ running' = FALSE
  /\ UNCHANGED <<older, mainPc, peer_mute, peer_List, peer_addr, queue, on>>

\* A packet or an encoded frame is at hand; a device that fails may fail again
\* and again, but only the audio thread gives up, and stops the node.
Record(t) ==
  /\ running
  /\ \/ Goes(t, "loop", "lock") /\ UNCHANGED running
     \/ t = "AudioRecAndSend" /\ Goes(t, "loop", "done") /\ running' = FALSE
  /\ UNCHANGED <<older, mainPc, peer_mute, peer_List, peer_addr, queue, on>>

Lock(t) ==
  /\ peer_mute = "nobody" /\ Goes(t, "lock", "send")
  /\ peer_mute' = t
  /\ UNCHANGED <<older, mainPc, running, peer_List, peer_addr, queue, on>>

Payload(t) == IF t = "AudioRecAndSend" THEN "audio" ELSE "video"

\* The loop over the list, then the end of the lock's scope; what is sent to
\* another address leaves this node for good.
SendToAll(t, to) ==
  /\ Goes(t, "send", to)
  /\ IF Self \in Known THEN Arrives(Payload(t)) ELSE UNCHANGED queue
  /\ peer_mute' = "nobody"
  /\ UNCHANGED <<older, mainPc, running, peer_List, peer_addr, on>>

\* The last fragment of a frame, or an audio packet.
EndPacket(t) == SendToAll(t, "loop")

\* A fragment with another one to come, for which nobody looks at the flag.
NextFragment(t) == t = "VideoRecandSend" /\ SendToAll(t, "lock")

Streams(t) == Record(t) \/ Lock(t) \/ EndPacket(t) \/ NextFragment(t)

-----------------------------------------------------------------------------
(***************************************************************************)
(* The receiving threads.                                                  *)
(***************************************************************************)
\* A mutant: the loop does not look at the flag.
WaitAnyway(t) ==
  /\ Goes(t, "loop", "recv")
  /\ UNCHANGED <<older, mainPc, running, peer_mute, peer_List, peer_addr, queue, on>>

\* The loop test, then recv(), which blocks.
Wait(t) ==
  /\ running /\ Goes(t, "loop", "recv")
  /\ UNCHANGED <<older, mainPc, running, peer_mute, peer_List, peer_addr, queue, on>>

Takes(t, d, to) ==
  /\ d \in queue /\ queue' = queue \ {d}
  /\ Goes(t, "recv", to)
  /\ UNCHANGED <<older, mainPc, peer_mute, peer_List, on>>

\* A mutant: whatever arrives counts as a HELLO.
HelloUnchecked ==
  \E d \in queue :
    /\ Takes("LookForPeers", d, "lock")
    /\ peer_addr' = d
    /\ UNCHANGED running

\* strcmp() with "HELLO": anything else is thrown away.
LookForPeers ==
  \E d \in queue :
    /\ Takes("LookForPeers", d, IF d \in Address THEN "lock" ELSE "loop")
    /\ peer_addr' = IF d \in Address THEN d ELSE peer_addr
    /\ UNCHANGED running

\* A mutant: a peer is added whether it is known or not.
AddAlways ==
  /\ peer_mute = "nobody" /\ Len(peer_List) < 2
  /\ Goes("LookForPeers", "lock", "loop")
  /\ peer_List' = Append(peer_List, peer_addr)
  /\ UNCHANGED <<older, mainPc, running, peer_mute, peer_addr, queue, on>>

\* A mutant: a HELLO that comes while the mutex is held is dropped.
AddIfFree ==
  /\ Goes("LookForPeers", "lock", "loop")
  /\ peer_List' = IF peer_addr \in Known \/ peer_mute # "nobody"
                  THEN peer_List ELSE Append(peer_List, peer_addr)
  /\ peer_addr' = Self
  /\ UNCHANGED <<older, mainPc, running, peer_mute, queue, on>>

\* A mutant: the list is changed without the mutex.
AddUnlocked ==
  /\ Goes("LookForPeers", "lock", "loop")
  /\ peer_List' = IF peer_addr \in Known THEN peer_List ELSE Append(peer_List, peer_addr)
  /\ UNCHANGED <<older, mainPc, running, peer_mute, peer_addr, queue, on>>

\* The section under the mutex: find_if and push_back.
AddPeer ==
  /\ peer_mute = "nobody" /\ Goes("LookForPeers", "lock", "loop")
  /\ peer_List' = IF peer_addr \in Known THEN peer_List ELSE Append(peer_List, peer_addr)
  /\ peer_addr' = Self
  /\ UNCHANGED <<older, mainPc, running, peer_mute, queue, on>>

\* Whatever arrives is played.
AudioPlayback ==
  /\ \E d \in queue : Takes("AudioPlayback", d, "loop")
  /\ UNCHANGED <<running, peer_addr>>

\* The user may press Escape in the window while a frame is shown.
VideoPlayback ==
  /\ \E d \in queue :
       /\ Takes("VideoPlayback", d, "loop")
       /\ UNCHANGED running \/ (d = "video" /\ running' = FALSE)
  /\ UNCHANGED peer_addr

-----------------------------------------------------------------------------
(***************************************************************************)
(* The older program's threads.  They share the steps above, but each      *)
(* receiver has a socket of its own, and errors of the device are ignored. *)
(***************************************************************************)
broadcastPresence == sendHELLO

\* Whatever comes to the broadcast socket makes its sender a peer, except from
\* 127.0.0.1, which is not the address that the node's own broadcast has.
HearsAnyone ==
  \E d \in queue \cap Address :
    /\ Takes("LookForPeers", d, "lock") /\ peer_addr' = d /\ UNCHANGED running

listenForPeers == Wait("LookForPeers") \/ HearsAnyone \/ AddPeer

Captures ==
  /\ Goes("AudioRecAndSend", "loop", "lock")
  /\ UNCHANGED <<older, mainPc, running, peer_mute, peer_List, peer_addr, queue, on>>

captureAndSend == Captures \/ Lock("AudioRecAndSend") \/ EndPacket("AudioRecAndSend")

Plays ==
  /\ \E d \in queue \ Address : Takes("AudioPlayback", d, "loop")
  /\ UNCHANGED <<running, peer_addr>>

receiveAndPlay == Wait("AudioPlayback") \/ Plays

OlderBody(t) ==
  \/ t = "sendHELLO" /\ broadcastPresence
  \/ t = "LookForPeers" /\ listenForPeers
  \/ t = "AudioRecAndSend" /\ captureAndSend
  \/ t = "AudioPlayback" /\ receiveAndPlay

-----------------------------------------------------------------------------
NewerBody(t) ==
  \/ t = "sendHELLO" /\ sendHELLO
  \/ t = "VideoRecandSend" /\ OpenCamera
  \/ t \in Sender /\ Streams(t)
  \/ t \in Receiver /\ Wait(t)
  \/ t = "LookForPeers" /\ (LookForPeers \/ AddPeer)
  \/ t = "AudioPlayback" /\ AudioPlayback
  \/ t = "VideoPlayback" /\ VideoPlayback

Body(t) == (older /\ OlderBody(t)) \/ (~older /\ NewerBody(t))

Next == Enter \/ Join \/ Peers \/ \E t \in Thread : Leave(t) \/ Body(t)

Spec == Init /\ [][Next]_vars

(***************************************************************************)
(* The threads run, frames have an end, the HELLOs that a node sends again *)
(* and again are not all lost, and of what keeps coming in each waiting    *)
(* thread gets something.                                                  *)
(***************************************************************************)
HelloArrives(p) == PeerSends(p, p) /\ queue' # queue

Fairness ==
  /\ WF_vars(Join) /\ \A p \in Peer : SF_vars(HelloArrives(p))
  /\ \A t \in Thread \ Receiver : WF_vars(Leave(t) \/ Body(t))
  /\ SF_vars(EndPacket("VideoRecandSend"))
  /\ \A t \in Receiver : SF_vars(Leave(t) \/ Body(t))

FairSpec == Spec /\ Fairness

-----------------------------------------------------------------------------
(***************************************************************************)
(* Properties.                                                             *)
(***************************************************************************)
\* A node is sent every packet once: its address is in peer_List at most once,
\* however many of its HELLOs come in (Online_AV.cpp:325-333).
KnownOnce ==
  \A i, j \in DOMAIN peer_List : peer_List[i] = peer_List[j] => i = j

\* The list does not change under the loop of a thread that sends to the nodes
\* in it, and there is one such loop at a time (Online_AV.cpp:124-133, 189-196,
\* 324-333): no node is left out, and no iterator is invalidated.
LoopUndisturbed ==
  [][\A t \in Sender : pc[t] = "send" =>
       peer_List' = peer_List /\ \A u \in Sender \ {t} : pc'[u] # "send"]_vars

\* The threads of a node end together if another node goes on, whichever of them
\* was the first: a thread whose device fails, or the window's, gets the others
\* out of their loops and out of recv() without the help of main(), which waits
\* for Enter (Online_AV.cpp:108-115, 138-142, 210-216, 240-246, 273, 318-322).
OneEndsAll ==
  []<>(older \/ on = {} \/ \A t, u \in Thread : pc[t] = "done" => pc[u] = "done")

\* After Enter the node ends if another one goes on: its HELLOs get the
\* receiving threads out of recv() (Online_AV.cpp:211-212, 318-320, 412-429).
StopEnds == []<>(mainPc # "join" \/ on = {})

\* With a socket for HELLOs alone (IPcheckstream.cpp:139-140), a node that is on
\* becomes known, though its HELLOs get lost, come while the list is in use, or
\* find the queue full of the node's own (IPcheckstream.cpp:47-51, 60-73).
Discovery == \A p \in Peer : []<>(older => p \in Known \/ p \notin on)

\* Online_AV.cpp:409, "Press Enter to stop the program...".
EnterStops == mainPc = "join" ~> mainPc = "exit"
=============================================================================
