------------------------------ MODULE AvNodeProofs ------------------------------
(***************************************************************************)
(* Theorems about the node of Online_AV and of IPcheckstream, for any set  *)
(* of other nodes and any length of the sockets' queues.                   *)
(***************************************************************************)
EXTENDS AvNode, SequenceTheorems, TLAPS

\* peer_mute is held by the sending thread that is in its loop over the list,
\* and the thread that looks for peers is never in such a loop.
MutexHeld ==
  /\ \A t \in Sender : pc[t] = "send" <=> peer_mute = t
  /\ pc["LookForPeers"] # "send"

IInv == TypeOK /\ MutexHeld /\ KnownOnce

USE DEF Thread, Sender, Receiver, OlderThread, Datagram, Address

\* Nobody waits in the sockets at first, and nobody holds the mutex.
LEMMA InvInit == Init => IInv
<1> SUFFICES ASSUME Init PROVE IInv
  OBVIOUS
<1>1. <<>> \in Seq(Address)
  OBVIOUS
<1>2. pc \in [Thread -> {"open", "loop", "recv", "lock", "send", "done"}]
  BY DEF Init
<1>3. TypeOK
  BY <1>1, <1>2 DEF Init, TypeOK
<1>4. MutexHeld /\ KnownOnce
  BY DEF Init, MutexHeld, KnownOnce
<1> QED
  BY <1>3, <1>4 DEF IInv

\* The network only adds datagrams of the known kinds.
LEMMA ArrivesType == ASSUME queue \subseteq Datagram, NEW d \in Datagram, Arrives(d) PROVE queue' \subseteq Datagram
BY DEF Arrives

\* Steps that leave the list, the mutex and the threads outside the loop alone
\* keep the invariant.
LEMMA Frame ==
  ASSUME IInv, TypeOK', UNCHANGED <<mainPc, peer_mute, peer_List>>,
         NEW t \in Thread, NEW from \in {"open", "loop", "recv", "lock"},
         NEW to \in {"open", "loop", "recv", "lock", "done"},
         Goes(t, from, to) \/ UNCHANGED pc
  PROVE  IInv'
<1>1. MutexHeld'
  BY DEF IInv, TypeOK, MutexHeld, Goes
<1>2. KnownOnce'
  BY DEF IInv, KnownOnce
<1> QED
  BY <1>1, <1>2 DEF IInv

\* What the network, the other nodes and main() do.
LEMMA InvOthers == ASSUME IInv, Enter \/ Join \/ Peers PROVE IInv'
<1> USE DEF IInv
<1>1. CASE Enter
  BY <1>1 DEF Enter, TypeOK, MutexHeld, KnownOnce
<1>2. CASE Join
  BY <1>2 DEF Join, TypeOK, MutexHeld, KnownOnce
<1>3. CASE Peers
  <2>1. UNCHANGED <<older, mainPc, running, pc, peer_mute, peer_List, peer_addr>>
    BY <1>3 DEF Peers, PeerComesOrGoes, PeerSends
  <2>2. queue' \subseteq Datagram /\ on' \subseteq Peer
    BY <1>3, ArrivesType DEF Peers, PeerComesOrGoes, PeerSends, TypeOK
  <2> QED
    BY <2>1, <2>2 DEF TypeOK, MutexHeld, KnownOnce
<1> QED
  BY <1>1, <1>2, <1>3

\* A sending thread takes and releases the mutex around its loop.
LEMMA InvLock == ASSUME IInv, NEW t \in Sender, Lock(t) PROVE IInv'
<1> USE DEF IInv
<1>1. TypeOK'
  BY DEF Lock, Goes, TypeOK
<1>2. MutexHeld'
  BY DEF Lock, Goes, TypeOK, MutexHeld
<1> QED
  BY <1>1, <1>2 DEF Lock, Goes, TypeOK, KnownOnce

\* A round of a sending thread keeps the invariant.
LEMMA InvSend ==
  ASSUME IInv, NEW t \in Sender, NEW to \in {"loop", "lock"}, SendToAll(t, to) PROVE IInv'
<1> USE DEF IInv
<1>1. queue' \subseteq Datagram
  BY ArrivesType DEF SendToAll, Payload, TypeOK
<1>2. TypeOK'
  BY <1>1 DEF SendToAll, Goes, TypeOK
<1>3. MutexHeld'
  BY DEF SendToAll, Goes, TypeOK, MutexHeld
<1> QED
  BY <1>2, <1>3 DEF SendToAll, Goes, TypeOK, KnownOnce

\* A new address is put behind the others, and it is none of them.
LEMMA InvAdd == ASSUME IInv, AddPeer PROVE IInv'
<1> USE DEF IInv
<1>1. peer_List \in Seq(Address) /\ peer_addr \in Address
  BY DEF TypeOK
<1>2. TypeOK'
  <2>1. Append(peer_List, peer_addr) \in Seq(Address)
    BY <1>1, AppendProperties
  <2> QED
    BY <2>1 DEF AddPeer, Goes, TypeOK
<1>3. MutexHeld'
  BY DEF AddPeer, Goes, TypeOK, MutexHeld
<1>4. KnownOnce'
  <2>1. CASE peer_addr \in Known
    BY <2>1 DEF AddPeer, KnownOnce
  <2>2. CASE peer_addr \notin Known
    <3>1. peer_List' = Append(peer_List, peer_addr)
      BY <2>2 DEF AddPeer
    <3>2. \A i \in DOMAIN peer_List : peer_List[i] # peer_addr
      BY <2>2 DEF Known
    <3>3. /\ Len(peer_List') = Len(peer_List) + 1
          /\ \A i \in 1 .. Len(peer_List) : peer_List'[i] = peer_List[i]
          /\ peer_List'[Len(peer_List) + 1] = peer_addr
      BY <1>1, <3>1, AppendProperties
    <3>4. DOMAIN peer_List = 1 .. Len(peer_List) /\ DOMAIN peer_List' = 1 .. Len(peer_List')
          /\ Len(peer_List) \in Nat
      BY <1>1, <1>2, LenProperties DEF TypeOK
    <3> QED
      BY <3>2, <3>3, <3>4 DEF KnownOnce
  <2> QED
    BY <2>1, <2>2
<1> QED
  BY <1>2, <1>3, <1>4

\* A datagram that is taken was one, and the queue keeps the others.
LEMMA TakesType ==
  ASSUME TypeOK, NEW t \in Receiver, NEW d, NEW to \in {"loop", "lock"}, Takes(t, d, to),
         peer_addr' \in Address, running' \in BOOLEAN
  PROVE  TypeOK'
BY DEF TypeOK, Takes, Goes

\* The threads' other steps.
LEMMA InvThread ==
  ASSUME IInv, NEW t \in Thread, Leave(t) \/ Body(t) PROVE IInv'
<1> USE DEF IInv
<1>1. CASE Leave(t)
  <2>1. TypeOK'
    BY <1>1 DEF Leave, Goes, TypeOK
  <2> QED
    BY <1>1, <2>1, Frame DEF Leave
<1>2. CASE sendHELLO
  <2>1. queue' \subseteq Datagram
    BY <1>2, ArrivesType DEF sendHELLO, TypeOK
  <2>2. TypeOK'
    BY <1>2, <2>1 DEF sendHELLO, TypeOK
  <2> QED
    BY <1>2, <2>2, Frame DEF sendHELLO
<1>3. CASE OpenCamera
  <2>1. TypeOK'
    BY <1>3 DEF OpenCamera, Goes, TypeOK
  <2> QED
    BY <1>3, <2>1, Frame DEF OpenCamera
<1>4. ASSUME t \in Sender, Record(t) PROVE IInv'
  <2>1. TypeOK'
    BY <1>4 DEF Record, Goes, TypeOK
  <2> QED
    BY <1>4, <2>1, Frame DEF Record
<1>5. CASE Captures
  <2>1. TypeOK'
    BY <1>5 DEF Captures, Goes, TypeOK
  <2> QED
    BY <1>5, <2>1, Frame DEF Captures
<1>6. ASSUME NEW u \in Sender, Lock(u) \/ EndPacket(u) \/ NextFragment(u) PROVE IInv'
  BY <1>6, InvLock, InvSend DEF EndPacket, NextFragment
<1>7. ASSUME NEW u \in Receiver, Wait(u) PROVE IInv'
  <2>1. TypeOK'
    BY <1>7 DEF Wait, Goes, TypeOK
  <2> QED
    BY <1>7, <2>1, Frame DEF Wait
<1>8. CASE LookForPeers \/ HearsAnyone
  <2>1. PICK d \in queue, to \in {"loop", "lock"} :
          Takes("LookForPeers", d, to) /\ peer_addr' \in {d, peer_addr} \cap Address /\ UNCHANGED running
    BY <1>8 DEF LookForPeers, HearsAnyone, TypeOK
  <2>2. TypeOK'
    BY <2>1, TakesType DEF TypeOK
  <2> QED
    BY <2>1, <2>2, Frame DEF Takes
<1>9. CASE AudioPlayback \/ Plays
  <2>1. PICK d \in queue : Takes("AudioPlayback", d, "loop") /\ UNCHANGED <<running, peer_addr>>
    BY <1>9 DEF AudioPlayback, Plays
  <2>2. TypeOK'
    BY <2>1, TakesType DEF TypeOK
  <2> QED
    BY <2>1, <2>2, Frame DEF Takes
<1>10. CASE VideoPlayback
  <2>1. PICK d \in queue : Takes("VideoPlayback", d, "loop") /\ UNCHANGED peer_addr /\ running' \in BOOLEAN
    BY <1>10 DEF VideoPlayback, TypeOK
  <2>2. TypeOK'
    BY <2>1, TakesType DEF TypeOK
  <2> QED
    BY <2>1, <2>2, Frame DEF Takes
<1>11. CASE NewerBody(t)
  BY <1>11, <1>2, <1>3, <1>4, <1>6, <1>7, <1>8, <1>9, <1>10, InvAdd DEF NewerBody, Streams
<1>12. CASE OlderBody(t)
  BY <1>12, <1>2, <1>5, <1>6, <1>7, <1>8, <1>9, InvAdd
     DEF OlderBody, broadcastPresence, listenForPeers, captureAndSend, receiveAndPlay
<1> QED
  BY <1>1, <1>11, <1>12 DEF Body

\* Every step keeps the invariant.
LEMMA InvNext == IInv /\ [Next]_vars => IInv'
<1> SUFFICES ASSUME IInv, [Next]_vars PROVE IInv'
  OBVIOUS
<1>1. CASE UNCHANGED vars
  BY <1>1 DEF vars, IInv, TypeOK, MutexHeld, KnownOnce
<1> QED
  BY <1>1, InvOthers, InvThread DEF Next

\* The invariant: types, who holds the mutex, no address twice.
THEOREM AvInductive == Spec => []IInv
BY InvInit, InvNext, PTL DEF Spec

\* Every variable has the type TypeOK gives it, for all addresses and queues.
THEOREM AvTypes == Spec => []TypeOK
<1>1. IInv => TypeOK
  BY DEF IInv
<1> QED
  BY <1>1, AvInductive, PTL

\* A step of a thread other than taking the mutex or adding a peer.
Harmless ==
  \/ UNCHANGED <<pc, peer_List>>
  \/ /\ UNCHANGED peer_List
     /\ \E v \in Thread, to \in {"loop", "recv", "lock", "done"} :
          pc' = [pc EXCEPT ![v] = to]

\* While a thread sends to the nodes in the list, no step changes the list or
\* lets another thread into its loop.
LEMMA LoopStep ==
  ASSUME IInv, Next, NEW t \in Sender, pc[t] = "send"
  PROVE  peer_List' = peer_List /\ \A u \in Sender \ {t} : pc'[u] # "send"
<1> USE DEF IInv
<1>1. peer_mute = t /\ \A u \in Sender \ {t} : pc[u] # "send"
  BY DEF MutexHeld
<1>2. CASE Enter \/ Join \/ Peers
  BY <1>1, <1>2 DEF Enter, Join, Peers, PeerComesOrGoes, PeerSends
<1>3. ASSUME NEW u \in Thread, Leave(u) \/ Body(u) PROVE Harmless
  <2>1. ~AddPeer /\ \A v \in Sender : ~Lock(v)
    BY <1>1 DEF AddPeer, Lock
  <2>2. Leave(u) \/ sendHELLO \/ OpenCamera \/ Captures => Harmless
    BY DEF Leave, sendHELLO, OpenCamera, Captures, Goes, Harmless
  <2>3. \A v \in Sender : Record(v) \/ EndPacket(v) \/ NextFragment(v) => Harmless
    BY DEF Record, EndPacket, NextFragment, SendToAll, Goes, Harmless
  <2>4. \A v \in Receiver : Wait(v) => Harmless
    BY DEF Wait, Goes, Harmless
  <2>5. LookForPeers \/ HearsAnyone \/ AudioPlayback \/ Plays \/ VideoPlayback => Harmless
    BY DEF LookForPeers, HearsAnyone, AudioPlayback, Plays, VideoPlayback, Takes, Goes, Harmless
  <2>6. NewerBody(u) => Harmless
    BY <2>1, <2>2, <2>3, <2>4, <2>5 DEF NewerBody, Streams
  <2>7. OlderBody(u) => Harmless
    BY <2>1, <2>2, <2>3, <2>4, <2>5
       DEF OlderBody, broadcastPresence, listenForPeers, captureAndSend, receiveAndPlay
  <2> QED
    BY <1>3, <2>2, <2>6, <2>7 DEF Body
<1>4. Harmless => peer_List' = peer_List /\ \A u \in Sender \ {t} : pc'[u] # "send"
  BY <1>1 DEF Harmless, TypeOK
<1> QED
  BY <1>2, <1>3, <1>4 DEF Next

\* The loops over the list run one at a time, and the list holds still
\* (Online_AV.cpp:124-133, 189-196, 324-333; IPcheckstream.cpp:67-71, 84-91).
THEOREM AvLoopUndisturbed == Spec => LoopUndisturbed
<1>1. IInv /\ [Next]_vars =>
        [\A t \in Sender : pc[t] = "send" =>
           peer_List' = peer_List /\ \A u \in Sender \ {t} : pc'[u] # "send"]_vars
  BY LoopStep
<1> QED
  BY <1>1, AvInductive, PTL DEF Spec, LoopUndisturbed

\* The list never holds an address twice (Online_AV.cpp:325-333,
\* IPcheckstream.cpp:67-71), however many nodes there are.
THEOREM AvKnownOnce == Spec => []KnownOnce
<1>1. IInv => KnownOnce
  BY DEF IInv
<1> QED
  BY <1>1, AvInductive, PTL
=============================================================================
