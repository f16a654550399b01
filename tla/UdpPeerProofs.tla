----------------------------- MODULE UdpPeerProofs -----------------------------
(***************************************************************************)
(* Theorems about the two UDP peers, whatever may fail on them and whatever *)
(* their uninitialised descriptors hold.                                   *)
(***************************************************************************)
EXTENDS UdpPeer, TLAPS

\* The socket's number is in none of the peer's uninitialised descriptors.
Unharmed(p) == \A l \in LocalSocket : <<p, l>> \notin garbage

\* main() closes after both joins, and nobody else closes the socket.
Joined(p) == mainPc[p] \in {"close", "exit"} => pcCap[p] = "done" /\ pcPlay[p] = "done"
OpenTillExit(p) == Unharmed(p) => open[p] \/ mainPc[p] = "exit"

IInv == TypeOK /\ \A p \in Peer : Joined(p) /\ OpenTillExit(p)

USE DEF Datagram, LocalSocket

\* The initial state satisfies the invariant.
LEMMA InvInit == Init => IInv
BY DEF Init, IInv, TypeOK, Joined, OpenTillExit

\* Every thread keeps the types.
LEMMA TypeStep == ASSUME TypeOK, NEW p \in Peer, main(p) \/ SpuriousWakeup(p) \/ audio_cap(p) \/ play_audio(p) \/ init_sig(p) \/ Lose(p) PROVE TypeOK'
<1> USE DEF TypeOK
<1>1. CASE main(p) \/ SpuriousWakeup(p)
  BY <1>1 DEF main, MainTest, MainBlock, MainJoin, MainClose, SpuriousWakeup, MainGoes
<1>2. CASE audio_cap(p)
  <2>1. CASE CapOpen(p)
    BY <2>1 DEF CapOpen
  <2>2. CASE CapRead(p)
    BY <2>2 DEF CapRead
  <2>3. CASE CapSend(p)
    <3>1. frames[p] \in Datagram /\ \A q \in Peer : net[q] \cup {frames[p]} \in SUBSET Datagram
      OBVIOUS
    <3>2. net' \in [Peer -> SUBSET Datagram]
      BY <2>3, <3>1 DEF CapSend
    <3> QED
      BY <2>3, <3>2 DEF CapSend, Stop
  <2>4. CASE CapClose(p)
    BY <2>4 DEF CapClose, CloseLocal
  <2> QED
    BY <1>2, <2>1, <2>2, <2>3, <2>4 DEF audio_cap
<1>3. CASE play_audio(p)
  <2>1. CASE PlayOpen(p)
    BY <2>1 DEF PlayOpen
  <2>2. CASE PlayLoop(p)
    BY <2>2 DEF PlayLoop, Stop
  <2>3. CASE PlayRecv(p)
    <3>1. \A q \in Peer, d \in Datagram : net[q] \ {d} \in SUBSET Datagram
      OBVIOUS
    <3>2. net' \in [Peer -> SUBSET Datagram]
      BY <2>3, <3>1 DEF PlayRecv
    <3> QED
      BY <2>3, <3>2 DEF PlayRecv, Stop
  <2>4. CASE PlayWrite(p)
    BY <2>4 DEF PlayWrite, Stop
  <2>5. CASE PlayClose(p)
    BY <2>5 DEF PlayClose, CloseLocal
  <2> QED
    BY <1>3, <2>1, <2>2, <2>3, <2>4, <2>5 DEF play_audio
<1>4. CASE init_sig(p)
  BY <1>4 DEF init_sig
<1>5. CASE Lose(p)
  <2>1. \A q \in Peer, d \in Datagram : net[q] \ {d} \in SUBSET Datagram
    OBVIOUS
  <2> QED
    BY <1>5, <2>1 DEF Lose
<1> QED
  BY <1>1, <1>2, <1>3, <1>4, <1>5

\* A thread that has ended stays so, and only close() of a descriptor that
\* holds the number closes the socket before main() does.
LEMMA ThreadStep ==
  ASSUME IInv, NEW p \in Peer, audio_cap(p) \/ play_audio(p)
  PROVE  \A q \in Peer : Joined(q)' /\ OpenTillExit(q)'
<1> USE DEF IInv, TypeOK
<1>1. mainPc' = mainPc
  BY DEF audio_cap, CapOpen, CapRead, CapSend, CapClose,
         play_audio, PlayOpen, PlayLoop, PlayRecv, PlayWrite, PlayClose
<1>2. \A q \in Peer : pcCap[q] = "done" => pcCap'[q] = "done"
  BY DEF audio_cap, CapOpen, CapRead, CapSend, CapClose,
         play_audio, PlayOpen, PlayLoop, PlayRecv, PlayWrite, PlayClose
<1>3. \A q \in Peer : pcPlay[q] = "done" => pcPlay'[q] = "done"
  BY DEF audio_cap, CapOpen, CapRead, CapSend, CapClose,
         play_audio, PlayOpen, PlayLoop, PlayRecv, PlayWrite, PlayClose
<1>4. \A q \in Peer : Unharmed(q) => open'[q] = open[q]
  BY DEF audio_cap, CapOpen, CapRead, CapSend, CapClose, CloseLocal, Unharmed,
         play_audio, PlayOpen, PlayLoop, PlayRecv, PlayWrite, PlayClose
<1> QED
  BY <1>1, <1>2, <1>3, <1>4 DEF Joined, OpenTillExit, Unharmed

\* Every step keeps the invariant.
LEMMA InvNext == IInv /\ [Next]_vars => IInv'
<1> SUFFICES ASSUME IInv, [Next]_vars PROVE IInv'
  OBVIOUS
<1>1. CASE UNCHANGED vars
  BY <1>1 DEF vars, IInv, TypeOK, Joined, OpenTillExit, Unharmed
<1>2. ASSUME NEW p \in Peer, main(p) \/ SpuriousWakeup(p) \/ init_sig(p) \/ Lose(p) PROVE IInv'
  <2>1. TypeOK'
    BY <1>2, TypeStep DEF IInv
  <2>2. \A q \in Peer : Joined(q)' /\ OpenTillExit(q)'
    <3>1. CASE main(p)
      BY <3>1 DEF main, MainTest, MainBlock, MainJoin, MainClose, MainGoes,
                  IInv, TypeOK, Joined, OpenTillExit, Unharmed
    <3>2. CASE SpuriousWakeup(p)
      BY <3>2 DEF SpuriousWakeup, MainGoes, IInv, TypeOK, Joined, OpenTillExit, Unharmed
    <3>3. CASE init_sig(p)
      BY <3>3 DEF init_sig, IInv, TypeOK, Joined, OpenTillExit, Unharmed
    <3>4. CASE Lose(p)
      BY <3>4 DEF Lose, IInv, TypeOK, Joined, OpenTillExit, Unharmed
    <3> QED
      BY <1>2, <3>1, <3>2, <3>3, <3>4
  <2> QED
    BY <2>1, <2>2 DEF IInv
<1>3. ASSUME NEW p \in Peer, audio_cap(p) \/ play_audio(p) PROVE IInv'
  BY <1>3, TypeStep, ThreadStep DEF IInv
<1> QED
  BY <1>1, <1>2, <1>3 DEF Next

\* The types of both peers' states are right at every step (UDPconn1.cpp:47-312).
THEOREM UdpTypes == Spec => []TypeOK
<1>1. IInv => TypeOK
  BY DEF IInv
<1> QED
  BY <1>1, InvInit, InvNext, PTL DEF Spec

\* No thread of a peer is left with a closed socket (UDPconn1.cpp:301-310).
THEOREM UdpSocketHeld == Spec => []SocketHeld
<1>1. IInv => SocketHeld
  BY DEF IInv, SocketHeld, Joined, OpenTillExit, Unharmed
<1> QED
  BY <1>1, InvInit, InvNext, PTL DEF Spec
=============================================================================
