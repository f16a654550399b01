--------------------------- MODULE MeasurementProofs ---------------------------
(***************************************************************************)
(* Theorems about the measuring clients, for any number of them, any sizes *)
(* of packets, buffers and acknowledgements, and any number of packets.    *)
(***************************************************************************)
EXTENDS Measurement, TLAPS

\* One more packet takes one more piece to receive.
LEMMA PacketPiece == \A n \in Nat : Pieces(n + BUFFSIZE) = Pieces(n) + 1
BY SizeAssumption, SMTT(20) DEF Pieces

\* A recv() saves one piece at most.
LEMMA RecvPiece ==
  \A n \in Nat : \A k \in 1..BUFFSIZE : k <= n => Pieces(n) - 1 <= Pieces(n - k)
BY SizeAssumption, SMTT(20) DEF Pieces

\* Pieces are counted with natural numbers.
LEMMA PiecesNat == \A n \in Nat : Pieces(n) \in Nat
BY SizeAssumption, SMTT(20) DEF Pieces

\* The same in bytes of acknowledgement.
LEMMA AckBytes ==
  /\ \A n \in Nat : STAMP * Pieces(n) \in Nat
  /\ \A n \in Nat : STAMP * Pieces(n + BUFFSIZE) = STAMP * Pieces(n) + STAMP
  /\ \A n \in Nat : \A k \in 1..BUFFSIZE :
       k <= n => STAMP * Pieces(n) <= STAMP * Pieces(n - k) + STAMP
<1>1. \A x \in Nat : STAMP * x \in Nat /\ STAMP * (x + 1) = STAMP * x + STAMP
  BY SizeAssumption
<1>2. \A x, y \in Nat : x - 1 <= y => STAMP * x <= STAMP * y + STAMP
  <2> SUFFICES ASSUME NEW x \in Nat, NEW y \in Nat, x - 1 <= y PROVE STAMP * x <= STAMP * y + STAMP
    OBVIOUS
  <2>1. y + 1 - x \in Nat
    OBVIOUS
  <2>2. STAMP * (y + 1 - x) >= 0
    BY <1>1, <2>1
  <2>3. STAMP * (y + 1 - x) = STAMP * y + STAMP - STAMP * x
    BY SizeAssumption
  <2>4. STAMP * x \in Nat /\ STAMP * y \in Nat /\ STAMP \in Nat
    BY <1>1, SizeAssumption
  <2> QED
    BY <2>2, <2>3, <2>4
<1>3. \A n \in Nat : \A k \in 1..BUFFSIZE : k <= n => n - k \in Nat
  BY SizeAssumption
<1> QED
  BY <1>1, <1>2, <1>3, PacketPiece, RecvPiece, PiecesNat

\* At the start the types hold.
LEMMA TypeInit == Init => TypeOK
BY SizeAssumption, CountAssumption, ProgramAssumption DEF Init, TypeOK

\* A client's threads keep the types.
LEMMA TypeClient ==
  ASSUME TypeOK, NEW c \in Client, Start(c) \/ Kill(c) \/ main(c) PROVE TypeOK'
<1> USE SizeAssumption, CountAssumption DEF TypeOK, relay
<1>1. CASE Start(c)
  BY <1>1 DEF Start
<1>2. CASE Attempt(c)
  BY <1>2 DEF Attempt
<1>3. CASE Exit(c)
  BY <1>3 DEF Exit, ClientCloses
<1> QED
  BY <1>1, <1>2, <1>3 DEF Kill, main, GiveUp, Join

\* What recv() leaves is a number of bytes.
LEMMA UpToLeaves == \A k, n \in Nat : \A m \in UpTo(k, n) : m \in Nat /\ m <= k /\ n - m \in Nat
BY DEF UpTo

\* The sending thread keeps the types.
LEMMA TypeSender == ASSUME TypeOK, NEW c \in Client, sender(c) PROVE TypeOK'
<1> USE SizeAssumption, CountAssumption DEF TypeOK, relay
<1>1. CASE OpenCapture(c)
  BY <1>1 DEF OpenCapture, Goes
<1>2. CASE CaptureError(c)
  BY <1>2 DEF CaptureError, Goes
<1>3. CASE SendWritten(c)
  <2>1. PacketSize \subseteq Nat
    BY DEF PacketSize
  <2>2. up' \in [Client -> Nat]
    BY <1>3, <2>1 DEF SendWritten
  <2>3. packets' \in [Client -> Nat] /\ \A d \in Client : packets'[d] <= MaxPackets[d]
    BY <1>3 DEF SendWritten
  <2>4. UNCHANGED <<program, server, mainPc, retries, playPc, conn, down, relay>>
    BY <1>3 DEF SendWritten
  <2>5. sendPc' \in [Client -> {"off", "open", "send", "ack", "done"}]
    BY <1>3 DEF SendWritten, Goes
  <2> QED
    BY <2>2, <2>3, <2>4, <2>5
<1>4. CASE SendDiscarded(c)
  BY <1>4 DEF SendDiscarded, Goes
<1>5. CASE SendFailed(c)
  BY <1>5 DEF SendFailed, Goes
<1>6. CASE RecvAck(c)
  <2>1. down' \in [Client -> Nat]
    BY <1>6, UpToLeaves DEF RecvAck
  <2> QED
    BY <1>6, <2>1 DEF RecvAck, Goes
<1> QED
  BY <1>1, <1>2, <1>3, <1>4, <1>5, <1>6 DEF sender, streams, Send

\* The playing thread keeps the types.
LEMMA TypeReceiver == ASSUME TypeOK, NEW c \in Client, receiver(c) PROVE TypeOK'
<1> USE SizeAssumption, CountAssumption DEF TypeOK, relay
<1>1. CASE OpenPlayback(c)
  BY <1>1 DEF OpenPlayback
<1>2. CASE RecvAndPlay(c)
  <2>1. down' \in [Client -> Nat]
    <3>1. \A n \in UpTo(BUFFSIZE, down[c]) : down[c] - n \in Nat
      BY UpToLeaves
    <3>2. CASE UNCHANGED down
      BY <3>2
    <3>3. CASE \E n \in UpTo(BUFFSIZE, down[c]) : down' = [down EXCEPT ![c] = @ - n]
      BY <3>1, <3>3
    <3> QED
      BY <1>2, <3>2, <3>3 DEF RecvAndPlay
  <2> QED
    BY <1>2, <2>1 DEF RecvAndPlay
<1> QED
  BY <1>1, <1>2 DEF receiver

\* What the relay's loop over its clients does to the types.
LEMMA TypeRelay == ASSUME TypeOK, NEW c \in Client, Relay(c) PROVE TypeOK'
<1> USE SizeAssumption, CountAssumption DEF TypeOK, threads, relay
<1>1. CASE RelayRecv(c)
  <2>1. PICK n \in 1..BUFFSIZE : Takes(c, n) /\ chunk' = [chunk EXCEPT ![c] = n]
    BY <1>1 DEF RelayRecv
  <2>2. up' \in [Client -> Nat]
    BY <2>1, UpToLeaves DEF Takes
  <2>3. chunk' \in [Client -> 0..BUFFSIZE]
    BY <2>1
  <2> QED
    BY <1>1, <2>2, <2>3 DEF RelayRecv
<1>2. ASSUME NEW S \in SUBSET Client, NextClient(c, S)
      PROVE  /\ rest' \subseteq Client /\ chunk' \in [Client -> 0..BUFFSIZE]
             /\ client_m' \in Client \cup {"nobody"} /\ other_client' \in Client \cup {"nobody"}
             /\ UNCHANGED <<program, server, threads, up, clients>>
  BY <1>2 DEF NextClient
<1>3. CASE RelayLock(c)
  BY <1>2, <1>3 DEF RelayLock
<1>4. CASE RelaySend(c)
  <2>1. conn' \in [Client -> {"none", "open", "left", "refused", "shut", "reset"}]
    BY <1>4 DEF RelaySend
  <2>2. down' \in [Client -> Nat]
    BY <1>4 DEF RelaySend
  <2> QED
    BY <1>2, <1>4, <2>1, <2>2 DEF RelaySend
<1> QED
  BY <1>1, <1>3, <1>4 DEF Relay

\* The servers keep the types.
LEMMA TypeServer ==
  ASSUME TypeOK, ServerStarts \/ ServerKilled \/ \E c \in Client : ServerAccepts(c) \/ handle_client(c) PROVE TypeOK'
<1> USE SizeAssumption, CountAssumption DEF TypeOK, threads, relay
<1>1. CASE ServerStarts
  BY <1>1 DEF ServerStarts
<1>2. CASE ServerKilled
  BY <1>2 DEF ServerKilled, ServerEnds
<1>3. ASSUME NEW c \in Client, NEW n \in 1..BUFFSIZE, Takes(c, n)
      PROVE  n \in Nat /\ up' \in [Client -> Nat]
  BY <1>3, UpToLeaves DEF Takes
<1>4. ASSUME NEW c \in Client, Acknowledge(c) PROVE TypeOK'
  BY <1>3, <1>4 DEF Acknowledge
<1>5. ASSUME NEW c \in Client, AcknowledgeKills(c) PROVE TypeOK'
  BY <1>5 DEF AcknowledgeKills, ServerEnds
<1>6. ASSUME NEW c \in Client, Relay(c) PROVE TypeOK'
  BY <1>6, TypeRelay
<1>7. ASSUME NEW c \in Client, HandlerEnds(c) PROVE TypeOK'
  BY <1>7 DEF HandlerEnds
<1>8. ASSUME NEW c \in Client, ServerAccepts(c) PROVE TypeOK'
  BY <1>8 DEF ServerAccepts
<1> QED
  BY <1>1, <1>2, <1>4, <1>5, <1>6, <1>7, <1>8 DEF handle_client

\* Every step keeps the types.
LEMMA TypeNext == TypeOK /\ [Next]_vars => TypeOK'
<1>1. ASSUME TypeOK, UNCHANGED vars PROVE TypeOK'
  BY <1>1 DEF TypeOK, vars, relay
<1> QED
  BY <1>1, TypeClient, TypeSender, TypeReceiver, TypeServer DEF Next

-----------------------------------------------------------------------------
\* Only the audio client has a thread that plays.
Mute == program = "basic" => \A c \in Client : playPc[c] \in {"off", "done"}

\* What is owed is a number, and grows by one acknowledgement with a packet.
LEMMA OwedNat == ASSUME TypeOK PROVE \A c \in Client : Owed(c) \in Nat
<1> TAKE c \in Client
<1>1. up[c] \in Nat /\ down[c] \in Nat
  BY DEF TypeOK
<1> DEFINE toCome == STAMP * Pieces(up[c])
<1>2. toCome \in Nat
  BY <1>1, AckBytes
<1>3. Owed(c) = down[c] + toCome
  BY DEF Owed
<1> HIDE DEF toCome
<1> QED
  BY <1>1, <1>2, <1>3

\* No step of the basic programs takes more from what is owed to a client than
\* it takes from what the client awaits.
Balanced(c) == Owed(c)' - Awaited(c)' >= Owed(c) - Awaited(c)

\* Every step of the basic programs keeps the balance of an open connection.
LEMMA Balance ==
  ASSUME TypeOK, Mute, program = "basic", Next, NEW c \in Client, conn[c] = "open", conn'[c] = "open"
  PROVE  Balanced(c)
<1> USE DEF TypeOK
<1>0. TypeOK' /\ Owed(c) \in Nat /\ STAMP \in Nat
  BY TypeNext, OwedNat, SizeAssumption
<1>1. ASSUME up'[c] = up[c], down'[c] = down[c], sendPc'[c] = "ack" => sendPc[c] = "ack"
      PROVE  Balanced(c)
  <2>1. Owed(c)' = Owed(c)
    BY <1>1 DEF Owed, Pieces
  <2> QED
    BY <1>0, <1>1, <2>1 DEF Balanced, Awaited
<1>2. CASE SendWritten(c)
  <2>1. up'[c] = up[c] + BUFFSIZE /\ down'[c] = down[c] /\ sendPc[c] = "send" /\ sendPc'[c] = "ack"
    BY <1>2 DEF SendWritten, PacketSize, Goes
  <2>2. Owed(c)' = Owed(c) + STAMP
    BY <1>0, <2>1, AckBytes DEF Owed
  <2> QED
    BY <1>0, <2>1, <2>2 DEF Balanced, Awaited
<1>3. CASE RecvAck(c)
  <2>1. PICK n \in UpTo(STAMP, down[c]) : down' = [down EXCEPT ![c] = @ - n]
    BY <1>3 DEF RecvAck
  <2>2. n \in Nat /\ n <= STAMP /\ down'[c] = down[c] - n
    BY <1>0, <2>1, UpToLeaves
  <2>3. up'[c] = up[c] /\ sendPc[c] = "ack" /\ sendPc'[c] = "send"
    BY <1>3 DEF RecvAck, Goes
  <2>4. Owed(c)' = Owed(c) - n
    BY <1>0, <2>2, <2>3, AckBytes DEF Owed
  <2> QED
    BY <1>0, <2>2, <2>3, <2>4 DEF Balanced, Awaited
<1>4. CASE Acknowledge(c)
  <2>1. PICK n \in 1..BUFFSIZE : Takes(c, n)
    BY <1>4 DEF Acknowledge
  <2>2. n <= up[c] /\ up'[c] = up[c] - n
    BY <2>1, UpToLeaves, SizeAssumption DEF Takes
  <2>3. down'[c] = down[c] + STAMP /\ sendPc' = sendPc
    BY <1>4 DEF Acknowledge, threads
  <2>4. Owed(c)' >= Owed(c) /\ Owed(c)' \in Nat
    <3> DEFINE before == STAMP * Pieces(up[c])
               after == STAMP * Pieces(up[c] - n)
    <3>1. before <= after + STAMP /\ before \in Nat /\ after \in Nat
      BY <2>2, AckBytes, SizeAssumption
    <3>2. Owed(c) = down[c] + before /\ Owed(c)' = down[c] + STAMP + after
      BY <2>2, <2>3 DEF Owed
    <3>3. down[c] \in Nat
      BY <1>0
    <3> HIDE DEF before, after
    <3> QED
      BY <1>0, <3>1, <3>2, <3>3
  <2>5. Awaited(c)' = Awaited(c) /\ Awaited(c) \in Nat
    BY <1>0, <2>3 DEF Awaited
  <2> QED
    BY <1>0, <2>4, <2>5 DEF Balanced
<1>5. CASE ServerStarts \/ ServerKilled
  <2>1. CASE ServerStarts
    BY <2>1, <1>1 DEF ServerStarts, threads
  <2>2. CASE ServerKilled
    BY <2>2 DEF ServerKilled, ServerEnds
  <2> QED
    BY <1>5, <2>1, <2>2
<1>6. ASSUME NEW d \in Client, Start(d) \/ Kill(d) \/ main(d) PROVE Balanced(c)
  <2>1. CASE Exit(d)
    <3>1. d # c
      BY <2>1 DEF Exit, ClientCloses
    <3> QED
      BY <2>1, <3>1, <1>1 DEF Exit, ClientCloses
  <2>2. CASE Start(d)
    BY <2>2, <1>1 DEF Start
  <2>3. CASE Attempt(d)
    BY <2>3, <1>1 DEF Attempt
  <2> QED
    BY <1>6, <2>1, <2>2, <2>3 DEF Kill, main, GiveUp, Join
<1>7. ASSUME NEW d \in Client, sender(d) PROVE Balanced(c)
  <2>1. ASSUME d # c PROVE Balanced(c)
    BY <1>7, <2>1, <1>1
       DEF sender, streams, OpenCapture, CaptureError, Send, SendWritten, SendDiscarded, SendFailed, RecvAck, Goes
  <2>2. CASE OpenCapture(d) \/ CaptureError(d) \/ SendFailed(d)
    BY <2>2, <1>1 DEF OpenCapture, CaptureError, SendFailed, Goes
  <2>3. ASSUME d = c PROVE ~SendDiscarded(d)
    BY <2>3 DEF SendDiscarded
  <2> QED
    BY <1>7, <1>2, <1>3, <2>1, <2>2, <2>3 DEF sender, streams, Send
<1>8. ASSUME NEW d \in Client, receiver(d) PROVE Balanced(c)
  BY <1>8 DEF receiver, OpenPlayback, RecvAndPlay, Mute
<1>9. ASSUME NEW d \in Client, handle_client(d) PROVE Balanced(c)
  <2>1. CASE Relay(d)
    BY <2>1 DEF Relay
  <2>2. CASE AcknowledgeKills(d)
    BY <2>2 DEF AcknowledgeKills, ServerEnds
  <2>3. CASE HandlerEnds(d)
    BY <2>3, <1>1 DEF HandlerEnds, threads
  <2>4. ASSUME d # c, Acknowledge(d) PROVE Balanced(c)
    BY <2>4, <1>1 DEF Acknowledge, Takes, threads
  <2> QED
    BY <1>9, <1>4, <2>1, <2>2, <2>3, <2>4 DEF handle_client
<1>10. ASSUME NEW d \in Client, ServerAccepts(d) PROVE Balanced(c)
  BY <1>10, <1>1 DEF ServerAccepts, threads
<1> QED
  BY <1>5, <1>6, <1>7, <1>8, <1>9, <1>10 DEF Next

\* The player's thread is never started by the basic client.
LEMMA MuteNext == ASSUME TypeOK, Mute, Next PROVE Mute'
<1> USE DEF TypeOK, Mute
<1>1. CASE ServerStarts \/ ServerKilled
  BY <1>1 DEF ServerStarts, ServerKilled, threads
<1>2. ASSUME NEW c \in Client, Start(c) \/ Kill(c) \/ main(c) PROVE Mute'
  BY <1>2 DEF Start, Kill, main, Attempt, GiveUp, Join, Exit
<1>3. ASSUME NEW c \in Client, sender(c) PROVE Mute'
  BY <1>3 DEF sender, streams, OpenCapture, CaptureError, Send, SendWritten, SendDiscarded, SendFailed, RecvAck
<1>4. ASSUME NEW c \in Client, receiver(c) PROVE Mute'
  BY <1>4 DEF receiver, OpenPlayback, RecvAndPlay
<1>5. ASSUME NEW c \in Client, ServerAccepts(c) \/ handle_client(c) PROVE Mute'
  BY <1>5 DEF ServerAccepts, handle_client, Acknowledge, AcknowledgeKills, HandlerEnds, threads,
              Relay, RelayRecv, RelayLock, RelaySend, NextClient
<1> QED
  BY <1>1, <1>2, <1>3, <1>4, <1>5 DEF Next

\* A connection is new when it comes to be open: nothing is awaited on it.
LEMMA NewConnection ==
  ASSUME TypeOK, Next, NEW c \in Client, conn[c] # "open", conn'[c] = "open"
  PROVE  sendPc'[c] # "ack"
<1> USE DEF TypeOK
<1>1. PICK d \in Client : Attempt(d) /\ conn' # conn
  <2>1. ServerStarts \/ ServerKilled => conn'[c] # "open" \/ conn' = conn
    BY DEF ServerStarts, ServerKilled, ServerEnds
  <2>2. \A d \in Client : Exit(d) => conn'[c] # "open" \/ conn'[c] = conn[c]
    BY DEF Exit, ClientCloses
  <2>3. \A d \in Client : sender(d) \/ receiver(d) => conn'[c] # "open" \/ conn' = conn
    BY DEF sender, streams, OpenCapture, CaptureError, Send, SendWritten, SendDiscarded, SendFailed, RecvAck,
           receiver, OpenPlayback, RecvAndPlay
  <2>4. \A d \in Client : ServerAccepts(d) \/ handle_client(d) => conn'[c] # "open" \/ conn'[c] = conn[c]
    BY DEF ServerAccepts, handle_client, Acknowledge, AcknowledgeKills, ServerEnds, HandlerEnds,
           Relay, RelayRecv, RelayLock, RelaySend
  <2>5. \A d \in Client : Start(d) => conn' = conn
    BY DEF Start
  <2> QED
    BY <2>1, <2>2, <2>3, <2>4, <2>5 DEF Next, main, Kill, GiveUp, Join
<1> QED
  BY <1>1 DEF Attempt

IInv == TypeOK /\ Mute /\ AckOwed

\* Every step keeps the invariant.
LEMMA InvNext == IInv /\ [Next]_vars => IInv'
<1> SUFFICES ASSUME IInv, [Next]_vars PROVE IInv'
  OBVIOUS
<1> USE DEF IInv
<1>1. CASE UNCHANGED vars
  BY <1>1 DEF vars, relay, TypeOK, Mute, AckOwed, Owed, Awaited, Pieces
<1>2. CASE Next
  <2>1. TypeOK' /\ Mute'
    BY <1>2, TypeNext, MuteNext
  <2>2. ASSUME program' = "basic", NEW c \in Client, conn'[c] = "open" PROVE Owed(c)' >= Awaited(c)'
    <3>1. program = "basic"
      BY <1>2, <2>2 DEF Next, ServerStarts, ServerKilled, Start, Kill, main, Attempt, GiveUp, Join, Exit,
         sender, streams, OpenCapture, CaptureError, Send, SendWritten, SendDiscarded, SendFailed, RecvAck,
         receiver, OpenPlayback, RecvAndPlay,
         ServerAccepts, handle_client, Acknowledge, AcknowledgeKills, HandlerEnds,
         Relay, RelayRecv, RelayLock, RelaySend, NextClient
    <3>2. Owed(c) \in Nat /\ Owed(c)' \in Nat /\ Awaited(c) \in Nat /\ Awaited(c)' \in Nat
      <4>1. Owed(c) \in Nat
        BY OwedNat
      <4>2. Owed(c)' \in Nat
        BY <2>1, OwedNat, AckBytes, SizeAssumption DEF TypeOK, Owed
      <4> QED
        BY <4>1, <4>2, SizeAssumption DEF Awaited
    <3>3. CASE conn[c] = "open"
      <4>1. Balanced(c)
        BY <1>2, <2>2, <3>1, <3>3, Balance
      <4>2. Owed(c) >= Awaited(c)
        BY <3>1, <3>3 DEF AckOwed
      <4> QED
        BY <3>2, <4>1, <4>2 DEF Balanced
    <3>4. CASE conn[c] # "open"
      BY <1>2, <2>2, <3>2, <3>4, NewConnection DEF Awaited
    <3> QED
      BY <3>3, <3>4
  <2> QED
    BY <2>1, <2>2 DEF AckOwed
<1> QED
  BY <1>1, <1>2

\* At the start no connection is open.
LEMMA InvInit == Init => IInv
BY TypeInit DEF Init, IInv, Mute, AckOwed

\* Types, the thread that only one of the programs has, and a whole
\* acknowledgement for every sender that waits for one.
THEOREM MeasureInductive == Spec => []IInv
BY InvInit, InvNext, PTL DEF Spec

\* Numbers of bytes, states of connections and positions of threads are what
\* TypeOK says, for all sizes: no read of the code takes more than there is
\* (TCPLBCl.cpp:114, 153; ClientBasicTCPM.cpp:80; MeasureTCP.cpp:19).
THEOREM MeasureTypes == Spec => []TypeOK
<1>1. IInv => TypeOK
  BY DEF IInv
<1> QED
  BY <1>1, MeasureInductive, PTL

\* The ping-pong of ClientBasicTCPM.cpp and MeasureTCP.cpp cannot lock up,
\* whatever pieces the stream is received in, for all sizes and numbers.
THEOREM MeasureAckOwed == Spec => []AckOwed
<1>1. IInv => AckOwed
  BY DEF IInv
<1> QED
  BY <1>1, MeasureInductive, PTL

\* A client that has fallen behind with the acknowledgements stays behind.
THEOREM MeasureLagStays == Spec => LagStays
<1>1. ASSUME IInv, Next, program = "basic", NEW c \in Client, Behind(c), conn'[c] = "open"
      PROVE  Behind(c)'
  <2>1. Balanced(c)
    BY <1>1, Balance DEF IInv, Behind
  <2>2. Owed(c) \in Nat /\ Awaited(c) \in Nat /\ Awaited(c)' \in Nat /\ Owed(c)' \in Nat
    <3>1. TypeOK' /\ Owed(c) \in Nat
      BY <1>1, TypeNext, OwedNat DEF IInv
    <3>2. Owed(c)' \in Nat
      BY <3>1, AckBytes, SizeAssumption DEF TypeOK, Owed
    <3> QED
      BY <3>1, <3>2, SizeAssumption DEF Awaited
  <2> QED
    BY <1>1, <2>1, <2>2 DEF Balanced, Behind
<1>2. IInv /\ [Next]_vars =>
        [program = "basic" =>
           \A c \in Client : Behind(c) /\ conn'[c] = "open" => Behind(c)']_vars
  BY <1>1
<1> QED
  BY <1>2, MeasureInductive, PTL DEF Spec, LagStays


-----------------------------------------------------------------------------
\* A registered client's socket is open at the relay, and a client that has left
\* has ended.
Registered ==
  /\ \A c \in clients : conn[c] \in {"open", "left", "refused"}
  /\ \A c \in Client : conn[c] \in {"left", "refused"} => mainPc[c] = "exit"

\* A handler in its loop holds the mutex, and goes through registered clients.
LoopHeld ==
  /\ client_m = "nobody" => other_client = "nobody" /\ rest = {}
  /\ rest \subseteq clients /\ other_client \in clients \cup {"nobody"}

\* A step that leaves the relay alone and closes no registered client's socket.
LEMMA RegisteredFrame ==
  ASSUME TypeOK, Registered, LoopHeld, UNCHANGED relay,
         \A c \in Client :
           /\ c \in clients => conn'[c] \in {"open", "left", "refused"}
           /\ conn'[c] \in {"left", "refused"} => mainPc'[c] = "exit"
  PROVE  Registered' /\ LoopHeld'
BY DEF TypeOK, Registered, LoopHeld, relay

\* The loop's next client is one of those it still has to send to.
LEMMA LoopNext ==
  ASSUME TypeOK, LoopHeld, NEW c \in Client, NEW S \in SUBSET clients, NextClient(c, S)
  PROVE  LoopHeld' /\ UNCHANGED <<clients, mainPc>>
BY NobodyAssumption DEF TypeOK, LoopHeld, NextClient, threads

\* Every step keeps the relay's clients connected.
LEMMA RegisteredNext ==
  ASSUME TypeOK, Registered, LoopHeld, Next PROVE Registered' /\ LoopHeld'
<1> USE DEF TypeOK
<1>1. CASE ServerStarts
  BY <1>1, RegisteredFrame DEF ServerStarts, Registered, threads
<1>2. ASSUME NEW how, ServerEnds(how), UNCHANGED threads PROVE Registered' /\ LoopHeld'
  BY <1>2 DEF ServerEnds, Registered, LoopHeld
<1>3. ASSUME NEW c \in Client, Start(c) \/ Attempt(c) PROVE Registered' /\ LoopHeld'
  BY <1>3, RegisteredFrame DEF Start, Attempt, Registered
<1>4. ASSUME NEW c \in Client, mainPc[c] # "exit", Exit(c) PROVE Registered' /\ LoopHeld'
  BY <1>4, RegisteredFrame DEF Exit, ClientCloses, Registered
<1>5. ASSUME NEW c \in Client, sender(c) \/ receiver(c) PROVE Registered' /\ LoopHeld'
  <2>1. UNCHANGED <<mainPc, relay>>
    BY <1>5 DEF sender, streams, OpenCapture, CaptureError, Send, SendWritten, SendDiscarded,
                SendFailed, RecvAck, receiver, OpenPlayback, RecvAndPlay
  <2>2. conn' = conn \/ (conn[c] = "shut" /\ conn' = [conn EXCEPT ![c] = "reset"])
    BY <1>5 DEF sender, streams, OpenCapture, CaptureError, Send, SendWritten, SendDiscarded,
                SendFailed, RecvAck, receiver, OpenPlayback, RecvAndPlay
  <2> QED
    BY <2>1, <2>2, RegisteredFrame DEF Registered
<1>6. ASSUME NEW c \in Client, ServerAccepts(c) PROVE Registered' /\ LoopHeld'
  BY <1>6 DEF ServerAccepts, Connected, Registered, LoopHeld, threads
<1>7. ASSUME NEW c \in Client, Acknowledge(c) PROVE Registered' /\ LoopHeld'
  BY <1>7, RegisteredFrame DEF Acknowledge, Serving, Connected, Registered, threads
<1>8. ASSUME NEW c \in Client, Relay(c) PROVE Registered' /\ LoopHeld'
  <2>1. CASE RelayRecv(c)
    BY <2>1 DEF RelayRecv, Registered, LoopHeld, threads
  <2>2. CASE RelayLock(c)
    <3>1. LoopHeld' /\ UNCHANGED <<clients, mainPc, conn>>
      BY <2>2, LoopNext DEF RelayLock
    <3> QED
      BY <3>1 DEF Registered
  <2>3. CASE RelaySend(c)
    <3>1. LoopHeld' /\ UNCHANGED <<clients, mainPc>>
      BY <2>3, LoopNext DEF RelaySend, LoopHeld
    <3>2. \/ conn' = conn
          \/ conn[other_client] = "left" /\ conn' = [conn EXCEPT ![other_client] = "refused"]
      BY <2>3 DEF RelaySend
    <3> QED
      BY <3>1, <3>2 DEF Registered
  <2> QED
    BY <1>8, <2>1, <2>2, <2>3 DEF Relay
<1>9. ASSUME NEW c \in Client, HandlerEnds(c) PROVE Registered' /\ LoopHeld'
  BY <1>9 DEF HandlerEnds, Registered, LoopHeld, threads
<1> QED
  BY <1>1, <1>2, <1>3, <1>4, <1>5, <1>6, <1>7, <1>8, <1>9
     DEF Next, ServerKilled, AcknowledgeKills, main, Kill, GiveUp, Join, handle_client

\* No client leaves the relay's list, nor is its socket closed, while a loop over
\* the list sends to it (TCPLBSr.cpp:36-44, 53-59), for any number of clients.
THEOREM MeasureSendsToClient == Spec => []SendsToClient
<1> DEFINE RInv == TypeOK /\ Registered /\ LoopHeld
<1>1. Init => RInv
  BY TypeInit DEF Init, Registered, LoopHeld
<1>2. RInv /\ [Next]_vars => RInv'
  <2>1. ASSUME Registered, LoopHeld, UNCHANGED vars PROVE Registered' /\ LoopHeld'
    BY <2>1 DEF vars, relay, Registered, LoopHeld
  <2> QED
    BY <2>1, TypeNext, RegisteredNext
<1>3. RInv => SendsToClient
  BY DEF Registered, LoopHeld, SendsToClient
<1> QED
  BY <1>1, <1>2, <1>3, PTL DEF Spec
=============================================================================
