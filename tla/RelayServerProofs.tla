--------------------------- MODULE RelayServerProofs ---------------------------
(***************************************************************************)
(* Theorems about the relay server, for any number of connections,         *)
(* descriptors and bytes.                                                  *)
(***************************************************************************)
EXTENDS RelayServerInv, SequenceTheorems, TLAPS

USE DEF MainPc, HandlerPc, PeerState

\* The initial state has the types.
LEMMA TypeInit == Init => TypeOK
<1> SUFFICES ASSUME Init PROVE TypeOK
  OBVIOUS
<1>1. \A S : <<>> \in Seq(S)
  OBVIOUS
<1> QED
  BY <1>1, SizeAssumption DEF Init, TypeOK

\* The next byte that a client sends.
LEMMA NextByte == ASSUME NEW c \in Conn, NEW n \in 0 .. MaxSend PROVE <<c, n + 1>> \in Byte
BY SizeAssumption DEF Byte

\* What a client does keeps the types.
LEMMA TypeClient == ASSUME TypeOK, NEW c \in Conn, Client(c) PROVE TypeOK'
<1> USE DEF TypeOK
<1>1. CASE Connect(c)
  BY <1>1 DEF Connect, threads
<1>2. CASE ClientSend(c)
  <2>1. <<c, sent[c] + 1>> \in Byte
    BY NextByte
  <2>2. up' \in [Conn -> Seq(Byte)]
    BY <1>2, <2>1, AppendProperties DEF ClientSend
  <2>3. sent' \in [Conn -> 0 .. MaxSend]
    BY <1>2, SizeAssumption DEF ClientSend
  <2> QED
    BY <1>2, <2>2, <2>3 DEF ClientSend, threads
<1>3. CASE ClientRead(c)
  BY <1>3 DEF ClientRead, threads
<1>4. CASE ClientClose(c)
  BY <1>4 DEF ClientClose, threads
<1>5. CASE ClientReset(c)
  <2>1. \A n \in 0 .. Len(up[c]) : SubSeq(up[c], 1, n) \in Seq(Byte)
    BY SubSeqProperties
  <2>2. up' \in [Conn -> Seq(Byte)]
    BY <1>5, <2>1 DEF ClientReset
  <2> QED
    BY <1>5, <2>2 DEF ClientReset, threads
<1> QED
  BY <1>1, <1>2, <1>3, <1>4, <1>5 DEF Client

\* What main() does keeps the types.
LEMMA TypeMain == ASSUME TypeOK, Admitted, main PROVE TypeOK'
<1> USE DEF TypeOK
<1>1. CASE Accept
  <2>1. Head(backlog) \in Conn /\ Tail(backlog) \in Seq(Conn)
    BY <1>1, HeadTailProperties DEF Accept
  <2> QED
    BY <1>1, <2>1 DEF Accept
<1>2. CASE AddClient
  <2>1. new_fd \in Fds
    BY <1>2 DEF AddClient, Admitted, Admitting
  <2>2. clients' \in Seq(Fds)
    BY <1>2, <2>1, AppendProperties DEF AddClient
  <2> QED
    BY <1>2, <2>2 DEF AddClient, kernel
<1>3. CASE SpawnHandler
  BY <1>3 DEF SpawnHandler, kernel
<1> QED
  BY <1>1, <1>2, <1>3 DEF main

\* What a handler does keeps the types.
LEMMA TypeHandler == ASSUME TypeOK, NEW c \in Conn, handle_c(c) PROVE TypeOK'
<1> USE DEF TypeOK
<1>1. CASE Recv(c)
  <2>1. \A n \in 1 .. Len(up[c]) :
          SubSeq(up[c], 1, n) \in Seq(Byte) /\ SubSeq(up[c], n + 1, Len(up[c])) \in Seq(Byte)
    <3> TAKE n \in 1 .. Len(up[c])
    <3>1. up[c] \in Seq(Byte) /\ \A i \in 1 .. Len(up[c]) : up[c][i] \in Byte
      BY ElementOfSeq
    <3>2. SubSeq(up[c], 1, n) \in Seq(Byte)
      BY <3>1, SubSeqProperties
    <3>3. SubSeq(up[c], n + 1, Len(up[c])) \in Seq(Byte)
      BY <3>1, SubSeqProperties
    <3> QED
      BY <3>2, <3>3
  <2>2. up' \in [Conn -> Seq(Byte)] /\ buffer' \in [Conn -> Seq(Byte)]
    BY <1>1, <2>1 DEF Recv
  <2> QED
    BY <1>1, <2>2 DEF Recv
<1>2. CASE RecvEnd(c)
  BY <1>2 DEF RecvEnd, kernel
<1>3. CASE LockClients(c)
  <2>1. [from |-> c, data |-> buffer[c]] \in Chunk
    BY DEF Chunk
  <2>2. log' \in Seq(Chunk)
    BY <1>3, <2>1, AppendProperties DEF LockClients
  <2> QED
    BY <1>3, <2>2 DEF LockClients, kernel
<1>4. CASE SkipSelf(c)
  BY <1>4 DEF SkipSelf, Advance, kernel
<1>5. ASSUME NEW d \in Conn \cup {NoConn}, SendWritten(c, d) PROVE TypeOK'
  <2>1. d \in Conn
    BY <1>5 DEF SendWritten
  <2>2. out[d] \o buffer[c] \in Seq(Byte)
    BY <2>1, ConcatProperties
  <2>3. out' \in [Conn -> Seq(Byte)]
    BY <1>5, <2>1, <2>2 DEF SendWritten
  <2>4. Advance(c)
    BY <1>5 DEF SendWritten
  <2>5. next' \in [Conn -> Nat]
    BY <2>4 DEF Advance
  <2>6. UNCHANGED <<alive, clients, client_m, mainPc, new_fd, pc, client_socket, buffer,
                    fdTab, backlog, peer, sent, up, taken, log>>
    BY <1>5 DEF SendWritten
  <2> QED
    BY <2>3, <2>5, <2>6
<1>6. ASSUME NEW d \in Conn \cup {NoConn}, SendDiscarded(c, d) PROVE TypeOK'
  <2>1. peer' \in [Conn -> PeerState]
    BY <1>6 DEF SendDiscarded
  <2>2. next' \in [Conn -> Nat]
    BY <1>6 DEF SendDiscarded, Advance
  <2> QED
    BY <1>6, <2>1, <2>2 DEF SendDiscarded
<1>7. ASSUME NEW d \in Conn \cup {NoConn}, SendFailed(c, d) PROVE TypeOK'
  BY <1>7 DEF SendFailed, Advance, kernel
<1>8. ASSUME NEW d \in Conn \cup {NoConn}, SendKilled(c, d) PROVE TypeOK'
  BY <1>8 DEF SendKilled, kernel, threads
<1>9. CASE EndBroadcast(c)
  BY <1>9, EmptySeq DEF EndBroadcast, kernel
<1>10. CASE RemoveClient(c)
  <2>1. PICK t \in Kept(clients, client_socket[c]) : clients' = [i \in DOMAIN t |-> clients[t[i]]]
    BY <1>10 DEF RemoveClient
  <2>2. PICK n \in 0 .. Len(clients) : t \in [1 .. n -> DOMAIN clients]
    BY <2>1 DEF Kept
  <2>3. clients' \in [1 .. n -> Fds]
    BY <2>1, <2>2
  <2>4. clients' \in Seq(Fds)
    BY <2>2, <2>3, SeqDef
  <2> QED
    BY <1>10, <2>4 DEF RemoveClient, kernel
<1>11. CASE CloseClient(c)
  BY <1>11 DEF CloseClient
<1> QED
  BY <1>1, <1>2, <1>3, <1>4, <1>5, <1>6, <1>7, <1>8, <1>9, <1>10, <1>11
     DEF handle_c, Broadcast, HandlerExit

-----------------------------------------------------------------------------
(***************************************************************************)
(* IInv is inductive.  Beside the types it speaks of the descriptors, the  *)
(* vector and the mutex only, and many steps touch none of them.           *)
(***************************************************************************)
Ownership == OwnSocket /\ OneOwner /\ Admitted
Vector == VectorDistinct /\ VectorSound /\ VectorComplete

\* Who owns what does not change with the clients' bytes.
LEMMA Frame ==
  ASSUME UNCHANGED <<clients, client_m, mainPc, new_fd, pc, client_socket, fdTab>>
  PROVE  /\ Ownership => Ownership'
         /\ Vector => Vector'
         /\ MutexHeld => MutexHeld'
BY DEF Ownership, OwnSocket, OneOwner, Admitted, Admitting, Vector, VectorDistinct,
       VectorSound, VectorComplete, MutexHeld

\* A connection that is not idle may close or be reset.
LEMMA FrameQueued ==
  ASSUME Queued, UNCHANGED <<pc, fdTab, backlog>>,
         \A c \in Conn : peer'[c] = "idle" <=> peer[c] = "idle",
         backlog \in Seq(Conn)
  PROVE  Queued'
BY DEF Queued, Unaccepted

\* The invariant holds initially.
LEMMA InvInit == Init => IInv
<1> SUFFICES ASSUME Init PROVE IInv
  OBVIOUS
<1>1. Ownership
  BY DEF Init, Ownership, OwnSocket, OneOwner, Admitted, Admitting, Owning, Serving
<1>2. Queued
  BY ConnAssumption DEF Init, Queued, Unaccepted
<1>3. Vector
  BY DEF Init, Vector, VectorDistinct, VectorSound, VectorComplete, Serving
<1>4. MutexHeld
  BY ConnAssumption DEF Init, MutexHeld
<1> QED
  BY TypeInit, <1>1, <1>2, <1>3, <1>4 DEF IInv, Ownership, Vector

\* The types that the ownership of the descriptors rests on.
OwnerTypes ==
  /\ pc \in [Conn -> HandlerPc] /\ client_socket \in [Conn -> Fds \cup {-1}]
  /\ fdTab \in [Fds -> Conn \cup {NoConn}] /\ peer \in [Conn -> PeerState]
  /\ clients \in Seq(Fds) /\ backlog \in Seq(Conn)
  /\ Len(clients) \in Nat /\ DOMAIN clients = 1 .. Len(clients)
  /\ \A i \in DOMAIN clients : clients[i] \in Fds
  /\ Len(backlog) \in Nat /\ DOMAIN backlog = 1 .. Len(backlog)
  /\ \A i \in DOMAIN backlog : backlog[i] \in Conn

\* The types that the lemmas about owners use follow from TypeOK.
LEMMA InvTypes == TypeOK => OwnerTypes
BY LenProperties, ElementOfSeq DEF TypeOK, OwnerTypes

\* Clients leave the server's threads alone; a connection request joins the
\* accept queue.
LEMMA InvClient == ASSUME IInv, NEW c \in Conn, Client(c) PROVE IInv'
<1>1. TypeOK'
  BY TypeClient DEF IInv
<1>2. UNCHANGED <<clients, client_m, mainPc, new_fd, pc, client_socket, fdTab>>
  BY DEF Client, Connect, ClientSend, ClientRead, ClientClose, ClientReset, threads
<1>3. Queued /\ OwnerTypes
  BY InvTypes DEF IInv
<1>4. CASE Connect(c)
  <2>1. /\ backlog' = Append(backlog, c) /\ backlog \in Seq(Conn)
        /\ peer[c] = "idle" /\ peer' = [peer EXCEPT ![c] = "open"]
    BY <1>3, <1>4 DEF Connect, OwnerTypes
  <2>2. /\ Len(backlog) \in Nat /\ DOMAIN backlog = 1 .. Len(backlog)
        /\ DOMAIN backlog' = 1 .. Len(backlog) + 1
        /\ \A i \in 1 .. Len(backlog) : backlog'[i] = backlog[i]
        /\ backlog'[Len(backlog) + 1] = c
    BY <2>1, AppendProperties, LenProperties
  <2>3. \A i \in DOMAIN backlog : backlog[i] \in Conn /\ backlog[i] # c
    BY <1>3, <2>1 DEF Queued, OwnerTypes
  <2>4. c \in Unaccepted
    BY <1>3, <2>1 DEF Queued
  <2>5. Unaccepted' = Unaccepted
    BY <1>2 DEF Unaccepted
  <2>6. peer'[c] = "open" /\ \A e \in Conn : e # c => peer'[e] = peer[e]
    BY <1>3, <2>1 DEF OwnerTypes
  <2>7. \A i \in DOMAIN backlog' : peer'[backlog'[i]] # "idle" /\ backlog'[i] \in Unaccepted'
    <3> SUFFICES ASSUME NEW i \in DOMAIN backlog'
                 PROVE  peer'[backlog'[i]] # "idle" /\ backlog'[i] \in Unaccepted'
      OBVIOUS
    <3>1. CASE i \in DOMAIN backlog
      BY <3>1, <1>3, <2>2, <2>3, <2>5, <2>6 DEF Queued
    <3>2. CASE i = Len(backlog) + 1
      BY <3>2, <2>2, <2>4, <2>5, <2>6
    <3> QED
      BY <3>1, <3>2, <2>2
  <2>8. \A i, j \in DOMAIN backlog' : backlog'[i] = backlog'[j] => i = j
    BY <1>3, <2>2, <2>3 DEF Queued
  <2>9. \A e \in Conn : peer'[e] = "idle" => e \in Unaccepted'
    BY <1>3, <2>5, <2>6 DEF Queued
  <2>10. Queued'
    BY <2>7, <2>8, <2>9 DEF Queued
  <2> QED
    BY <1>1, <1>2, <2>10, Frame DEF IInv, Ownership, Vector
<1>5. CASE ClientSend(c) \/ ClientRead(c) \/ ClientClose(c) \/ ClientReset(c)
  <2>1. backlog' = backlog /\ \A e \in Conn : peer'[e] = "idle" <=> peer[e] = "idle"
    BY <1>3, <1>5 DEF ClientSend, ClientRead, ClientClose, ClientReset, OwnerTypes
  <2>2. Queued'
    BY <1>2, <1>3, <2>1, FrameQueued DEF OwnerTypes
  <2> QED
    BY <1>1, <1>2, <2>2, Frame DEF IInv, Ownership, Vector
<1> QED
  BY <1>4, <1>5 DEF Client

\* main() moves a connection from the accept queue to a descriptor, to the
\* vector and to a handler, and owns the descriptor meanwhile.
LEMMA InvMain == ASSUME IInv, main PROVE IInv'
<1>1. TypeOK'
  BY TypeMain DEF IInv
<1>0. Ownership /\ Queued /\ Vector /\ MutexHeld /\ OwnerTypes /\ NoConn \notin Conn
  BY InvTypes, ConnAssumption DEF IInv, Ownership, Vector
<1> USE DEF Ownership, Vector, OwnerTypes
<1>2. CASE Accept
  <2>1. PICK f \in Fds : fdTab[f] = NoConn /\ new_fd' = f
                          /\ fdTab' = [fdTab EXCEPT ![f] = Head(backlog)]
    BY <1>2 DEF Accept, LowestFree
  <2>2. /\ mainPc = "accept" /\ mainPc' = "push" /\ backlog # <<>> /\ backlog' = Tail(backlog)
        /\ UNCHANGED <<clients, client_m, pc, client_socket, peer>>
    BY <1>2 DEF Accept
  <2>3. /\ Head(backlog) = backlog[1] /\ 1 \in DOMAIN backlog
        /\ \A i \in DOMAIN backlog' : /\ i \in Nat \ {0} /\ i + 1 \in DOMAIN backlog
                                      /\ backlog'[i] = backlog[i + 1]
    BY <1>0, <2>2, HeadTailProperties, LenProperties
  <2>4. peer[Head(backlog)] # "idle" /\ Head(backlog) \in Unaccepted /\ Head(backlog) \in Conn
    BY <1>0, <2>3, HeadTailProperties, <2>2 DEF Queued
  <2>5. Ownership'
    BY <2>1, <2>2, <2>4, <1>0
       DEF OwnSocket, OneOwner, Admitted, Admitting, Unaccepted
  <2>6. Queued'
    <3>1. \A i \in DOMAIN backlog' : backlog'[i] # Head(backlog)
      BY <1>0, <2>3 DEF Queued
    <3>2. \A i \in DOMAIN backlog' : peer'[backlog'[i]] # "idle" /\ backlog'[i] \in Unaccepted'
      BY <1>0, <2>1, <2>2, <2>3, <3>1 DEF Queued, Unaccepted
    <3>3. \A i, j \in DOMAIN backlog' : backlog'[i] = backlog'[j] => i = j
      BY <1>0, <2>3 DEF Queued
    <3>4. \A d \in Conn : peer'[d] = "idle" => d \in Unaccepted'
      BY <1>0, <2>1, <2>2, <2>4 DEF Queued, Unaccepted
    <3> QED
      BY <1>0, <3>2, <3>3, <3>4 DEF Queued, Unaccepted
  <2>7. Vector'
    <3>1. \A i \in DOMAIN clients : clients[i] \in Fds /\ clients[i] # new_fd'
      BY <1>0, <2>1 DEF VectorSound
    <3> QED
      BY <1>0, <2>1, <2>2, <3>1 DEF VectorDistinct, VectorSound, VectorComplete
  <2>8. MutexHeld'
    BY <1>0, <2>2 DEF MutexHeld
  <2> QED
    BY <1>1, <2>5, <2>6, <2>7, <2>8 DEF IInv
<1>3. CASE AddClient
  <2>1. /\ mainPc = "push" /\ mainPc' = "spawn" /\ clients' = Append(clients, new_fd)
        /\ UNCHANGED <<client_m, new_fd, pc, client_socket, fdTab, backlog, peer>>
    BY <1>3 DEF AddClient, kernel
  <2>2. new_fd \in Fds /\ fdTab[new_fd] \in Conn /\ pc[fdTab[new_fd]] = "none"
    BY <1>0, <2>1 DEF Admitted, Admitting
  <2>3. /\ Len(clients) \in Nat /\ DOMAIN clients = 1 .. Len(clients)
        /\ DOMAIN clients' = 1 .. Len(clients) + 1
        /\ \A i \in 1 .. Len(clients) : clients'[i] = clients[i]
        /\ clients'[Len(clients) + 1] = new_fd
    BY <1>0, <2>1, <2>2, AppendProperties, LenProperties
  <2>4. \A i \in DOMAIN clients : clients[i] # new_fd
    BY <1>0, <2>1, <2>2 DEF VectorSound, Serving
  <2>5. Ownership'
    BY <1>0, <2>1 DEF OwnSocket, OneOwner, Admitted, Admitting
  <2>6. Queued'
    BY <1>0, <2>1, FrameQueued
  <2>7. VectorDistinct'
    BY <1>0, <2>3, <2>4 DEF VectorDistinct
  <2>8. VectorSound'
    BY <2>1, <2>2, <2>3, <1>0 DEF VectorSound
  <2>9. VectorComplete'
    BY <1>0, <2>1, <2>3 DEF VectorComplete
  <2>10. MutexHeld'
    BY <1>0, <2>1 DEF MutexHeld
  <2> QED
    BY <1>1, <2>5, <2>6, <2>7, <2>8, <2>9, <2>10 DEF IInv
<1>4. CASE SpawnHandler
  <2> DEFINE d == fdTab[new_fd]
  <2>1. /\ mainPc = "spawn" /\ mainPc' = "accept" /\ new_fd' = -1
        /\ pc' = [pc EXCEPT ![d] = "recv"]
        /\ client_socket' = [client_socket EXCEPT ![d] = new_fd]
        /\ UNCHANGED <<clients, client_m, fdTab, backlog, peer>>
    BY <1>4 DEF SpawnHandler, kernel
  <2>2. new_fd \in Fds /\ d \in Conn /\ pc[d] = "none"
    BY <1>0, <2>1 DEF Admitted, Admitting
  <2>3. \A f \in Fds : fdTab[f] = d => f = new_fd
    BY <2>2, <1>0 DEF OneOwner, Owning, Serving
  <2> HIDE DEF d
  <2>4. d = fdTab[new_fd]
    BY DEF d
  <2>5. Ownership'
    BY <1>0, <2>1, <2>2, <2>3, <2>4
       DEF OwnSocket, OneOwner, Admitted, Admitting, Owning, Serving
  <2>6. Queued'
    <3>1. Unaccepted \subseteq Unaccepted'
      BY <1>0, <2>1, <2>2, <2>4 DEF Unaccepted
    <3>2. \A i \in DOMAIN backlog : backlog[i] \in Conn
      BY <1>0
    <3> QED
      BY <1>0, <2>1, <3>1, <3>2 DEF Queued
  <2>7. Vector'
    <3>1. \A i \in DOMAIN clients : clients[i] \in Fds
      BY <1>0
    <3> QED
      BY <1>0, <2>1, <2>2, <2>3, <2>4, <3>1
         DEF VectorDistinct, VectorSound, VectorComplete, Serving
  <2>8. MutexHeld'
    BY <1>0, <2>1, <2>2 DEF MutexHeld
  <2> QED
    BY <1>1, <2>5, <2>6, <2>7, <2>8 DEF IInv
<1> QED
  BY <1>2, <1>3, <1>4 DEF main

\* A handler that goes from one step of its loop to another stays the owner of
\* its socket and stays in the vector.
LEMMA ServingStep ==
  ASSUME OwnerTypes, NoConn \notin Conn, NEW c \in Conn, NEW x \in Serving,
         pc[c] \in Serving, pc' = [pc EXCEPT ![c] = x],
         UNCHANGED <<clients, mainPc, new_fd, client_socket, fdTab, backlog, peer>>
  PROVE  (Ownership => Ownership') /\ (Queued => Queued') /\ (Vector => Vector')
<1> USE DEF OwnerTypes
<1>1. pc[c] # "none" /\ x # "none" /\ \A e \in Conn : e # c => pc'[e] = pc[e]
  BY DEF Serving
<1>2. Unaccepted' = Unaccepted
  BY <1>1 DEF Unaccepted
<1>3. /\ \A e \in Conn : pc[e] \in Serving <=> pc'[e] \in Serving
      /\ \A e \in Conn : pc[e] \in Owning <=> pc'[e] \in Owning
      /\ \A e \in Conn : pc[e] = "none" <=> pc'[e] = "none"
  BY <1>1 DEF Owning
<1>4. Ownership => Ownership'
  BY <1>3 DEF Ownership, OwnSocket, OneOwner, Admitted, Admitting
<1>5. Queued => Queued'
  BY <1>2 DEF Queued
<1>6. Vector => Vector'
  BY <1>3 DEF Vector, VectorDistinct, VectorSound, VectorComplete
<1> QED
  BY <1>4, <1>5, <1>6

\* A handler takes itself out of the vector before it closes its socket.
LEMMA InvRemove == ASSUME IInv, NEW c \in Conn, RemoveClient(c) PROVE IInv'
<1>0. Ownership /\ Queued /\ Vector /\ MutexHeld /\ OwnerTypes /\ NoConn \notin Conn
  BY InvTypes, ConnAssumption DEF IInv, Ownership, Vector
<1> USE DEF Ownership, Vector, OwnerTypes
<1>1. TypeOK'
  BY TypeHandler DEF IInv, handle_c, HandlerExit
<1>2. /\ pc[c] = "remove" /\ pc' = [pc EXCEPT ![c] = "close"]
      /\ UNCHANGED <<client_m, mainPc, new_fd, client_socket, fdTab, backlog, peer>>
  BY DEF RemoveClient, kernel
<1> DEFINE f == client_socket[c]
<1>3. f \in Fds /\ fdTab[f] = c
  BY <1>0, <1>2 DEF OwnSocket, Owning, Serving
<1>4. PICK t \in Kept(clients, f) : clients' = [i \in DOMAIN t |-> clients[t[i]]]
  BY DEF RemoveClient
<1>5. PICK n \in 0 .. Len(clients) : t \in [1 .. n -> DOMAIN clients]
  BY <1>4 DEF Kept
<1>6. /\ \A i, j \in 1 .. n : i < j => t[i] < t[j]
      /\ {t[i] : i \in 1 .. n} = {i \in DOMAIN clients : clients[i] # f}
  BY <1>4, <1>5 DEF Kept
<1>7. /\ DOMAIN clients' = 1 .. n
      /\ \A i \in 1 .. n : /\ t[i] \in DOMAIN clients /\ clients'[i] = clients[t[i]]
                           /\ clients[t[i]] # f
  BY <1>4, <1>5, <1>6
<1>8. \A i \in DOMAIN clients : clients[i] # f => \E k \in 1 .. n : clients'[k] = clients[i]
  BY <1>6, <1>7
<1>9. \A e \in Conn : e # c /\ pc[e] \in Owning => client_socket[e] # f
  BY <1>0, <1>3 DEF OwnSocket
<1>10. pc'[c] = "close" /\ \A e \in Conn : e # c => pc'[e] = pc[e]
  BY <1>0, <1>2
<1> HIDE DEF f
<1>11. Ownership'
  BY <1>0, <1>2, <1>10 DEF OwnSocket, OneOwner, Admitted, Admitting, Owning, Serving
<1>12. Queued'
  <2>1. Unaccepted' = Unaccepted
    BY <1>0, <1>2, <1>10 DEF Unaccepted
  <2> QED
    BY <1>0, <1>2, <2>1 DEF Queued
<1>13. VectorDistinct'
  <2> SUFFICES ASSUME NEW i \in 1 .. n, NEW j \in 1 .. n, clients'[i] = clients'[j]
               PROVE  i = j
    BY <1>7 DEF VectorDistinct
  <2>1. t[i] = t[j]
    BY <1>0, <1>7 DEF VectorDistinct
  <2>2. ~(i < j) /\ ~(j < i)
    BY <1>0, <1>6, <1>7, <2>1
  <2> QED
    BY <2>2
<1>14. VectorSound'
  <2> SUFFICES ASSUME NEW i \in 1 .. n
               PROVE  /\ fdTab'[clients'[i]] # NoConn
                      /\ \/ pc'[fdTab'[clients'[i]]] \in Serving
                         \/ mainPc' = "spawn" /\ new_fd' = clients'[i]
    BY <1>7 DEF VectorSound
  <2> DEFINE e == fdTab[clients[t[i]]]
  <2>1. e \in Conn /\ (pc[e] \in Serving \/ (mainPc = "spawn" /\ new_fd = clients[t[i]]))
    BY <1>0, <1>7 DEF VectorSound
  <2>2. e # c
    BY <1>0, <1>2, <1>7 DEF OneOwner, f
  <2> QED
    BY <1>2, <1>7, <1>10, <2>1, <2>2, <1>0
<1>15. VectorComplete'
  <2>1. ASSUME NEW e \in Conn, pc'[e] \in Serving
        PROVE  \E k \in 1 .. n : clients'[k] = client_socket[e]
    <3>1. e # c /\ pc[e] \in Serving
      BY <1>10, <2>1 DEF Serving
    <3> QED
      BY <1>0, <1>8, <1>9, <3>1 DEF VectorComplete, Owning
  <2>2. ASSUME mainPc = "spawn"
        PROVE  \E k \in 1 .. n : clients'[k] = new_fd
    <3>1. new_fd # f
      BY <1>0, <1>2, <1>3, <2>2 DEF Admitted, Admitting
    <3> QED
      BY <1>0, <1>8, <2>2, <3>1 DEF VectorComplete
  <2> QED
    BY <1>2, <1>7, <2>1, <2>2 DEF VectorComplete
<1>16. MutexHeld'
  BY <1>0, <1>2, <1>10 DEF MutexHeld
<1> QED
  BY <1>1, <1>11, <1>12, <1>13, <1>14, <1>15, <1>16 DEF IInv

\* Once it is out of the vector, its descriptor may be free for reuse.
LEMMA InvClose == ASSUME IInv, NEW c \in Conn, CloseClient(c) PROVE IInv'
<1>0. Ownership /\ Queued /\ Vector /\ MutexHeld /\ OwnerTypes /\ NoConn \notin Conn
  BY InvTypes, ConnAssumption DEF IInv, Ownership, Vector
<1> USE DEF Ownership, Vector, OwnerTypes
<1>1. TypeOK'
  BY TypeHandler DEF IInv, handle_c, HandlerExit
<1> DEFINE f == client_socket[c]
<1>2. /\ pc[c] = "close" /\ pc' = [pc EXCEPT ![c] = "done"]
      /\ client_socket' = [client_socket EXCEPT ![c] = -1]
      /\ fdTab' = [fdTab EXCEPT ![f] = NoConn]
      /\ UNCHANGED <<clients, client_m, mainPc, new_fd, backlog, peer>>
  BY DEF CloseClient
<1>3. f \in Fds /\ fdTab[f] = c
  BY <1>0, <1>2 DEF OwnSocket, Owning, Serving
<1>4. \A g \in Fds : fdTab[g] = c => g = f
  BY <1>0, <1>2 DEF OneOwner
<1>5. /\ pc'[c] = "done" /\ \A e \in Conn : e # c => pc'[e] = pc[e]
      /\ \A e \in Conn : e # c => client_socket'[e] = client_socket[e]
      /\ fdTab'[f] = NoConn /\ \A g \in Fds : g # f => fdTab'[g] = fdTab[g]
  BY <1>0, <1>2, <1>3
<1>6. pc'[c] \notin Owning /\ pc'[c] \notin Serving /\ pc[c] \notin Serving
  BY <1>2, <1>5 DEF Owning, Serving
<1>7. Admitting => new_fd # f
  BY <1>0, <1>2, <1>3 DEF Admitted
<1> HIDE DEF f
<1>8. OwnSocket'
  BY <1>0, <1>3, <1>5, <1>6 DEF OwnSocket
<1>9. OneOwner'
  BY <1>0, <1>2, <1>4, <1>5 DEF OneOwner, Admitting
<1>10. Admitted'
  BY <1>0, <1>2, <1>5, <1>7 DEF Admitted, Admitting
<1>11. Queued'
  <2>1. Unaccepted \subseteq Unaccepted'
    BY <1>0, <1>2, <1>5 DEF Unaccepted
  <2> QED
    BY <1>0, <1>2, <2>1 DEF Queued
<1>12. Vector'
  <2>1. \A i \in DOMAIN clients : clients[i] # f
    BY <1>0, <1>3, <1>6, <1>7 DEF VectorSound, Admitting
  <2>2. VectorSound'
    BY <1>0, <1>2, <1>4, <1>5, <2>1 DEF VectorSound
  <2>3. VectorComplete'
    BY <1>0, <1>2, <1>5, <1>6 DEF VectorComplete
  <2> QED
    BY <1>0, <1>2, <2>2, <2>3 DEF VectorDistinct
<1>13. MutexHeld'
  BY <1>0, <1>2, <1>5 DEF MutexHeld
<1> QED
  BY <1>1, <1>8, <1>9, <1>10, <1>11, <1>12, <1>13 DEF IInv

\* The handler's loop: one receive, then one broadcast under the mutex.
LEMMA InvLoop ==
  ASSUME IInv, NEW c \in Conn, Recv(c) \/ RecvEnd(c) \/ Broadcast(c)
  PROVE  IInv'
<1>0. Ownership /\ Queued /\ Vector /\ MutexHeld /\ OwnerTypes /\ NoConn \notin Conn
  BY InvTypes, ConnAssumption DEF IInv, Ownership, Vector
<1>1. TypeOK'
  BY TypeHandler DEF IInv, handle_c
<1>2. ASSUME NEW x \in Serving, pc[c] \in Serving, pc' = [pc EXCEPT ![c] = x], MutexHeld',
             UNCHANGED <<clients, mainPc, new_fd, client_socket, fdTab, backlog, peer>>
      PROVE  IInv'
  BY <1>0, <1>1, <1>2, ServingStep DEF IInv, Ownership, Vector
<1>3. ASSUME UNCHANGED <<clients, client_m, mainPc, new_fd, pc, client_socket, fdTab, backlog>>,
             \A e \in Conn : peer'[e] = "idle" <=> peer[e] = "idle"
      PROVE  IInv'
  <2>1. Queued'
    BY <1>0, <1>3, FrameQueued DEF OwnerTypes
  <2> QED
    BY <1>0, <1>1, <1>3, <2>1, Frame DEF IInv, Ownership, Vector
<1>4. CASE Recv(c)
  <2>1. MutexHeld'
    BY <1>0, <1>4 DEF Recv, MutexHeld, OwnerTypes
  <2> QED
    BY <1>2, <1>4, <2>1 DEF Recv, Serving
<1>5. CASE RecvEnd(c)
  <2>1. MutexHeld'
    BY <1>0, <1>5 DEF RecvEnd, MutexHeld, OwnerTypes
  <2> QED
    BY <1>2, <1>5, <2>1 DEF RecvEnd, Serving, kernel
<1>6. CASE LockClients(c)
  <2>1. MutexHeld'
    BY <1>0, <1>6 DEF LockClients, MutexHeld, OwnerTypes
  <2> QED
    BY <1>2, <1>6, <2>1 DEF LockClients, Serving, kernel
<1>7. CASE EndBroadcast(c)
  <2>1. MutexHeld'
    BY <1>0, <1>7 DEF EndBroadcast, MutexHeld, OwnerTypes
  <2> QED
    BY <1>2, <1>7, <2>1 DEF EndBroadcast, Serving, kernel
<1>8. CASE SkipSelf(c)
  BY <1>3, <1>8 DEF SkipSelf, kernel
<1>9. ASSUME NEW d \in Conn \cup {NoConn},
             \/ SendWritten(c, d) \/ SendDiscarded(c, d)
             \/ SendFailed(c, d) \/ SendKilled(c, d)
      PROVE  IInv'
  <2>1. UNCHANGED <<clients, client_m, mainPc, new_fd, pc, client_socket, fdTab, backlog>>
    BY <1>9 DEF SendWritten, SendDiscarded, SendFailed, SendKilled, kernel, threads
  <2>2. \A e \in Conn : peer'[e] = "idle" <=> peer[e] = "idle"
    BY <1>0, <1>9 DEF SendWritten, SendDiscarded, SendFailed, SendKilled, kernel, OwnerTypes
  <2> QED
    BY <1>3, <2>1, <2>2
<1> QED
  BY <1>4, <1>5, <1>6, <1>7, <1>8, <1>9 DEF Broadcast

\* Every step keeps the invariant.
LEMMA InvNext == IInv /\ [Next]_vars => IInv'
<1> SUFFICES ASSUME IInv, [Next]_vars PROVE IInv'
  OBVIOUS
<1>1. CASE main
  BY <1>1, InvMain
<1>2. ASSUME NEW c \in Conn, Client(c) PROVE IInv'
  BY <1>2, InvClient
<1>3. ASSUME NEW c \in Conn, handle_c(c) PROVE IInv'
  BY <1>3, InvLoop, InvRemove, InvClose DEF handle_c, HandlerExit
<1>4. CASE UNCHANGED vars
  <2>1. TypeOK'
    BY <1>4 DEF IInv, TypeOK, vars, threads, kernel
  <2>2. Queued'
    BY <1>4 DEF IInv, Queued, Unaccepted, vars, threads, kernel
  <2> QED
    BY <1>4, <2>1, <2>2, Frame DEF IInv, Ownership, Vector, vars, threads, kernel
<1> QED
  BY <1>1, <1>2, <1>3, <1>4 DEF Next

\* The inductive invariant: descriptors have one owner, the vector holds the
\* registered ones once each, and the mutex is held while a broadcast runs.
THEOREM Inductive == Spec => []IInv
BY InvInit, InvNext, PTL DEF Spec

\* The types of TCPS.cpp's variables are right at every step.
THEOREM TypeCorrect == Spec => []TypeOK
<1>1. IInv => TypeOK
  BY DEF IInv
<1> QED
  BY <1>1, Inductive, PTL

\* A handler that runs is registered exactly once (TCPS.cpp:47-59, 203-206),
\* for any number of clients and any reuse of descriptors.
THEOREM Registration == Spec => []RegisteredOnce
<1>1. IInv => RegisteredOnce
  BY DEF IInv, RegisteredOnce, OwnSocket, VectorDistinct, VectorComplete, Owning, Serving
<1> QED
  BY <1>1, Inductive, PTL

\* The vector never names a descriptor that is closed or reused (TCPS.cpp:73, 77).
THEOREM Freshness == Spec => []NoStaleDescriptor
<1>1. IInv => NoStaleDescriptor
  BY DEF IInv, NoStaleDescriptor, VectorSound, Admitted, Admitting, Serving
<1> QED
  BY <1>1, Inductive, PTL
=============================================================================
