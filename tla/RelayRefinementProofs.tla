------------------------- MODULE RelayRefinementProofs -------------------------
(***************************************************************************)
(* The relay server implements TotalOrderBroadcast under the refinement    *)
(* mapping of RelayServer (Status, Position), for any number of            *)
(* connections, descriptors and bytes: each step of the server's threads   *)
(* and of the clients is one step of the abstract broadcast or none.       *)
(* Which step depends on who is registered (IInv of RelayServerInv), and   *)
(* on which chunk is being broadcast (StreamInv).                          *)
(***************************************************************************)
EXTENDS RelayOrderProofs

\* The state that the abstract variables are computed from keeps its value.
LEMMA SameView ==
  ASSUME UNCHANGED <<log, out>>,
         \A d \in Conn : Status(d)' = Status(d) /\ Position(d)' = Position(d)
  PROVE  UNCHANGED Abstract!vars
BY DEF Abstract!vars

\* Nothing happens in the abstract broadcast while none of these change.
LEMMA Unseen ==
  ASSUME UNCHANGED <<alive, clients, client_m, next, fdTab, log, out>>,
         \A d \in Conn : peer'[d] = peer[d] \/ {peer[d], peer'[d]} \subseteq {"idle", "open"}
                                           \/ {peer[d], peer'[d]} \subseteq {"closed", "reset"}
  PROVE  UNCHANGED Abstract!vars
<1>1. \A d \in Conn : peer'[d] \in {"closed", "reset"} <=> peer[d] \in {"closed", "reset"}
  OBVIOUS
<1>2. \A d \in Conn : Registered(d)' = Registered(d) /\ Waiting(d)' = Waiting(d)
  BY DEF Registered, Waiting
<1>3. \A d \in Conn : Status(d)' = Status(d)
  BY <1>1, <1>2 DEF Status
<1>4. \A d \in Conn : Position(d)' = Position(d)
  BY <1>2, <1>3 DEF Position
<1> QED
  BY <1>3, <1>4, SameView

\* While nobody holds the mutex nobody waits for a chunk.
LEMMA NobodyWaits ==
  ASSUME NEW d \in Conn, client_m = NoConn
  PROVE  ~Waiting(d) /\ Position(d) = IF Status(d) = "in" THEN Len(log) ELSE 0
BY DEF Waiting, Position

\* The start of the server is the start of the abstract broadcast.
LEMMA RefineInit == Init => Abstract!Init
<1> SUFFICES ASSUME Init PROVE Abstract!Init
  OBVIOUS
<1>1. \A d \in Conn : Status(d) = "out" /\ Position(d) = 0
  BY DEF Init, Status, Position, Registered
<1> QED
  BY <1>1 DEF Init, Abstract!Init

\* A client that goes away leaves; whatever else a client does is not seen.
LEMMA RefineClient ==
  ASSUME TypeOK, NEW c \in Conn, Client(c)
  PROVE  [AbstractNext]_(Abstract!vars)
<1>1. CASE Connect(c) \/ ClientSend(c) \/ ClientRead(c)
  <2>1. UNCHANGED <<alive, clients, client_m, next, fdTab, log, out>>
    BY <1>1 DEF Connect, ClientSend, ClientRead, threads
  <2>2. \A d \in Conn : peer'[d] = peer[d] \/ (peer[d] = "idle" /\ peer'[d] = "open")
    BY <1>1 DEF Connect, ClientSend, ClientRead, TypeOK
  <2> QED
    BY <2>1, <2>2, Unseen
<1>2. CASE ClientClose(c) \/ ClientReset(c)
  <2>1. UNCHANGED <<alive, clients, client_m, next, fdTab, log, out>>
    BY <1>2 DEF ClientClose, ClientReset, threads
  <2>2. peer'[c] \in {"closed", "reset"} /\ \A d \in Conn : d # c => peer'[d] = peer[d]
    BY <1>2 DEF ClientClose, ClientReset, TypeOK
  <2>3. \A d \in Conn : Registered(d)' = Registered(d) /\ Waiting(d)' = Waiting(d)
    BY <2>1 DEF Registered, Waiting
  <2>4. Status(c)' = "left" /\ Position(c)' = 0
    BY <2>2 DEF Status, Position
  <2>5. \A d \in Conn : d # c => Status(d)' = Status(d)
    BY <2>1, <2>2, <2>3 DEF Status
  <2>6. \A d \in Conn : d # c => Position(d)' = Position(d)
    BY <2>1, <2>3, <2>5 DEF Position
  <2>7. Abstract!Leave({c})
    BY <2>1, <2>4, <2>5, <2>6 DEF Abstract!Leave
  <2> QED
    BY <2>7 DEF AbstractNext
<1> QED
  BY <1>1, <1>2 DEF Client

\* The main thread: a connection joins when its descriptor is pushed, unless its
\* client has gone already.
LEMMA RefineMain == ASSUME IInv, main PROVE [AbstractNext]_(Abstract!vars)
<1>0. OwnerTypes /\ VectorSound /\ Admitted /\ NoConn \notin Conn
  BY InvTypes, ConnAssumption DEF IInv
<1> USE DEF OwnerTypes
<1>1. CASE Accept
  <2>1. PICK f \in Fds : fdTab[f] = NoConn /\ fdTab' = [fdTab EXCEPT ![f] = Head(backlog)]
    BY <1>1 DEF Accept, LowestFree
  <2>2. UNCHANGED <<alive, clients, client_m, next, peer, log, out>>
    BY <1>1 DEF Accept
  <2>3. \A i \in DOMAIN clients : fdTab'[clients[i]] = fdTab[clients[i]]
    BY <1>0, <2>1 DEF VectorSound
  <2>4. \A d \in Conn : Registered(d)' = Registered(d) /\ Waiting(d)' = Waiting(d)
    BY <2>2, <2>3 DEF Registered, Waiting
  <2>5. \A d \in Conn : Status(d)' = Status(d)
    BY <2>2, <2>4 DEF Status
  <2>6. \A d \in Conn : Position(d)' = Position(d)
    BY <2>2, <2>4, <2>5 DEF Position
  <2> QED
    BY <2>2, <2>5, <2>6, SameView
<1>2. CASE AddClient
  <2>1. /\ mainPc = "push" /\ client_m = NoConn /\ clients' = Append(clients, new_fd)
        /\ UNCHANGED <<alive, client_m, fdTab, peer, log, out>>
    BY <1>2 DEF AddClient, kernel
  <2>2. new_fd \in Fds /\ fdTab[new_fd] \in Conn /\ pc[fdTab[new_fd]] = "none"
    BY <1>0, <2>1 DEF Admitted, Admitting
  <2>5. PICK m \in Conn : m = fdTab[new_fd]
    BY <2>2
  <2>3. /\ DOMAIN clients' = 1 .. Len(clients) + 1
        /\ \A i \in 1 .. Len(clients) : clients'[i] = clients[i]
        /\ clients'[Len(clients) + 1] = new_fd
    BY <1>0, <2>1, <2>2, AppendProperties, LenProperties
  <2>4. ~Registered(m)
    BY <1>0, <2>1, <2>2, <2>5 DEF Registered, VectorSound, Serving
  <2>6. Registered(m)'
    <3>1. Len(clients) + 1 \in DOMAIN clients' /\ fdTab'[clients'[Len(clients) + 1]] = m
      BY <1>0, <2>1, <2>3, <2>5
    <3> QED
      BY <3>1 DEF Registered
  <2>7. \A d \in Conn : d # m => Registered(d)' = Registered(d)
    <3> SUFFICES ASSUME NEW d \in Conn, d # m PROVE Registered(d)' = Registered(d)
      OBVIOUS
    <3>1. Registered(d) => Registered(d)'
      BY <1>0, <2>1, <2>3 DEF Registered
    <3>2. Registered(d)' => Registered(d)
      BY <1>0, <2>1, <2>3, <2>5 DEF Registered
    <3> QED
      BY <3>1, <3>2 DEF Registered
  <2>8. \A d \in Conn : d # m => Status(d)' = Status(d)
    BY <2>1, <2>7 DEF Status
  <2>9. \A d \in Conn : /\ Position(d) = IF Status(d) = "in" THEN Len(log) ELSE 0
                        /\ Position(d)' = IF Status(d)' = "in" THEN Len(log) ELSE 0
    BY <2>1 DEF Waiting, Position
  <2>10. CASE Status(m) = "left"
    <3>1. Status(m)' = "left"
      BY <2>10, <2>1 DEF Status
    <3> QED
      BY <2>1, <2>2, <2>8, <2>9, <2>10, <3>1, SameView
  <2>11. CASE Status(m) # "left"
    <3>1. Status(m) = "out" /\ Status(m)' = "in"
      BY <2>1, <2>4, <2>6, <2>11 DEF Status
    <3>2. Abstract!Join(m)
      BY <2>1, <2>2, <2>8, <2>9, <3>1 DEF Abstract!Join
    <3> QED
      BY <2>2, <3>2 DEF AbstractNext
  <2> QED
    BY <2>10, <2>11
<1>3. CASE SpawnHandler
  BY <1>3, Unseen DEF SpawnHandler, kernel
<1> QED
  BY <1>1, <1>2, <1>3 DEF main

\* The handler's exit: its client has left already.
LEMMA RefineExit ==
  ASSUME IInv, Leaving, NEW c \in Conn, HandlerExit(c)
  PROVE  [AbstractNext]_(Abstract!vars)
<1>0. OwnerTypes /\ OwnSocket /\ OneOwner /\ NoConn \notin Conn
  BY InvTypes, ConnAssumption DEF IInv
<1> USE DEF OwnerTypes
<1> DEFINE f == client_socket[c]
<1>1. /\ pc[c] \in {"remove", "close"} /\ UNCHANGED <<alive, client_m, next, peer, log, out>>
  BY DEF HandlerExit, RemoveClient, CloseClient, kernel
<1>2. peer[c] \in {"closed", "reset"}
  BY <1>1 DEF Leaving
<1>3. f \in Fds /\ fdTab[f] = c
  BY <1>0, <1>1 DEF OwnSocket, Owning, Serving
<1>4. \A d \in Conn \ {c} : /\ Registered(d)' = Registered(d)
                            /\ Waiting(d)' = Waiting(d)
  <2>1. CASE RemoveClient(c)
    <3>1. PICK t \in Kept(clients, f) : clients' = [i \in DOMAIN t |-> clients[t[i]]]
      BY <2>1 DEF RemoveClient
    <3>2. PICK n \in 0 .. Len(clients) : t \in [1 .. n -> DOMAIN clients]
      BY <3>1 DEF Kept
    <3> HIDE DEF f
    <3>3. {t[i] : i \in 1 .. n} = {i \in DOMAIN clients : clients[i] # f}
      BY <3>1, <3>2 DEF Kept
    <3>4. /\ DOMAIN clients' = 1 .. n
          /\ \A i \in 1 .. n : t[i] \in DOMAIN clients /\ clients'[i] = clients[t[i]]
      BY <3>1, <3>2
    <3>5. \A i \in DOMAIN clients : clients[i] # f => \E k \in 1 .. n : clients'[k] = clients[i]
      BY <3>3, <3>4
    <3>6. client_m = NoConn /\ UNCHANGED fdTab
      BY <2>1 DEF RemoveClient, kernel
    <3>7. ASSUME NEW d \in Conn \ {c} PROVE Registered(d) <=> Registered(d)'
      <4>1. ASSUME NEW i \in DOMAIN clients, fdTab[clients[i]] = d PROVE Registered(d)'
        <5>1. PICK k \in 1 .. n : clients'[k] = clients[i]
          BY <1>3, <3>5, <4>1
        <5>2. k \in DOMAIN clients' /\ fdTab'[clients'[k]] = d
          BY <3>4, <3>6, <4>1, <5>1
        <5> QED
          BY <5>2 DEF Registered
      <4>2. ASSUME NEW i \in 1 .. n, fdTab[clients'[i]] = d PROVE Registered(d)
        BY <3>4, <4>2 DEF Registered
      <4> QED
        BY <3>4, <3>6, <4>1, <4>2 DEF Registered
    <3>8. \A d \in Conn : ~Waiting(d) /\ ~Waiting(d)'
      BY <1>1, <3>6 DEF Waiting
    <3> QED
      BY <3>7, <3>8 DEF Registered, Waiting
  <2>2. CASE CloseClient(c)
    <3>1. UNCHANGED clients /\ fdTab' = [fdTab EXCEPT ![f] = NoConn]
      BY <2>2 DEF CloseClient
    <3> HIDE DEF f
    <3>2. \A i \in DOMAIN clients : \A d \in Conn \ {c} : fdTab'[clients[i]] = d <=> fdTab[clients[i]] = d
      BY <1>0, <1>3, <3>1
    <3> QED
      BY <1>1, <3>1, <3>2 DEF Registered, Waiting
  <2> QED
    BY <2>1, <2>2 DEF HandlerExit
<1>5. \A d \in Conn : Status(d)' = Status(d) /\ (d = c => Status(d) = "left")
  BY <1>1, <1>2, <1>4 DEF Status
<1>6. \A d \in Conn : Position(d)' = Position(d)
  BY <1>1, <1>4, <1>5 DEF Position
<1> QED
  BY <1>1, <1>5, <1>6, SameView

\* The range-for goes on past the descriptor of connection d: d has the last
\* chunk of the log behind it, and for the other clients nothing changes.
LEMMA Passed ==
  ASSUME IInv, NEW c \in Conn, NEW d \in Conn, pc[c] = "send",
         next[c] \in 1 .. Len(clients), fdTab[clients[next[c]]] = d, Advance(c),
         UNCHANGED <<clients, client_m, fdTab>>
  PROVE  /\ Registered(d) /\ Waiting(d) /\ ~Waiting(d)'
         /\ \A e \in Conn : Registered(e)' = Registered(e)
         /\ \A e \in Conn : e # d => Waiting(e)' = Waiting(e)
<1>0. OwnerTypes /\ OneOwner /\ VectorSound /\ VectorDistinct /\ NoConn \notin Conn
  BY InvTypes, ConnAssumption DEF IInv
<1> USE DEF OwnerTypes
<1>1. client_m = c /\ next \in [Conn -> Nat]
  BY DEF IInv, MutexHeld, TypeOK
<1>2. PICK p \in DOMAIN clients : p = next[c] /\ p \in Nat
  BY <1>0, <1>1
<1>3. next'[c] = p + 1
  BY <1>1, <1>2 DEF Advance
<1>4. \A i \in DOMAIN clients : fdTab[clients[i]] = d => i = p
  <2> SUFFICES ASSUME NEW i \in DOMAIN clients, fdTab[clients[i]] = d PROVE i = p
    OBVIOUS
  <2>1. \A f, g \in Fds : fdTab[f] = d /\ fdTab[g] = d => f = g
    BY <1>0 DEF OneOwner, Owning, Serving
  <2>2. clients[i] \in Fds /\ clients[p] \in Fds
    BY <1>0, <1>2
  <2>3. clients[i] = clients[p]
    BY <1>2, <2>1, <2>2
  <2> QED
    BY <1>0, <1>2, <2>3 DEF VectorDistinct
<1>5. Registered(d) /\ \A e \in Conn : Registered(e)' = Registered(e)
  BY <1>2 DEF Registered
<1>6. Waiting(d)
  BY <1>0, <1>1, <1>2 DEF Waiting
<1>7. ~Waiting(d)'
  BY <1>0, <1>1, <1>2, <1>3, <1>4 DEF Waiting
<1>8. ASSUME NEW e \in Conn, e # d PROVE Waiting(e)' = Waiting(e)
  <2>1. \A i \in DOMAIN clients : fdTab[clients[i]] = e => (i >= p <=> i >= p + 1)
    <3> SUFFICES ASSUME NEW i \in DOMAIN clients, fdTab[clients[i]] = e
                 PROVE  i >= p <=> i >= p + 1
      OBVIOUS
    <3>1. i # p /\ i \in Nat
      BY <1>0, <1>2, <1>8
    <3> QED
      BY <1>2, <3>1
  <2>2. Waiting(e) <=> \E i \in DOMAIN clients : fdTab[clients[i]] = e /\ i >= p
    BY <1>0, <1>1, <1>2 DEF Waiting
  <2>3. Waiting(e)' <=> \E i \in DOMAIN clients : fdTab[clients[i]] = e /\ i >= p + 1
    BY <1>0, <1>1, <1>3 DEF Waiting
  <2> QED
    BY <2>1, <2>2, <2>3 DEF Waiting
<1> QED
  BY <1>5, <1>6, <1>7, <1>8

\* The status of a connection while the range-for goes on.
LEMMA StatusKept ==
  ASSUME UNCHANGED alive, \A e \in Conn : Registered(e)' = Registered(e),
         \A e \in Conn : peer'[e] \in {"closed", "reset"} <=> peer[e] \in {"closed", "reset"}
  PROVE  \A e \in Conn : Status(e)' = Status(e)
BY DEF Status

\* A member that is passed has gone through one more chunk, the others have not.
LEMMA PassedPosition ==
  ASSUME NEW d \in Conn, UNCHANGED log, \A e \in Conn : Status(e)' = Status(e),
         Waiting(d), ~Waiting(d)', \A e \in Conn : e # d => Waiting(e)' = Waiting(e)
  PROVE  /\ \A e \in Conn : e # d => Position(e)' = Position(e)
         /\ Status(d) # "in" => Position(d)' = Position(d)
         /\ Status(d) = "in" => Position(d) = Len(log) - 1 /\ Position(d)' = Len(log)
BY DEF Position

\* A member that is passed is delivered the last chunk.
LEMMA Delivers ==
  ASSUME NEW d \in Conn, Status(d) = "in", Position(d) + 1 = Len(log), Position(d) < Len(log),
         UNCHANGED log, \A e \in Conn : Status(e)' = Status(e),
         \A e \in Conn : e # d => Position(e)' = Position(e), Position(d)' = Position(d) + 1,
         out' = IF log[Len(log)].from = d THEN out
                ELSE [out EXCEPT ![d] = out[d] \o log[Len(log)].data]
  PROVE  Abstract!Deliver(d)
<1> DEFINE pos == [e \in Conn |-> Position(e)]
           status == [e \in Conn |-> Status(e)]
<1>1. status' = status /\ status[d] = "in"
  OBVIOUS
<1>2. pos' = [pos EXCEPT ![d] = pos[d] + 1]
  OBVIOUS
<1>3. pos[d] < Len(log) /\ log[pos[d] + 1] = log[Len(log)]
  OBVIOUS
<1> HIDE DEF pos, status
<1>4. /\ status[d] = "in" /\ pos[d] < Len(log)
      /\ LET entry == log[pos[d] + 1]
         IN  out' = IF entry.from = d THEN out ELSE [out EXCEPT ![d] = @ \o entry.data]
      /\ pos' = [pos EXCEPT ![d] = @ + 1]
      /\ UNCHANGED <<log, status>>
  BY <1>1, <1>2, <1>3
<1> QED
  BY <1>4 DEF Abstract!Deliver, pos, status

\* A broadcast: the chunk is published under the mutex, and then delivered to
\* each member that is in the vector and still there, the sender skipped.
LEMMA RefineBroadcast ==
  ASSUME OrderInv, NEW c \in Conn, Broadcast(c)
  PROVE  [AbstractNext]_(Abstract!vars)
<1>0. OwnerTypes /\ OwnSocket /\ VectorSound /\ MutexHeld /\ NoConn \notin Conn /\ StreamTypes
  BY InvTypes, TypesOfStreams, ConnAssumption DEF OrderInv, IInv
<1>1. IInv /\ LastChunk
  BY DEF OrderInv, StreamInv
<1>2. CASE LockClients(c)
  <2>1. /\ client_m = NoConn /\ client_m' = c /\ next'[c] = 1
        /\ log' = Append(log, [from |-> c, data |-> buffer[c]])
        /\ UNCHANGED <<alive, clients, fdTab, peer, out>>
    BY <1>1, <1>2 DEF LockClients, kernel, IInv, TypeOK
  <2>2. Len(log') = Len(log) + 1 /\ Len(log) \in Nat
    <3>1. [from |-> c, data |-> buffer[c]] \in Chunk /\ log \in Seq(Chunk)
      BY <1>0 DEF Chunk, StreamTypes
    <3> QED
      BY <2>1, <3>1, AppendProperties, LenProperties
  <2>3. \A d \in Conn : Registered(d)' = Registered(d) /\ Status(d)' = Status(d)
    BY <2>1 DEF Registered, Status
  <2>4. \A d \in Conn : Waiting(d)' <=> Registered(d)
    BY <1>0, <2>1 DEF Waiting, Registered, OwnerTypes
  <2>5. \A d \in Conn : Status(d) = "in" => Registered(d)
    BY DEF Status
  <2>6. \A d \in Conn : Position(d)' = Position(d)
    <3>1. \A d \in Conn : Position(d)' = IF Status(d) = "in" THEN Len(log) ELSE 0
      BY <2>2, <2>3, <2>4, <2>5 DEF Position
    <3> QED
      BY <2>1, <3>1, NobodyWaits
  <2>7. Abstract!Publish(c, buffer[c])
    BY <2>1, <2>3, <2>6 DEF Abstract!Publish
  <2> QED
    BY <2>7 DEF AbstractNext
<1>3. CASE EndBroadcast(c)
  <2>1. /\ next[c] > Len(clients) /\ client_m = c /\ client_m' = NoConn
        /\ UNCHANGED <<alive, clients, fdTab, peer, out, log>>
    BY <1>0, <1>3 DEF EndBroadcast, kernel, MutexHeld
  <2>2. next[c] \in Nat
    BY <1>1 DEF IInv, TypeOK
  <2>3. \A d \in Conn : ~Waiting(d) /\ ~Waiting(d)'
    BY <1>0, <2>1, <2>2 DEF Waiting, OwnerTypes
  <2>4. \A d \in Conn : Status(d)' = Status(d)
    BY <2>1 DEF Registered, Status
  <2>5. \A d \in Conn : Position(d)' = Position(d)
    BY <2>1, <2>3, <2>4 DEF Position
  <2> QED
    BY <2>1, <2>4, <2>5, SameView
<1>4. CASE SkipSelf(c)
  <2>1. /\ pc[c] = "send" /\ next[c] \in 1 .. Len(clients) /\ clients[next[c]] = client_socket[c]
        /\ Advance(c) /\ UNCHANGED <<alive, clients, client_m, fdTab, peer, out, log>>
    BY <1>4 DEF SkipSelf, kernel
  <2>2. fdTab[clients[next[c]]] = c
    BY <1>0, <2>1 DEF OwnSocket, Owning, Serving
  <2>3. \A e \in Conn : Status(e)' = Status(e)
    BY <1>1, <2>1, <2>2, Passed, StatusKept
  <2>4. /\ \A e \in Conn : e # c => Position(e)' = Position(e)
        /\ Status(c) # "in" => Position(c)' = Position(c)
        /\ Status(c) = "in" => Position(c) = Len(log) - 1 /\ Position(c)' = Len(log)
    BY <1>1, <2>1, <2>2, <2>3, Passed, PassedPosition
  <2>5. Len(log) \in Nat /\ Len(log) > 0 /\ log[Len(log)] = [from |-> c, data |-> buffer[c]]
    BY <1>0, <1>1, <2>1, EmptySeq DEF LastChunk, StreamTypes
  <2>6. CASE Status(c) # "in"
    BY <2>1, <2>3, <2>4, <2>6, SameView
  <2>7. CASE Status(c) = "in"
    <3>1. Position(c) < Len(log) /\ Position(c) + 1 = Len(log)
      BY <2>4, <2>5, <2>7
    <3>2. Position(c)' = Position(c) + 1 /\ log[Len(log)].from = c
      BY <2>4, <2>5, <2>7, <3>1
    <3>3. Abstract!Deliver(c)
      BY <2>1, <2>3, <2>4, <2>7, <3>1, <3>2, Delivers
    <3> QED
      BY <3>3 DEF AbstractNext
  <2> QED
    BY <2>6, <2>7
<1>5. ASSUME NEW d \in Conn \cup {NoConn}, SendWritten(c, d)
      PROVE  [AbstractNext]_(Abstract!vars)
  <2>1. /\ pc[c] = "send" /\ next[c] \in 1 .. Len(clients) /\ clients[next[c]] # client_socket[c]
        /\ fdTab[clients[next[c]]] = d /\ d \in Conn /\ peer[d] = "open" /\ alive
        /\ out' = [out EXCEPT ![d] = out[d] \o buffer[c]]
        /\ Advance(c) /\ UNCHANGED <<alive, clients, client_m, fdTab, peer, log>>
    BY <1>5 DEF SendWritten, AtTarget
  <2>2. \A e \in Conn : Status(e)' = Status(e)
    BY <1>1, <2>1, Passed, StatusKept
  <2>3. Status(d) = "in"
    BY <1>1, <2>1, Passed DEF Status
  <2>4. /\ \A e \in Conn : e # d => Position(e)' = Position(e)
        /\ Position(d) = Len(log) - 1 /\ Position(d)' = Len(log)
    BY <1>1, <2>1, <2>2, <2>3, Passed, PassedPosition
  <2>5. Len(log) \in Nat /\ Len(log) > 0 /\ log[Len(log)] = [from |-> c, data |-> buffer[c]]
    BY <1>0, <1>1, <2>1, EmptySeq DEF LastChunk, StreamTypes
  <2>6. Position(d) < Len(log) /\ Position(d) + 1 = Len(log)
    BY <2>4, <2>5
  <2>7. c # d
    <3>1. next[c] \in DOMAIN clients
      BY <1>0, <2>1 DEF OwnerTypes
    <3>2. clients[next[c]] \in Fds
      BY <1>0, <3>1 DEF OwnerTypes
    <3>3. \A f \in Fds : fdTab[f] = c => client_socket[c] = f
      BY <1>0, <1>1, <2>1 DEF OneOwner, IInv
    <3> QED
      BY <2>1, <3>2, <3>3
  <2>8. /\ Position(d)' = Position(d) + 1
        /\ out' = IF log[Len(log)].from = d THEN out
                  ELSE [out EXCEPT ![d] = out[d] \o log[Len(log)].data]
    BY <2>1, <2>4, <2>5, <2>6, <2>7
  <2>9. Abstract!Deliver(d)
    BY <2>1, <2>2, <2>3, <2>4, <2>6, <2>8, Delivers
  <2> QED
    BY <2>1, <2>9 DEF AbstractNext
<1>6. ASSUME NEW d \in Conn \cup {NoConn}, SendDiscarded(c, d) \/ SendFailed(c, d)
      PROVE  [AbstractNext]_(Abstract!vars)
  <2>1. /\ pc[c] = "send" /\ next[c] \in 1 .. Len(clients) /\ fdTab[clients[next[c]]] = d
        /\ Advance(c) /\ UNCHANGED <<alive, clients, client_m, fdTab, out, log>>
    BY <1>6 DEF SendDiscarded, SendFailed, AtTarget, kernel
  <2>2. d \in Conn
    BY <1>0, <2>1 DEF VectorSound, OwnerTypes
  <2>3. /\ peer[d] \in {"closed", "reset"} /\ peer'[d] \in {"closed", "reset"}
        /\ \A e \in Conn : e # d => peer'[e] = peer[e]
    BY <1>0, <1>6, <2>2 DEF SendDiscarded, SendFailed, AtTarget, kernel, OwnerTypes
  <2>4. \A e \in Conn : Status(e)' = Status(e)
    BY <1>1, <2>1, <2>2, <2>3, Passed, StatusKept
  <2>5. Status(d) # "in"
    BY <2>3 DEF Status
  <2>6. \A e \in Conn : Position(e)' = Position(e)
    BY <1>1, <2>1, <2>2, <2>4, <2>5, Passed, PassedPosition
  <2> QED
    BY <2>1, <2>4, <2>6, SameView
<1>7. ASSUME NEW d \in Conn \cup {NoConn}, SendKilled(c, d)
      PROVE  [AbstractNext]_(Abstract!vars)
  <2>1. alive' = FALSE /\ UNCHANGED <<log, out>>
    BY <1>7 DEF SendKilled, kernel
  <2>2. \A e \in Conn : Status(e)' = "left" /\ Position(e)' = 0
    BY <2>1 DEF Status, Position
  <2>3. Abstract!Leave(Conn)
    BY <2>1, <2>2 DEF Abstract!Leave
  <2> QED
    BY <2>3 DEF AbstractNext
<1> QED
  BY <1>2, <1>3, <1>4, <1>5, <1>6, <1>7 DEF Broadcast

\* Every step of the server is a step of the abstract broadcast, or none.
LEMMA RefineNext == OrderInv /\ [Next]_vars => [AbstractNext]_(Abstract!vars)
<1> SUFFICES ASSUME OrderInv, [Next]_vars PROVE [AbstractNext]_(Abstract!vars)
  OBVIOUS
<1>1. IInv /\ TypeOK /\ Leaving
  BY DEF OrderInv, IInv, StreamInv
<1>2. CASE UNCHANGED vars
  BY <1>2, Unseen DEF vars, threads, kernel
<1>3. ASSUME NEW c \in Conn, Recv(c) \/ RecvEnd(c) PROVE [AbstractNext]_(Abstract!vars)
  BY <1>3, Unseen DEF Recv, RecvEnd, kernel
<1> QED
  BY <1>1, <1>2, <1>3, RefineClient, RefineMain, RefineExit, RefineBroadcast DEF Next, handle_c

\* The server implements the abstract broadcast: a client receives what is
\* broadcast between its push_back (TCPS.cpp:205) and its going away, in one
\* order for all, nothing twice, and nothing left out but its own chunks
\* (TCPS.cpp:52), however joins, ends and broadcasts fall together.
THEOREM Refinement == Spec => ImplementsBroadcast
<1>1. Init => Abstract!Init
  BY RefineInit
<1> QED
  BY <1>1, OrderInductive, RefineNext, PTL DEF Spec, ImplementsBroadcast

\* So it does as TotalOrderBroadcast writes its steps: what is published is a
\* sequence of bytes.
THEOREM BroadcastSpec == Spec => Abstract!Spec
<1>1. OrderInv /\ [AbstractNext]_(Abstract!vars) => [Abstract!Next]_(Abstract!vars)
  <2> SUFFICES ASSUME OrderInv, AbstractNext PROVE Abstract!Next
    OBVIOUS
  <2>1. \A m \in Conn : buffer[m] \in Seq(Byte)
    BY DEF OrderInv, IInv, TypeOK
  <2> QED
    BY <2>1 DEF AbstractNext, Abstract!Next
<1> QED
  BY <1>1, Refinement, OrderInductive, PTL DEF ImplementsBroadcast, Abstract!Spec
=============================================================================
