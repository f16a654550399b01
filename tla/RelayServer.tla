------------------------------ MODULE RelayServer ------------------------------
(***************************************************************************)
(* The TCP relay server, TCPS/Server/TCPS.cpp (TCPattempt/TCP_server and   *)
(* TCPMeasure/Audio/TCPLBSr.cpp run the same loops): a main thread accepts *)
(* connections and pushes their descriptors on the vector `clients`; one   *)
(* detached thread per connection reads a chunk from its own socket and    *)
(* writes it to every other descriptor of the vector while it holds the    *)
(* mutex `client_m`.                                                       *)
(*                                                                         *)
(* A byte is a pair <<connection, number>>.  The kernel is the part of the *)
(* model that TCPS.cpp reaches through system calls: the descriptor table, *)
(* the accept queue, and one byte stream per direction and connection.     *)
(***************************************************************************)
EXTENDS Integers, Sequences, FiniteSets

CONSTANTS
  Conn,          \* the connections clients may open, each at most once
  NoConn,        \* no connection: a free descriptor, or a mutex nobody holds
  Fds,           \* the descriptors accept() may return
  BUFFSIZE,      \* the most bytes one recv() returns
  BACKLOG,       \* the length of the accept queue
  SndBuf,        \* the bytes the kernel holds for a client that does not read
  MaxSend,       \* bound: the bytes one client sends
  IgnoreSigpipe, \* FALSE for TCPS.cpp, TRUE for TCPLBSr.cpp
  Readers        \* the connections whose client reads what it is sent

ASSUME ConnAssumption == NoConn \notin Conn
ASSUME FdsAssumption == Fds \subseteq Nat
ASSUME SizeAssumption ==
  /\ BUFFSIZE \in Nat \ {0} /\ BACKLOG \in Nat \ {0}
  /\ SndBuf \in Nat /\ MaxSend \in Nat /\ BUFFSIZE <= SndBuf
ASSUME OptionAssumption == IgnoreSigpipe \in BOOLEAN /\ Readers \subseteq Conn

VARIABLES
  alive,         \* the server process has not been killed
  clients,       \* std::vector<int> clients
  client_m,      \* the handler that holds the mutex, or NoConn
  mainPc,        \* where main()'s accept loop is
  new_fd,        \* main()'s new_fd
  pc,            \* where the handler thread of a connection is
  client_socket, \* handle_c's argument
  buffer,        \* handle_c's buffer[0 .. byte_num - 1]
  next,          \* the position of handle_c's range-for in `clients`
  fdTab,         \* kernel: the connection behind a descriptor, or NoConn
  backlog,       \* kernel: connections waiting for accept()
  peer,          \* kernel: what the client's end of a connection did
  sent,          \* how many bytes the client has sent
  up,            \* kernel: bytes the client sent and recv() did not return yet
  out,           \* every byte the server wrote to the connection
  taken,         \* how many bytes of out the client has read
  log            \* history: the chunks in the order their broadcasts began

kernel == <<fdTab, backlog, peer, sent, up, out, taken>>
threads == <<mainPc, new_fd, pc, client_socket, buffer, next>>
vars == <<alive, clients, client_m, threads, kernel, log>>

Byte == Conn \X Nat
Chunk == [from : Conn, data : Seq(Byte)]
MainPc == {"accept", "push", "spawn"}
HandlerPc == {"none", "recv", "lock", "send", "remove", "close", "done"}
PeerState == {"idle", "open", "closed", "reset"}

(***************************************************************************)
(* The type invariant: the variables of TCPS.cpp and of the kernel behind  *)
(* its system calls keep their types.                                      *)
(***************************************************************************)
TypeOK ==
  /\ alive \in BOOLEAN
  /\ clients \in Seq(Fds)
  /\ client_m \in Conn \cup {NoConn}
  /\ mainPc \in MainPc
  /\ new_fd \in Fds \cup {-1}
  /\ pc \in [Conn -> HandlerPc]
  /\ client_socket \in [Conn -> Fds \cup {-1}]
  /\ buffer \in [Conn -> Seq(Byte)]
  /\ next \in [Conn -> Nat]
  /\ fdTab \in [Fds -> Conn \cup {NoConn}]
  /\ backlog \in Seq(Conn)
  /\ peer \in [Conn -> PeerState]
  /\ sent \in [Conn -> 0 .. MaxSend]
  /\ up \in [Conn -> Seq(Byte)]
  /\ out \in [Conn -> Seq(Byte)]
  /\ taken \in [Conn -> Nat]
  /\ log \in Seq(Chunk)

Init ==
  /\ alive = TRUE
  /\ clients = <<>>
  /\ client_m = NoConn
  /\ mainPc = "accept"
  /\ new_fd = -1
  /\ pc = [c \in Conn |-> "none"]
  /\ client_socket = [c \in Conn |-> -1]
  /\ buffer = [c \in Conn |-> <<>>]
  /\ next = [c \in Conn |-> 0]
  /\ fdTab = [f \in Fds |-> NoConn]
  /\ backlog = <<>>
  /\ peer = [c \in Conn |-> "idle"]
  /\ sent = [c \in Conn |-> 0]
  /\ up = [c \in Conn |-> <<>>]
  /\ out = [c \in Conn |-> <<>>]
  /\ taken = [c \in Conn |-> 0]
  /\ log = <<>>

-----------------------------------------------------------------------------
(***************************************************************************)
(* The clients, as the server's sockets show them.                         *)
(***************************************************************************)

\* The handshake completes in the kernel, before accept() returns.
Connect(c) ==
  /\ alive /\ peer[c] = "idle" /\ Len(backlog) < BACKLOG
  /\ peer' = [peer EXCEPT ![c] = "open"]
  /\ backlog' = Append(backlog, c)
  /\ UNCHANGED <<alive, clients, client_m, threads, fdTab, sent, up, out, taken, log>>

ClientSend(c) ==
  /\ peer[c] = "open" /\ sent[c] < MaxSend
  /\ sent' = [sent EXCEPT ![c] = @ + 1]
  /\ up' = [up EXCEPT ![c] = Append(@, <<c, sent[c] + 1>>)]
  /\ UNCHANGED <<alive, clients, client_m, threads, fdTab, backlog, peer, out, taken, log>>

ClientRead(c) ==
  /\ c \in Readers /\ peer[c] = "open" /\ taken[c] < Len(out[c])
  /\ taken' = [taken EXCEPT ![c] = @ + 1]
  /\ UNCHANGED <<alive, clients, client_m, threads, fdTab, backlog, peer, sent, up, out, log>>

\* The client closes its end and everything it sent still arrives.
ClientClose(c) ==
  /\ peer[c] = "open"
  /\ peer' = [peer EXCEPT ![c] = "closed"]
  /\ UNCHANGED <<alive, clients, client_m, threads, fdTab, backlog, sent, up, out, taken, log>>

\* The client closes with unread input: its kernel answers with a reset, and
\* what it had not transmitted is lost.
ClientReset(c) ==
  /\ peer[c] = "open"
  /\ peer' = [peer EXCEPT ![c] = "reset"]
  /\ \E n \in 0 .. Len(up[c]) : up' = [up EXCEPT ![c] = SubSeq(@, 1, n)]
  /\ UNCHANGED <<alive, clients, client_m, threads, fdTab, backlog, sent, out, taken, log>>

-----------------------------------------------------------------------------
(***************************************************************************)
(* main()'s accept loop.                                                   *)
(***************************************************************************)

\* POSIX: accept() returns the lowest descriptor that is free.
LowestFree(f) ==
  /\ fdTab[f] = NoConn
  /\ \A g \in Fds : g < f => fdTab[g] # NoConn

\* With no free descriptor accept() fails and the loop goes round unchanged.
Accept ==
  /\ alive /\ mainPc = "accept" /\ backlog # <<>>
  /\ \E f \in Fds :
       /\ LowestFree(f)
       /\ new_fd' = f
       /\ fdTab' = [fdTab EXCEPT ![f] = Head(backlog)]
  /\ backlog' = Tail(backlog)
  /\ mainPc' = "push"
  /\ UNCHANGED <<alive, clients, client_m, pc, client_socket, buffer, next,
                 peer, sent, up, out, taken, log>>

\* Lock, push_back and unlock: nothing blocks between them.
AddClient ==
  /\ alive /\ mainPc = "push" /\ client_m = NoConn
  /\ clients' = Append(clients, new_fd)
  /\ mainPc' = "spawn"
  /\ UNCHANGED <<alive, client_m, new_fd, pc, client_socket, buffer, next, kernel, log>>

SpawnHandler ==
  /\ alive /\ mainPc = "spawn"
  /\ LET c == fdTab[new_fd]
     IN  /\ pc' = [pc EXCEPT ![c] = "recv"]
         /\ client_socket' = [client_socket EXCEPT ![c] = new_fd]
  /\ mainPc' = "accept"
  /\ new_fd' = -1
  /\ UNCHANGED <<alive, clients, client_m, buffer, next, kernel, log>>

-----------------------------------------------------------------------------
(***************************************************************************)
(* handle_c: one thread per connection.                                    *)
(***************************************************************************)

\* recv() returns any non-empty prefix of what has arrived, up to BUFFSIZE.
Recv(c) ==
  /\ alive /\ pc[c] = "recv" /\ up[c] # <<>>
  /\ \E n \in 1 .. Len(up[c]) :
       /\ n <= BUFFSIZE
       /\ buffer' = [buffer EXCEPT ![c] = SubSeq(up[c], 1, n)]
       /\ up' = [up EXCEPT ![c] = SubSeq(@, n + 1, Len(@))]
  /\ pc' = [pc EXCEPT ![c] = "lock"]
  /\ UNCHANGED <<alive, clients, client_m, mainPc, new_fd, client_socket, next,
                 fdTab, backlog, peer, sent, out, taken, log>>

\* A mutant: the loop condition is `!= 0`, so an error does not end it.
RecvEndOnClose(c) ==
  /\ alive /\ pc[c] = "recv" /\ up[c] = <<>> /\ peer[c] = "closed"
  /\ pc' = [pc EXCEPT ![c] = "remove"]
  /\ UNCHANGED <<alive, clients, client_m, mainPc, new_fd, client_socket, buffer, next,
                 kernel, log>>

\* recv() returns 0 after a close and -1 after a reset: the loop ends.
RecvEnd(c) ==
  /\ alive /\ pc[c] = "recv" /\ up[c] = <<>> /\ peer[c] \in {"closed", "reset"}
  /\ pc' = [pc EXCEPT ![c] = "remove"]
  /\ UNCHANGED <<alive, clients, client_m, mainPc, new_fd, client_socket, buffer, next,
                 kernel, log>>

\* A mutant: the broadcast does not take the mutex first.
LockIgnored(c) ==
  /\ alive /\ pc[c] = "lock"
  /\ client_m' = c
  /\ next' = [next EXCEPT ![c] = 1]
  /\ pc' = [pc EXCEPT ![c] = "send"]
  /\ log' = Append(log, [from |-> c, data |-> buffer[c]])
  /\ UNCHANGED <<alive, clients, mainPc, new_fd, client_socket, buffer, kernel>>

LockClients(c) ==
  /\ alive /\ pc[c] = "lock" /\ client_m = NoConn
  /\ client_m' = c
  /\ next' = [next EXCEPT ![c] = 1]
  /\ pc' = [pc EXCEPT ![c] = "send"]
  /\ log' = Append(log, [from |-> c, data |-> buffer[c]])
  /\ UNCHANGED <<alive, clients, mainPc, new_fd, client_socket, buffer, kernel>>

\* The range-for stands at another client's descriptor, open as connection d.
AtTarget(c, d) ==
  /\ alive /\ pc[c] = "send" /\ next[c] \in 1 .. Len(clients)
  /\ clients[next[c]] # client_socket[c]
  /\ fdTab[clients[next[c]]] = d

Advance(c) == next' = [next EXCEPT ![c] = @ + 1]

\* if (others_addr != client_socket) is false: nothing is sent.
SkipSelf(c) ==
  /\ alive /\ pc[c] = "send" /\ next[c] \in 1 .. Len(clients)
  /\ clients[next[c]] = client_socket[c]
  /\ Advance(c)
  /\ UNCHANGED <<alive, clients, client_m, mainPc, new_fd, pc, client_socket, buffer,
                 kernel, log>>

\* send() returns once the kernel holds the whole chunk: it blocks, with the
\* mutex held, while the client has too many unread bytes.
SendWritten(c, d) ==
  /\ AtTarget(c, d) /\ d # NoConn /\ peer[d] = "open"
  /\ Len(out[d]) - taken[d] + Len(buffer[c]) <= SndBuf
  /\ out' = [out EXCEPT ![d] = @ \o buffer[c]]
  /\ Advance(c)
  /\ UNCHANGED <<alive, clients, client_m, mainPc, new_fd, pc, client_socket, buffer,
                 fdTab, backlog, peer, sent, up, taken, log>>

\* The other end is closed: send() succeeds, and the reset that answers it
\* arrives at once or later.
SendDiscarded(c, d) ==
  /\ AtTarget(c, d) /\ d # NoConn /\ peer[d] = "closed"
  /\ \E s \in {"closed", "reset"} : peer' = [peer EXCEPT ![d] = s]
  /\ Advance(c)
  /\ UNCHANGED <<alive, clients, client_m, mainPc, new_fd, pc, client_socket, buffer,
                 fdTab, backlog, sent, up, out, taken, log>>

\* send() returns -1 (a pending reset, a closed descriptor, or EPIPE with the
\* signal ignored): perror, and the loop goes on to the next client.
SendFailed(c, d) ==
  /\ AtTarget(c, d) /\ (d # NoConn => peer[d] = "reset")
  /\ Advance(c)
  /\ UNCHANGED <<alive, clients, client_m, mainPc, new_fd, pc, client_socket, buffer,
                 kernel, log>>

\* send() on a reset connection raises SIGPIPE, whose default action ends the
\* process with all its threads.
SendKilled(c, d) ==
  /\ AtTarget(c, d) /\ d # NoConn /\ peer[d] = "reset" /\ ~IgnoreSigpipe
  /\ alive' = FALSE
  /\ UNCHANGED <<clients, client_m, threads, kernel, log>>

\* A mutant: lock() without the matching unlock().
EndStillLocked(c) ==
  /\ alive /\ pc[c] = "send" /\ next[c] > Len(clients)
  /\ pc' = [pc EXCEPT ![c] = "recv"]
  /\ next' = [next EXCEPT ![c] = 0]
  /\ buffer' = [buffer EXCEPT ![c] = <<>>]
  /\ UNCHANGED <<alive, clients, client_m, mainPc, new_fd, client_socket, kernel, log>>

\* The range-for ends and lock_guard goes out of scope; the next recv()
\* overwrites the chunk.
EndBroadcast(c) ==
  /\ alive /\ pc[c] = "send" /\ next[c] > Len(clients)
  /\ client_m' = NoConn
  /\ pc' = [pc EXCEPT ![c] = "recv"]
  /\ next' = [next EXCEPT ![c] = 0]
  /\ buffer' = [buffer EXCEPT ![c] = <<>>]
  /\ UNCHANGED <<alive, clients, mainPc, new_fd, client_socket, kernel, log>>

\* erase(remove(...)): the positions of s that do not hold f, in order.
Kept(s, f) ==
  {t \in UNION {[1 .. n -> DOMAIN s] : n \in 0 .. Len(s)} :
     /\ \A i, j \in DOMAIN t : i < j => t[i] < t[j]
     /\ {t[i] : i \in DOMAIN t} = {i \in DOMAIN s : s[i] # f}}

\* Mutants of the removal: the slot is overwritten instead of erased; remove()
\* without erase() leaves the length; the mutex is not taken.
RemoveMarks(c) ==
  /\ alive /\ pc[c] = "remove" /\ client_m = NoConn
  /\ clients' = [i \in DOMAIN clients |-> IF clients[i] = client_socket[c] THEN -1 ELSE clients[i]]
  /\ pc' = [pc EXCEPT ![c] = "close"]
  /\ UNCHANGED <<alive, client_m, mainPc, new_fd, client_socket, buffer, next, kernel, log>>

RemoveNoErase(c) ==
  /\ alive /\ pc[c] = "remove" /\ client_m = NoConn
  /\ \E t \in Kept(clients, client_socket[c]) :
       clients' = [i \in DOMAIN clients |-> clients[IF i \in DOMAIN t THEN t[i] ELSE i]]
  /\ pc' = [pc EXCEPT ![c] = "close"]
  /\ UNCHANGED <<alive, client_m, mainPc, new_fd, client_socket, buffer, next, kernel, log>>

RemoveUnlocked(c) ==
  /\ alive /\ pc[c] = "remove"
  /\ \E t \in Kept(clients, client_socket[c]) : clients' = [i \in DOMAIN t |-> clients[t[i]]]
  /\ pc' = [pc EXCEPT ![c] = "close"]
  /\ UNCHANGED <<alive, client_m, mainPc, new_fd, client_socket, buffer, next, kernel, log>>

\* Lock, erase(remove(...)) and unlock: nothing blocks between them.
RemoveClient(c) ==
  /\ alive /\ pc[c] = "remove" /\ client_m = NoConn
  /\ \E t \in Kept(clients, client_socket[c]) : clients' = [i \in DOMAIN t |-> clients[t[i]]]
  /\ pc' = [pc EXCEPT ![c] = "close"]
  /\ UNCHANGED <<alive, client_m, mainPc, new_fd, client_socket, buffer, next, kernel, log>>

CloseClient(c) ==
  /\ alive /\ pc[c] = "close"
  /\ fdTab' = [fdTab EXCEPT ![client_socket[c]] = NoConn]
  /\ pc' = [pc EXCEPT ![c] = "done"]
  /\ client_socket' = [client_socket EXCEPT ![c] = -1]
  /\ UNCHANGED <<alive, clients, client_m, mainPc, new_fd, buffer, next,
                 backlog, peer, sent, up, out, taken, log>>

\* A mutant: close() comes before the removal.
CloseFirst(c) ==
  /\ alive
  /\ \/ /\ pc[c] = "remove"
        /\ fdTab' = [fdTab EXCEPT ![client_socket[c]] = NoConn]
        /\ pc' = [pc EXCEPT ![c] = "close"]
        /\ UNCHANGED <<clients, client_socket>>
     \/ /\ pc[c] = "close" /\ client_m = NoConn
        /\ \E t \in Kept(clients, client_socket[c]) : clients' = [i \in DOMAIN t |-> clients[t[i]]]
        /\ client_socket' = [client_socket EXCEPT ![c] = -1]
        /\ pc' = [pc EXCEPT ![c] = "done"]
        /\ UNCHANGED fdTab
  /\ UNCHANGED <<alive, client_m, mainPc, new_fd, buffer, next, backlog, peer, sent, up,
                 out, taken, log>>

HandlerExit(c) == RemoveClient(c) \/ CloseClient(c)

Broadcast(c) ==
  \/ LockClients(c)
  \/ SkipSelf(c)
  \/ \E d \in Conn \cup {NoConn} :
       SendWritten(c, d) \/ SendDiscarded(c, d) \/ SendFailed(c, d) \/ SendKilled(c, d)
  \/ EndBroadcast(c)

handle_c(c) == Recv(c) \/ RecvEnd(c) \/ Broadcast(c) \/ HandlerExit(c)

main == Accept \/ AddClient \/ SpawnHandler

Client(c) ==
  Connect(c) \/ ClientSend(c) \/ ClientRead(c) \/ ClientClose(c) \/ ClientReset(c)

Next == main \/ \E c \in Conn : handle_c(c) \/ Client(c)

Spec == Init /\ [][Next]_vars

(***************************************************************************)
(* The scheduler runs every thread that can run, and the clients in        *)
(* Readers keep reading.  Nothing makes a client connect, send or close.   *)
(***************************************************************************)
Fairness ==
  /\ WF_vars(main)
  /\ \A c \in Conn : WF_vars(handle_c(c))
  /\ \A c \in Readers : WF_vars(ClientRead(c))

FairSpec == Spec /\ Fairness

-----------------------------------------------------------------------------
(***************************************************************************)
(* Properties.                                                             *)
(***************************************************************************)
InChunk(b, chunk) == \E i \in DOMAIN chunk.data : chunk.data[i] = b

Registered(d) == \E i \in DOMAIN clients : fdTab[clients[i]] = d

\* A connection whose handler is running (TCPS.cpp:47-59) has its descriptor
\* in `clients` exactly once, so that no broadcast misses it or reaches it
\* twice, whatever descriptors have been closed and reused meanwhile.
RegisteredOnce ==
  \A c \in Conn : pc[c] \in {"recv", "lock", "send"} =>
    /\ fdTab[client_socket[c]] = c
    /\ \E i \in DOMAIN clients :
         \A j \in DOMAIN clients : clients[j] = client_socket[c] <=> j = i

\* `clients` never names a descriptor that is closed, or that accept() has
\* meanwhile given to a connection that is not registered yet: the handler
\* erases it (TCPS.cpp:73) before it closes it (TCPS.cpp:77).
NoStaleDescriptor ==
  \A i \in DOMAIN clients :
    LET c == fdTab[clients[i]]
    IN  /\ c # NoConn
        /\ pc[c] \notin {"close", "done"}
        /\ pc[c] = "none" => mainPc = "spawn" /\ new_fd = clients[i]

\* Every stream follows one order of the chunks, that in which the broadcasts
\* took the mutex (TCPS.cpp:50), so no two clients see two chunks swapped, even
\* chunks of different senders.
SameOrder ==
  \A d \in Conn : \A i, j \in DOMAIN out[d] : \A k, l \in DOMAIN log :
    (i < j /\ InChunk(out[d][i], log[k]) /\ InChunk(out[d][j], log[l])) => k <= l

\* A broadcast that has begun ends, and gives the mutex back, whatever joins
\* or leaves meanwhile, as long as every open client reads (TCPS.cpp:50-59).
BroadcastEnds == \A c \in Conn : client_m = c ~> client_m = NoConn

\* The descriptor of an accepted connection whose client has gone is closed in
\* the end, however the disconnection falls between broadcasts (TCPS.cpp:70-77).
DescriptorReleased ==
  \A c \in Conn :
    (peer[c] \in {"closed", "reset"} /\ \E f \in Fds : fdTab[f] = c)
      ~> (\A f \in Fds : fdTab[f] # c)

\* The relay implements the abstract broadcast: a connection is a member from
\* push_back until its client goes away, and lags one chunk behind the log
\* until the broadcast in progress has passed its place in the vector.
Waiting(d) ==
  /\ client_m # NoConn
  /\ \E i \in DOMAIN clients : fdTab[clients[i]] = d /\ i >= next[client_m]

Status(d) ==
  IF ~alive \/ peer[d] \in {"closed", "reset"} THEN "left"
  ELSE IF Registered(d) THEN "in" ELSE "out"

Position(d) ==
  IF Status(d) # "in" THEN 0
  ELSE IF Waiting(d) THEN Len(log) - 1 ELSE Len(log)

Abstract == INSTANCE TotalOrderBroadcast WITH
  Member <- Conn, Data <- Seq(Byte), log <- log, delivered <- out,
  status <- [d \in Conn |-> Status(d)], pos <- [d \in Conn |-> Position(d)]

\* Every step of the server is a step of the abstract broadcast.  (Data is
\* written out: TLC cannot enumerate the sequences of bytes.)
AbstractNext ==
  \/ \E m \in Conn : Abstract!Join(m) \/ Abstract!Deliver(m) \/ Abstract!Publish(m, buffer[m])
  \/ \E S \in SUBSET Conn : Abstract!Leave(S)

ImplementsBroadcast == Abstract!Init /\ [][AbstractNext]_(Abstract!vars)

\* TCPS.cpp:49, "Broadcast message to all clients": the loop over the clients
\* is never cut short while an open connection still waits for the chunk.
BroadcastReachesAll ==
  ~alive => \A d \in Conn : Waiting(d) /\ d # client_m => peer[d] # "open"
=============================================================================
