---------------------------- MODULE RelayServerInv ----------------------------
(***************************************************************************)
(* The inductive invariants of the relay server.  IInv says who owns a     *)
(* descriptor, what the vector `clients` may hold and who holds the mutex; *)
(* StreamInv, which rests on it, where a byte of a client may be: it is on *)
(* its way to the server, in a handler's buffer or in the log, at one of   *)
(* these places only, and what was written to a client comes from the log. *)
(***************************************************************************)
EXTENDS RelayServer

\* The handler is in `clients`; the handler has not closed its socket yet.
Serving == {"recv", "lock", "send", "remove"}
Owning == Serving \cup {"close"}

\* main() is between accept() and the end of the loop body.
Admitting == mainPc \in {"push", "spawn"}

\* A handler's socket is open and is its own.
OwnSocket ==
  \A c \in Conn : pc[c] \in Owning =>
    client_socket[c] \in Fds /\ fdTab[client_socket[c]] = c

\* Every open descriptor belongs to one thread: the handler of its connection,
\* or main() while it admits the connection.
OneOwner ==
  \A f \in Fds : fdTab[f] # NoConn =>
    \/ pc[fdTab[f]] \in Owning /\ client_socket[fdTab[f]] = f
    \/ pc[fdTab[f]] = "none" /\ Admitting /\ new_fd = f

\* The connection that main() admits has no handler yet.
Admitted ==
  Admitting => new_fd \in Fds /\ fdTab[new_fd] \in Conn /\ pc[fdTab[new_fd]] = "none"

\* A connection in the accept queue is there once and has no descriptor.
Unaccepted == {c \in Conn : pc[c] = "none" /\ \A f \in Fds : fdTab[f] # c}

Queued ==
  /\ \A i \in DOMAIN backlog : peer[backlog[i]] # "idle" /\ backlog[i] \in Unaccepted
  /\ \A i, j \in DOMAIN backlog : backlog[i] = backlog[j] => i = j
  /\ \A c \in Conn : peer[c] = "idle" => c \in Unaccepted

\* `clients` holds the sockets of the handlers that serve, and the one being
\* admitted once it is pushed, each once.
VectorDistinct ==
  \A i, j \in DOMAIN clients : clients[i] = clients[j] => i = j

VectorSound ==
  \A i \in DOMAIN clients :
    /\ fdTab[clients[i]] # NoConn
    /\ \/ pc[fdTab[clients[i]]] \in Serving
       \/ mainPc = "spawn" /\ new_fd = clients[i]

VectorComplete ==
  /\ \A c \in Conn : pc[c] \in Serving => \E i \in DOMAIN clients : clients[i] = client_socket[c]
  /\ mainPc = "spawn" => \E i \in DOMAIN clients : clients[i] = new_fd

\* The mutex is held by the handler that broadcasts, and by nobody else.
MutexHeld == \A c \in Conn : pc[c] = "send" <=> client_m = c

IInv ==
  /\ TypeOK
  /\ OwnSocket /\ OneOwner /\ Admitted /\ Queued
  /\ VectorDistinct /\ VectorSound /\ VectorComplete
  /\ MutexHeld

-----------------------------------------------------------------------------
Logged(b, chunks) == \E k \in DOMAIN chunks : InChunk(b, chunks[k])

\* Bytes that recv() has not returned are the client's own, all different, and
\* in no broadcast so far.
UpNew ==
  \A c \in Conn :
    /\ \A i \in DOMAIN up[c] : up[c][i][1] = c /\ up[c][i][2] <= sent[c] /\ ~Logged(up[c][i], log)
    /\ \A i, j \in DOMAIN up[c] : up[c][i] = up[c][j] => i = j

\* So are those of a chunk that waits for the mutex, and none is still to come.
BufferNew ==
  \A c \in Conn : pc[c] = "lock" => \A i \in DOMAIN buffer[c] :
    /\ buffer[c][i][1] = c /\ buffer[c][i][2] <= sent[c] /\ ~Logged(buffer[c][i], log)
    /\ \A j \in DOMAIN up[c] : up[c][j] # buffer[c][i]

\* A broadcast byte was sent, and is in one chunk of the log only.
LogSound ==
  \A k \in DOMAIN log : \A i \in DOMAIN log[k].data :
    /\ log[k].data[i][2] <= sent[log[k].data[i][1]]
    /\ \A l \in DOMAIN log : InChunk(log[k].data[i], log[l]) => l = k

\* Whatever was written to a client was broadcast.
OutLogged == \A d \in Conn : \A i \in DOMAIN out[d] : Logged(out[d][i], log)

\* The broadcast in progress is that of the last chunk.
LastChunk ==
  \A c \in Conn : pc[c] = "send" => log # <<>> /\ log[Len(log)] = [from |-> c, data |-> buffer[c]]

\* A handler leaves its loop when its client has gone.
Leaving == \A c \in Conn : pc[c] \in {"remove", "close", "done"} => peer[c] \in {"closed", "reset"}

StreamInv == UpNew /\ BufferNew /\ LogSound /\ OutLogged /\ LastChunk /\ Leaving
=============================================================================
