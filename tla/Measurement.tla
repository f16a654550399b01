------------------------------ MODULE Measurement ------------------------------
(***************************************************************************)
(* The measuring clients of TCPMeasure.  Both send a packet that starts    *)
(* with a time stamp, then wait in recv() for an acknowledgement of the    *)
(* size of the stamp before they send the next.                            *)
(*                                                                         *)
(* Basic/ClientBasicTCPM.cpp talks to Basic/MeasureTCP.cpp, which answers  *)
(* each piece of the stream that its recv() returns.  Audio/TCPLBCl.cpp,   *)
(* which also plays what it receives, in a second thread on the same       *)
(* socket, talks to the relay Audio/TCPLBSr.cpp, which answers nothing.    *)
(*                                                                         *)
(* A byte stream is the number of bytes under way.  In the audio programs  *)
(* send() waits for room in the receiver's buffer, as long as it takes; the *)
(* basic ones' stamps and packets, one at a time, are taken to find room.  *)
(* The relay's vector is the set of its clients, which its loop goes       *)
(* through in some order: RelayServer has the vector itself.               *)
(***************************************************************************)
EXTENDS Integers

CONSTANTS
  Programs,     \* the pairs of programs looked at: "audio", "basic" or both
  Client,       \* the clients' processes
  STAMP,        \* sizeof(int64_t), and the size of an acknowledgement
  BUFFSIZE,     \* the size of every buffer, and of a basic packet
  Captured,     \* how many bytes a capture may yield
  SndBuf,       \* the bytes that wait for an audio program at most
  RETRIES,      \* connection attempts
  MaxPackets    \* bound: how many packets each client gets to send

ASSUME SizeAssumption == STAMP \in Nat \ {0} /\ BUFFSIZE \in Nat \ {0} /\ Captured \subseteq 0..BUFFSIZE
ASSUME RoomAssumption == SndBuf \in Nat /\ SndBuf >= STAMP + BUFFSIZE
ASSUME ProgramAssumption == Programs \subseteq {"audio", "basic"}
ASSUME NobodyAssumption == "nobody" \notin Client
ASSUME CountAssumption == RETRIES \in Nat \ {0} /\ MaxPackets \in [Client -> Nat]

VARIABLES
  program,      \* "audio" or "basic": which pair of programs runs
  server,       \* "before", "up", "gone" or, by SIGPIPE, "crashed"
  mainPc,       \* where each client's main() is
  retries,
  sendPc,       \* where send_audio_with_metrics or send_data_with_metrics is
  playPc,       \* where receive_and_play_audio is
  packets,      \* how many packets a client has sent
  conn,         \* the state of each client's connection
  up,           \* bytes on their way to the server
  down,         \* bytes on their way to the client
  clients,      \* the relay's vector, as a set
  chunk,        \* how many bytes a handler of the relay has to pass on
  client_m,     \* the handler that holds the relay's mutex, or "nobody"
  other_client, \* the client that it sends to
  rest          \* the clients that it has still to send to

relay == <<clients, chunk, client_m, other_client, rest>>
vars == <<program, server, mainPc, retries, sendPc, playPc, packets, conn, up, down, relay>>
threads == <<mainPc, retries, sendPc, playPc, packets>>

(***************************************************************************)
(* The type invariant.  A connection is "open"; "left" or "refused" when   *)
(* the client has closed, and the server has not, or has got a reset;      *)
(* "shut" or "reset" the same with the parts exchanged.                    *)
(***************************************************************************)
TypeOK ==
  /\ program \in {"audio", "basic"} /\ server \in {"before", "up", "gone", "crashed"}
  /\ mainPc \in [Client -> {"off", "connect", "join", "exit"}]
  /\ retries \in [Client -> 0..RETRIES]
  /\ sendPc \in [Client -> {"off", "open", "send", "ack", "done"}]
  /\ playPc \in [Client -> {"off", "open", "recv", "done"}]
  /\ packets \in [Client -> Nat] /\ \A c \in Client : packets[c] <= MaxPackets[c]
  /\ conn \in [Client -> {"none", "open", "left", "refused", "shut", "reset"}]
  /\ up \in [Client -> Nat] /\ down \in [Client -> Nat]
  /\ clients \subseteq Client /\ rest \subseteq Client
  /\ chunk \in [Client -> 0..BUFFSIZE]
  /\ client_m \in Client \cup {"nobody"} /\ other_client \in Client \cup {"nobody"}

Init ==
  /\ program \in Programs /\ server = "before"
  /\ mainPc = [c \in Client |-> "off"] /\ retries = [c \in Client |-> 0]
  /\ sendPc = [c \in Client |-> "off"] /\ playPc = [c \in Client |-> "off"]
  /\ packets = [c \in Client |-> 0]
  /\ conn = [c \in Client |-> "none"]
  /\ up = [c \in Client |-> 0] /\ down = [c \in Client |-> 0]
  /\ clients = {} /\ chunk = [c \in Client |-> 0]
  /\ client_m = "nobody" /\ other_client = "nobody" /\ rest = {}

-----------------------------------------------------------------------------
(***************************************************************************)
(* A client's process: main(), and the user.                               *)
(***************************************************************************)
Start(c) ==
  /\ mainPc[c] = "off"
  /\ mainPc' = [mainPc EXCEPT ![c] = "connect"]
  /\ retries' = [retries EXCEPT ![c] = RETRIES]
  /\ UNCHANGED <<program, server, sendPc, playPc, packets, conn, up, down, relay>>

\* A mutant: the loop goes round once more.
AttemptOnceMore(c) ==
  /\ mainPc[c] = "connect" /\ retries[c] >= 0
  /\ retries' = [retries EXCEPT ![c] = @ - 1]
  /\ UNCHANGED <<program, server, mainPc, sendPc, playPc, packets, conn, up, down, relay>>

\* One round of connect_to_server: an attempt that fails closes its socket.
Attempt(c) ==
  /\ mainPc[c] = "connect" /\ retries[c] > 0
  /\ retries' = [retries EXCEPT ![c] = @ - 1]
  /\ \/ UNCHANGED <<mainPc, conn, sendPc, playPc>>
     \/ /\ server = "up"
        /\ conn' = [conn EXCEPT ![c] = "open"]
        /\ mainPc' = [mainPc EXCEPT ![c] = "join"]
        /\ sendPc' = [sendPc EXCEPT ![c] = IF program = "audio" THEN "open" ELSE "send"]
        /\ playPc' = [playPc EXCEPT ![c] = IF program = "audio" THEN "open" ELSE "off"]
  /\ UNCHANGED <<program, server, packets, up, down, relay>>

\* What a client's end does to its connection.  Bytes that it has not read
\* make its kernel send a reset.
ClientCloses(c) ==
  /\ conn' = [conn EXCEPT ![c] = IF @ # "open" THEN "none"
                                 ELSE IF down[c] > 0 THEN "refused" ELSE "left"]
  /\ up' = [up EXCEPT ![c] = IF conn[c] = "open" THEN @ ELSE 0]
  /\ down' = [down EXCEPT ![c] = 0]

Exit(c) ==
  /\ mainPc' = [mainPc EXCEPT ![c] = "exit"]
  /\ sendPc' = [sendPc EXCEPT ![c] = "done"] /\ playPc' = [playPc EXCEPT ![c] = "done"]
  /\ ClientCloses(c)
  /\ UNCHANGED <<program, server, retries, packets, relay>>

GiveUp(c) == mainPc[c] = "connect" /\ retries[c] = 0 /\ Exit(c)

Join(c) ==
  /\ mainPc[c] = "join"
  /\ sendPc[c] = "done" /\ playPc[c] \in {"off", "done"}
  /\ Exit(c)

main(c) == Attempt(c) \/ GiveUp(c) \/ Join(c)

\* stop_streaming is never set: only a signal ends a client at work.
Kill(c) == mainPc[c] \in {"connect", "join"} /\ Exit(c)

-----------------------------------------------------------------------------
(***************************************************************************)
(* The thread that sends.                                                  *)
(***************************************************************************)
Goes(c, from, to) == sendPc[c] = from /\ sendPc' = [sendPc EXCEPT ![c] = to]

OpenCapture(c) ==
  /\ Goes(c, "open", "send") \/ Goes(c, "open", "done")
  /\ UNCHANGED <<program, server, mainPc, retries, playPc, packets, conn, up, down, relay>>

\* snd_pcm_recover could not repair the device.
CaptureError(c) ==
  /\ program = "audio" /\ Goes(c, "send", "done")
  /\ UNCHANGED <<program, server, mainPc, retries, playPc, packets, conn, up, down, relay>>

\* The capture of a moment's sound, and its stamp; the basic client's buffer is
\* always full.
PacketSize == IF program = "audio" THEN {STAMP + n : n \in Captured} ELSE {BUFFSIZE}

SendWritten(c) ==
  /\ conn[c] = "open" /\ packets[c] < MaxPackets[c]
  /\ Goes(c, "send", "ack")
  /\ packets' = [packets EXCEPT ![c] = @ + 1]
  /\ \E n \in PacketSize :
       /\ program = "audio" => up[c] + n <= SndBuf
       /\ up' = [up EXCEPT ![c] = @ + n]
  /\ UNCHANGED <<program, server, mainPc, retries, playPc, conn, down, relay>>

\* The first send() after the server's end gets no error, but a reset.
SendDiscarded(c) ==
  /\ conn[c] = "shut" /\ Goes(c, "send", "ack")
  /\ conn' = [conn EXCEPT ![c] = "reset"]
  /\ UNCHANGED <<program, server, mainPc, retries, playPc, packets, up, down, relay>>

\* A mutant: a failed send() is reported, and the loop goes on.
SendGoesOn(c) ==
  /\ conn[c] = "reset" /\ Goes(c, "send", "ack")
  /\ UNCHANGED <<program, server, mainPc, retries, playPc, packets, conn, up, down, relay>>

SendFailed(c) ==
  /\ conn[c] = "reset" /\ Goes(c, "send", "done")
  /\ UNCHANGED <<program, server, mainPc, retries, playPc, packets, conn, up, down, relay>>

Send(c) == SendWritten(c) \/ SendDiscarded(c) \/ SendFailed(c)

UpTo(k, n) == 1..(IF n < k THEN n ELSE k)

\* A mutant: the acknowledgement is read into a longer buffer.
RecvAckLong(c) ==
  /\ Goes(c, "ack", "send")
  /\ \E n \in UpTo(2 * STAMP, down[c]) : down' = [down EXCEPT ![c] = @ - n]
  /\ UNCHANGED <<program, server, mainPc, retries, playPc, packets, conn, up, relay>>

\* recv() of at most sizeof(ack) bytes, whatever they are.  Its failure only
\* suppresses the latency.
RecvAck(c) ==
  /\ Goes(c, "ack", "send")
  /\ \/ \E n \in UpTo(STAMP, down[c]) : down' = [down EXCEPT ![c] = @ - n]
     \/ down[c] = 0 /\ conn[c] \in {"shut", "reset"} /\ UNCHANGED down
  /\ UNCHANGED <<program, server, mainPc, retries, playPc, packets, conn, up, relay>>

streams(c) == OpenCapture(c) \/ Send(c) \/ RecvAck(c)
sender(c) == streams(c) \/ CaptureError(c)

-----------------------------------------------------------------------------
(***************************************************************************)
(* The audio client's other thread.                                        *)
(***************************************************************************)
OpenPlayback(c) ==
  /\ playPc[c] = "open"
  /\ \E pc \in {"recv", "done"} : playPc' = [playPc EXCEPT ![c] = pc]
  /\ UNCHANGED <<program, server, mainPc, retries, sendPc, packets, conn, up, down, relay>>

\* What recv() returns is played; 0 and errors end the loop.
RecvAndPlay(c) ==
  /\ playPc[c] = "recv"
  /\ \/ /\ \E n \in UpTo(BUFFSIZE, down[c]) : down' = [down EXCEPT ![c] = @ - n]
        /\ UNCHANGED playPc
     \/ /\ down[c] = 0 /\ conn[c] \in {"shut", "reset"}
        /\ playPc' = [playPc EXCEPT ![c] = "done"] /\ UNCHANGED down
  /\ UNCHANGED <<program, server, mainPc, retries, sendPc, packets, conn, up, relay>>

receiver(c) == OpenPlayback(c) \/ RecvAndPlay(c)

-----------------------------------------------------------------------------
(***************************************************************************)
(* The servers.                                                            *)
(***************************************************************************)
ServerStarts ==
  /\ server = "before" /\ server' = "up"
  /\ UNCHANGED <<program, threads, conn, up, down, relay>>

\* The process is gone: its kernel closes the connections, with a reset where
\* bytes had arrived that nobody had read.
ServerEnds(how) ==
  /\ server' = how
  /\ conn' = [c \in Client |-> IF conn[c] # "open" THEN "none"
                               ELSE IF up[c] > 0 THEN "reset" ELSE "shut"]
  /\ up' = [c \in Client |-> 0]
  /\ clients' = {} /\ chunk' = [c \in Client |-> 0]
  /\ client_m' = "nobody" /\ other_client' = "nobody" /\ rest' = {}

ServerKilled == server = "up" /\ ServerEnds("gone") /\ UNCHANGED <<program, threads, down>>

Connected(c) == server = "up" /\ conn[c] \in {"open", "left", "refused"}

\* The relay's main() registers a client under the mutex, and starts its handler.
ServerAccepts(c) ==
  /\ program = "audio" /\ Connected(c) /\ c \notin clients
  /\ client_m = "nobody"
  /\ clients' = clients \cup {c}
  /\ UNCHANGED <<program, server, threads, conn, up, down, chunk, client_m, other_client, rest>>

Serving(c) == Connected(c) /\ (program = "audio" => c \in clients)

\* handle_client's recv() of what is there.
Takes(c, n) == n \in UpTo(BUFFSIZE, up[c]) /\ up' = [up EXCEPT ![c] = @ - n]

\* A mutant: only a packet that came in whole is acknowledged.
AcknowledgeWhole(c) ==
  /\ program = "basic" /\ Serving(c) /\ conn[c] = "open"
  /\ \E n \in 1..BUFFSIZE :
       /\ Takes(c, n)
       /\ down' = [down EXCEPT ![c] = IF n = BUFFSIZE THEN @ + STAMP ELSE @]
  /\ UNCHANGED <<program, server, threads, conn, relay>>

\* MeasureTCP: a piece is received and answered.  The first answer to a client
\* that has left is discarded, with a reset for an answer.
Acknowledge(c) ==
  /\ program = "basic" /\ Serving(c) /\ conn[c] # "refused"
  /\ \E n \in 1..BUFFSIZE : Takes(c, n)
  /\ IF conn[c] = "open"
     THEN down' = [down EXCEPT ![c] = @ + STAMP] /\ UNCHANGED conn
     ELSE conn' = [conn EXCEPT ![c] = "refused"] /\ UNCHANGED down
  /\ UNCHANGED <<program, server, threads, relay>>

\* MeasureTCP does not ignore SIGPIPE: a further answer ends the process.
AcknowledgeKills(c) ==
  /\ program = "basic" /\ Serving(c) /\ conn[c] = "refused" /\ up[c] > 0
  /\ ServerEnds("crashed")
  /\ UNCHANGED <<program, threads, down>>

\* TCPLBSr: a handler has received a chunk.
RelayRecv(c) ==
  /\ Serving(c) /\ chunk[c] = 0
  /\ \E n \in 1..BUFFSIZE : Takes(c, n) /\ chunk' = [chunk EXCEPT ![c] = n]
  /\ UNCHANGED <<program, server, threads, conn, down, clients, client_m, other_client, rest>>

\* The loop goes on to one of S, or ends, and with it the scope of the lock.
NextClient(c, S) ==
  /\ \/ /\ S = {} /\ rest' = {} /\ other_client' = "nobody" /\ client_m' = "nobody"
        /\ chunk' = [chunk EXCEPT ![c] = 0]
     \/ \E d \in S : rest' = S \ {d} /\ other_client' = d /\ client_m' = c /\ UNCHANGED chunk
  /\ UNCHANGED <<program, server, threads, up, clients>>

\* The lock is taken for the whole loop.
RelayLock(c) ==
  /\ chunk[c] > 0 /\ client_m = "nobody"
  /\ NextClient(c, clients \ {c}) /\ UNCHANGED <<conn, down>>

\* send() waits for room, with the mutex held.  To a client that has left the
\* first one is discarded, and the next ones fail; SIGPIPE is ignored.
RelaySend(c) ==
  /\ client_m = c /\ NextClient(c, rest)
  /\ \/ /\ conn[other_client] = "open" /\ down[other_client] + chunk[c] <= SndBuf
        /\ down' = [down EXCEPT ![other_client] = @ + chunk[c]] /\ UNCHANGED conn
     \/ /\ conn[other_client] = "left" /\ conn' = [conn EXCEPT ![other_client] = "refused"]
        /\ UNCHANGED down
     \/ conn[other_client] = "refused" /\ UNCHANGED <<conn, down>>

Relay(c) == program = "audio" /\ (RelayRecv(c) \/ RelayLock(c) \/ RelaySend(c))

\* A mutant: the relay's handler does not take the mutex.
EndsUnlocked(c) ==
  /\ Serving(c) /\ ((conn[c] = "left" /\ up[c] = 0) \/ conn[c] = "refused")
  /\ chunk[c] = 0
  /\ conn' = [conn EXCEPT ![c] = "none"] /\ up' = [up EXCEPT ![c] = 0]
  /\ clients' = clients \ {c}
  /\ UNCHANGED <<program, server, threads, down, chunk, client_m, other_client, rest>>

\* A mutant: after an error the handler calls recv() again.
EndsAtEndOnly(c) ==
  /\ Serving(c) /\ conn[c] = "left" /\ up[c] = 0
  /\ chunk[c] = 0 /\ client_m = "nobody"
  /\ conn' = [conn EXCEPT ![c] = "none"] /\ up' = [up EXCEPT ![c] = 0]
  /\ clients' = clients \ {c}
  /\ UNCHANGED <<program, server, threads, down, chunk, client_m, other_client, rest>>

\* recv() returns 0 or an error: the handler unregisters the client, for which
\* the relay's one needs the mutex, and closes.
HandlerEnds(c) ==
  /\ Serving(c) /\ ((conn[c] = "left" /\ up[c] = 0) \/ conn[c] = "refused")
  /\ chunk[c] = 0 /\ client_m = "nobody"
  /\ conn' = [conn EXCEPT ![c] = "none"] /\ up' = [up EXCEPT ![c] = 0]
  /\ clients' = clients \ {c}
  /\ UNCHANGED <<program, server, threads, down, chunk, client_m, other_client, rest>>

handle_client(c) == Acknowledge(c) \/ AcknowledgeKills(c) \/ Relay(c) \/ HandlerEnds(c)

Next ==
  \/ ServerStarts \/ ServerKilled
  \/ \E c \in Client : Start(c) \/ Kill(c) \/ main(c) \/ sender(c) \/ receiver(c)
                      \/ ServerAccepts(c) \/ handle_client(c)

Spec == Init /\ [][Next]_vars

(***************************************************************************)
(* Every thread runs, and a device need not fail.                          *)
(***************************************************************************)
Fairness ==
  \A c \in Client :
    /\ WF_vars(main(c)) /\ WF_vars(streams(c)) /\ WF_vars(receiver(c))
    /\ WF_vars(ServerAccepts(c)) /\ WF_vars(handle_client(c))

FairSpec == Spec /\ Fairness

-----------------------------------------------------------------------------
(***************************************************************************)
(* Properties.                                                             *)
(***************************************************************************)
\* The fewest pieces that n bytes can be received in.
Pieces(n) == (n + BUFFSIZE - 1) \div BUFFSIZE

\* The bytes of acknowledgement that are sent or at least still to be sent.
Owed(c) == down[c] + STAMP * Pieces(up[c])

\* What the waiting sender of a basic client is going to read of them at most.
Awaited(c) == IF sendPc[c] = "ack" THEN STAMP ELSE 0

\* A waiting sender has a whole acknowledgement coming, however the stream is
\* cut into pieces and however short its own reads were (MeasureTCP.cpp:19-32,
\* ClientBasicTCPM.cpp:79-80): the ping-pong cannot lock up.
AckOwed ==
  program = "basic" => \A c \in Client : conn[c] = "open" => Owed(c) >= Awaited(c)

\* Once there are more acknowledgements than packets to come, because a packet
\* was received in two pieces or an acknowledgement in two reads, that remains
\* so for as long as the connection is open: each latency printed from then on
\* (ClientBasicTCPM.cpp:80-83) is that of an answer to something sent before.
Behind(c) == conn[c] = "open" /\ Owed(c) > Awaited(c)
LagStays ==
  [][program = "basic" =>
       \A c \in Client : Behind(c) /\ conn'[c] = "open" => Behind(c)']_vars

\* A client of MeasureTCP.cpp does not wait for ever (ClientBasicTCPM.cpp:80).
AckArrives ==
  \A c \in Client : []<>(program = "basic" => sendPc[c] # "ack")

\* A client whose server has gone ends, though the sending thread takes the end
\* of the stream for a missing acknowledgement and sends on (TCPLBCl.cpp:105,
\* 114, 153; ClientBasicTCPM.cpp:72, 80).
ServerGoneEnds ==
  \A c \in Client : []<>(server \in {"gone", "crashed"} => mainPc[c] # "join")

\* The relay's loop sends to nobody who has been unregistered, and whose socket
\* may be closed, since it began (TCPLBSr.cpp:36-44, 53-59), though its send()
\* may take as long as it likes.
SendsToClient ==
  other_client # "nobody" =>
    other_client \in clients /\ conn[other_client] \in {"open", "left", "refused"}

\* A client that holds its connection and plays nothing more of what it is sent:
\* its thread could not open the device, and main() waits for the other one.
Deaf(d) == program = "audio" /\ conn[d] = "open" /\ playPc[d] = "done"

\* The server closes the socket of a client that has gone (MeasureTCP.cpp:20-22,
\* 44; TCPLBSr.cpp:34, 53-59), although other handlers hold the mutex for as long
\* as their send() takes.  It need not while a deaf client is connected, as the
\* send() to it may not return (TCPLBSr.cpp:39), nor if MeasureTCP has ended by
\* SIGPIPE (MeasureTCP.cpp:30).
SocketReleased ==
  \A c \in Client :
    []<>(server = "crashed" \/ conn[c] \notin {"left", "refused"} \/ \E d \in Client : Deaf(d))
=============================================================================
