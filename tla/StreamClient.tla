----------------------------- MODULE StreamClient -----------------------------
(***************************************************************************)
(* The streaming client, TCPS/Client/TCPSC.cpp, and its older variant,     *)
(* TCPattempt/TCP_client/TCPclient2.cpp.  main() connects to the           *)
(* relay and to two local visualizers, each with a bounded number of       *)
(* attempts, starts a capture and a playback thread, joins them and closes *)
(* what is left.  The threads share the flag stop_streaming and the        *)
(* descriptor of the relay's socket.  The variants run the same threads,   *)
(* but that only TCPSC.cpp's audio_cap closes the relay's socket, and      *)
(* under a main() of their own.                                            *)
(*                                                                         *)
(* Audio itself is abstracted: what matters here is which call fails, who  *)
(* sets the flag, who closes which descriptor, and who waits for whom.     *)
(* Descriptors are numbers the kernel hands out lowest first, so a number  *)
(* that one thread closed may be what another thread just opened.          *)
(***************************************************************************)
EXTENDS Integers, FiniteSets

CONSTANTS
  max_retries,    \* attempts per connection
  Fds,            \* the descriptors of the process
  MaxInbox        \* bound: chunks of the relay that wait in the socket

ASSUME RetriesAssumption == max_retries \in Nat \ {0}
ASSUME FdsAssumption == Fds \subseteq Nat /\ IsFiniteSet(Fds) /\ Cardinality(Fds) >= 5
ASSUME InboxAssumption == MaxInbox \in Nat \ {0}

Sock == {"server", "cap", "play"}    \* sockfd, local_sockfd_cap, local_sockfd_playback
View == {"cap", "play"}              \* the two visualizers
Device == {"pcmCap", "pcmPlay"}      \* the ALSA devices, a descriptor each
Object == Sock \cup Device

VARIABLES
  older,           \* this is TCPclient2.cpp
  mainPc,          \* where main() is
  view,            \* the visualizer that main() is connecting to
  retries,         \* main()'s or connect_server's retries
  fd,              \* main()'s three descriptors
  stop_streaming,
  pcCap,           \* where audio_cap is
  pcPlay,          \* where play_audio is
  device,          \* the descriptors of the open ALSA devices
  fdTab,           \* kernel: what a descriptor stands for
  peer,            \* kernel: the other end of each connection
  inbox            \* kernel: chunks of the relay that are not received yet

threads == <<pcCap, pcPlay, device>>
kernel == <<fdTab, peer, inbox>>
vars == <<older, mainPc, view, retries, fd, stop_streaming, threads, kernel>>

MainPc == {"connect", "socket", "attempt", "check", "join", "close", "exit"}
CapPc == {"none", "open", "read", "send", "view", "pcm", "sock", "local", "done"}
PlayPc == {"none", "open", "loop", "recv", "write", "view", "pcm", "local", "done"}
\* "up" is connected; "stalled" takes no more bytes for now; a "closed" peer
\* answers the next bytes with a reset.
PeerState == {"idle", "up", "stalled", "closed", "reset"}

(***************************************************************************)
(* The type invariant.                                                     *)
(***************************************************************************)
TypeOK ==
  /\ older \in BOOLEAN
  /\ mainPc \in MainPc /\ view \in View /\ retries \in -1 .. max_retries
  /\ fd \in [Sock -> Fds \cup {-1}]
  /\ stop_streaming \in BOOLEAN
  /\ pcCap \in CapPc /\ pcPlay \in PlayPc
  /\ device \in [Device -> Fds \cup {-1}]
  /\ fdTab \in [Fds -> Object \cup {"free"}]
  /\ peer \in [Sock -> PeerState]
  /\ inbox \in 0 .. MaxInbox

Init ==
  /\ older \in BOOLEAN
  /\ mainPc = "connect" /\ view = "cap" /\ retries = max_retries
  /\ fd = [s \in Sock |-> -1]
  /\ stop_streaming = FALSE
  /\ pcCap = "none" /\ pcPlay = "none"
  /\ device = [d \in Device |-> -1]
  /\ fdTab = [n \in Fds |-> "free"]
  /\ peer = [s \in Sock |-> "idle"]
  /\ inbox = 0

\* open(), socket(): the lowest free descriptor.
Opened(n, object) ==
  /\ fdTab[n] = "free" /\ \A k \in Fds : k < n => fdTab[k] # "free"
  /\ fdTab' = [fdTab EXCEPT ![n] = object]

\* close(n), which does nothing but fail for -1 and for a free descriptor.
Closed(S) == fdTab' = [n \in Fds |-> IF n \in S THEN "free" ELSE fdTab[n]]

-----------------------------------------------------------------------------
(***************************************************************************)
(* The relay and the visualizers.                                          *)
(***************************************************************************)
ServerSend ==
  /\ peer["server"] \in {"up", "stalled"} /\ inbox < MaxInbox
  /\ inbox' = inbox + 1
  /\ UNCHANGED <<mainPc, view, retries, fd, stop_streaming, threads, fdTab, peer>>

PeerMoves(s, from, to) ==
  /\ peer[s] \in from
  /\ peer' = [peer EXCEPT ![s] = to]
  /\ UNCHANGED <<mainPc, view, retries, fd, stop_streaming, threads, fdTab, inbox>>

PeerResumes(s) == PeerMoves(s, {"stalled"}, "up")
PeerCloses(s) == PeerMoves(s, {"up", "stalled"}, "closed")
PeerResets(s) == PeerMoves(s, {"up", "stalled"}, "reset")

Peers ==
  \/ ServerSend
  \/ \E s \in Sock : PeerResumes(s) \/ PeerCloses(s) \/ PeerResets(s)

-----------------------------------------------------------------------------
(***************************************************************************)
(* main() before the threads.                                              *)
(***************************************************************************)

\* One round of connect_server's loop: socket(), connect(), and close() with
\* another attempt if it fails.
ConnectServer ==
  /\ mainPc = "connect" /\ retries > 0
  /\ retries' = retries - 1
  /\ \/ /\ \E n \in Fds : Opened(n, "server") /\ fd' = [fd EXCEPT !["server"] = n]
        /\ peer' = [peer EXCEPT !["server"] = "up"]
        /\ mainPc' = "socket"
     \/ UNCHANGED <<fdTab, fd, peer, mainPc>>
  /\ UNCHANGED <<view, stop_streaming, threads, inbox>>

ConnectGivesUp ==
  /\ mainPc = "connect" /\ retries = 0
  /\ mainPc' = "exit"
  /\ retries' = -1
  /\ UNCHANGED <<view, fd, stop_streaming, threads, kernel>>

\* After the visualizer `view` comes the other one, then the threads.
NextView ==
  IF view = "cap" THEN view' = "play" /\ mainPc' = "socket" /\ UNCHANGED <<pcCap, pcPlay>>
  ELSE mainPc' = "join" /\ pcCap' = "open" /\ pcPlay' = "open" /\ UNCHANGED view

\* socket() for a visualizer: on failure the descriptor stays -1.
ViewSocket ==
  /\ mainPc = "socket"
  /\ \/ /\ \E n \in Fds : Opened(n, view) /\ fd' = [fd EXCEPT ![view] = n]
        /\ mainPc' = "attempt" /\ retries' = max_retries
        /\ UNCHANGED <<view, pcCap, pcPlay>>
     \/ NextView /\ UNCHANGED <<fdTab, fd, retries>>
  /\ UNCHANGED <<stop_streaming, device, peer, inbox>>

\* A mutant: the loop tests the counter after one attempt too many.
AttemptTooMany ==
  /\ mainPc = "attempt"
  /\ retries' = retries - 1
  /\ IF retries >= 0
     THEN \/ peer' = [peer EXCEPT ![view] = "up"] /\ mainPc' = "check"
          \/ UNCHANGED <<peer, mainPc>>
     ELSE mainPc' = "check" /\ UNCHANGED peer
  /\ UNCHANGED <<view, fd, stop_streaming, threads, fdTab, inbox>>

\* while (retries-- > 0): the test counts down even when it fails.
ViewAttempt ==
  /\ mainPc = "attempt"
  /\ retries' = retries - 1
  /\ IF retries > 0
     THEN \/ peer' = [peer EXCEPT ![view] = "up"] /\ mainPc' = "check"
          \/ UNCHANGED <<peer, mainPc>>
     ELSE mainPc' = "check" /\ UNCHANGED peer
  /\ UNCHANGED <<view, fd, stop_streaming, threads, fdTab, inbox>>

\* if (retries <= 0) the descriptor is forgotten, open as it is.
ViewCheck ==
  /\ mainPc = "check"
  /\ fd' = IF retries <= 0 THEN [fd EXCEPT ![view] = -1] ELSE fd
  /\ NextView
  /\ UNCHANGED <<retries, stop_streaming, device, kernel>>

-----------------------------------------------------------------------------
(***************************************************************************)
(* send() on one of the sockets.                                           *)
(***************************************************************************)

\* The descriptor still stands for the socket it was opened as.
Usable(s) == \E n \in Fds : n = fd[s] /\ fdTab[n] = s

\* It blocks while the peer takes no bytes, and may leave it so; the bytes a
\* closed peer gets make it answer with a reset.
SendOk(s) ==
  /\ Usable(s)
  /\ \/ peer[s] = "up" /\ \E p \in {"up", "stalled"} : peer' = [peer EXCEPT ![s] = p]
     \/ peer[s] = "closed" /\ peer' = [peer EXCEPT ![s] = "reset"]

SendFails(s) ==
  /\ ~Usable(s) \/ peer[s] \in {"idle", "reset"}
  /\ UNCHANGED peer

-----------------------------------------------------------------------------
(***************************************************************************)
(* audio_cap.                                                              *)
(***************************************************************************)
\* Without a device the thread returns at once and closes nothing.
CapOpen ==
  /\ pcCap = "open"
  /\ \/ /\ \E n \in Fds : Opened(n, "pcmCap") /\ device' = [device EXCEPT !["pcmCap"] = n]
        /\ pcCap' = "read"
     \/ pcCap' = "done" /\ UNCHANGED <<fdTab, device>>
  /\ UNCHANGED <<mainPc, view, retries, fd, stop_streaming, pcPlay, peer, inbox>>

\* A mutant: `while (true)`.
CapReadAlways ==
  /\ pcCap = "read"
  /\ pcCap' \in {"send", "pcm"}
  /\ UNCHANGED <<mainPc, view, retries, fd, stop_streaming, pcPlay, device, kernel>>

\* The loop test and snd_pcm_readi: an error that snd_pcm_recover does not
\* repair ends the loop and leaves the flag alone.
CapRead ==
  /\ pcCap = "read"
  /\ pcCap' \in IF stop_streaming THEN {"pcm"} ELSE {"send", "pcm"}
  /\ UNCHANGED <<mainPc, view, retries, fd, stop_streaming, pcPlay, device, kernel>>

\* The chunk goes to the relay, then with its timestamp to the visualizer.
CapSend ==
  /\ pcCap = "send"
  /\ \/ SendOk("server") /\ pcCap' = "view" /\ UNCHANGED stop_streaming
     \/ SendFails("server") /\ pcCap' = "pcm" /\ stop_streaming' = TRUE
  /\ UNCHANGED <<mainPc, view, retries, fd, pcPlay, device, fdTab, inbox>>

CapView ==
  /\ pcCap = "view"
  /\ \/ SendOk("cap") /\ pcCap' = "read" /\ UNCHANGED stop_streaming
     \/ SendFails("cap") /\ pcCap' = "pcm" /\ stop_streaming' = TRUE
  /\ UNCHANGED <<mainPc, view, retries, fd, pcPlay, device, fdTab, inbox>>

\* snd_pcm_close, close(sockfd), close(local_sockfd_capture).
CapClosing(pc, n, next) ==
  /\ pcCap = pc
  /\ Closed({n})
  /\ pcCap' = next
  /\ UNCHANGED <<mainPc, view, retries, fd, stop_streaming, pcPlay, peer, inbox>>

CapClose ==
  \/ /\ CapClosing("pcm", device["pcmCap"], IF older THEN "local" ELSE "sock")
     /\ device' = [device EXCEPT !["pcmCap"] = -1]
  \/ CapClosing("sock", fd["server"], "local") /\ UNCHANGED device
  \/ CapClosing("local", fd["cap"], "done") /\ UNCHANGED device

audio_cap == CapOpen \/ CapRead \/ CapSend \/ CapView \/ CapClose

-----------------------------------------------------------------------------
(***************************************************************************)
(* play_audio.                                                             *)
(***************************************************************************)
PlayOpen ==
  /\ pcPlay = "open"
  /\ \/ /\ \E n \in Fds : Opened(n, "pcmPlay") /\ device' = [device EXCEPT !["pcmPlay"] = n]
        /\ pcPlay' = "loop"
     \/ pcPlay' = "done" /\ UNCHANGED <<fdTab, device>>
  /\ UNCHANGED <<mainPc, view, retries, fd, stop_streaming, pcCap, peer, inbox>>

PlayStops == pcPlay' = "pcm" /\ stop_streaming' = TRUE

\* The loop test, and recv() looking its descriptor up: from then on it holds
\* the connection, whoever closes the descriptor.
PlayLoop ==
  /\ pcPlay = "loop"
  /\ \/ stop_streaming /\ pcPlay' = "pcm" /\ UNCHANGED stop_streaming
     \/ ~stop_streaming /\ fdTab[fd["server"]] = "server" /\ pcPlay' = "recv" /\ UNCHANGED stop_streaming
     \/ ~stop_streaming /\ fdTab[fd["server"]] # "server" /\ PlayStops
  /\ UNCHANGED <<mainPc, view, retries, fd, pcCap, device, kernel>>

\* recv() returns with a chunk ...
PlayRecv ==
  /\ pcPlay = "recv" /\ inbox > 0
  /\ inbox' = inbox - 1
  /\ pcPlay' = "write"
  /\ UNCHANGED <<mainPc, view, retries, fd, stop_streaming, pcCap, device, fdTab, peer>>

\* A mutant: an error is not the end, only a return value of 0 is.
PlayEndOnClose ==
  /\ pcPlay = "recv" /\ peer["server"] \in {"closed", "reset"} /\ inbox = 0
  /\ IF peer["server"] = "closed" THEN PlayStops
     ELSE pcPlay' = "loop" /\ UNCHANGED stop_streaming
  /\ UNCHANGED <<mainPc, view, retries, fd, pcCap, device, kernel>>

\* ... or with 0 or an error; a reset discards what was waiting.
PlayEnd ==
  /\ pcPlay = "recv"
  /\ (peer["server"] = "closed" /\ inbox = 0) \/ peer["server"] = "reset"
  /\ PlayStops
  /\ UNCHANGED <<mainPc, view, retries, fd, pcCap, device, kernel>>

\* snd_pcm_writei: an underrun is repaired, any other failure stops the client.
PlayWrite ==
  /\ pcPlay = "write"
  /\ \/ pcPlay' = "view" /\ UNCHANGED stop_streaming
     \/ PlayStops
  /\ UNCHANGED <<mainPc, view, retries, fd, pcCap, device, kernel>>

PlayView ==
  /\ pcPlay = "view"
  /\ \/ SendOk("play") /\ pcPlay' = "loop" /\ UNCHANGED stop_streaming
     \/ SendFails("play") /\ PlayStops
  /\ UNCHANGED <<mainPc, view, retries, fd, pcCap, device, fdTab, inbox>>

PlayClosing(pc, n, next) ==
  /\ pcPlay = pc
  /\ Closed({n})
  /\ pcPlay' = next
  /\ UNCHANGED <<mainPc, view, retries, fd, stop_streaming, pcCap, peer, inbox>>

PlayClose ==
  \/ /\ PlayClosing("pcm", device["pcmPlay"], "local")
     /\ device' = [device EXCEPT !["pcmPlay"] = -1]
  \/ PlayClosing("local", fd["play"], "done") /\ UNCHANGED device

play_audio == PlayOpen \/ PlayLoop \/ PlayRecv \/ PlayEnd \/ PlayWrite \/ PlayView \/ PlayClose

-----------------------------------------------------------------------------
(***************************************************************************)
(* main() after the threads.                                               *)
(***************************************************************************)
\* A mutant: main() waits for the capture thread only.
JoinCapture ==
  /\ mainPc = "join" /\ pcCap = "done"
  /\ mainPc' = "close"
  /\ UNCHANGED <<view, retries, fd, stop_streaming, threads, kernel>>

JoinThreads ==
  /\ mainPc = "join" /\ pcCap = "done" /\ pcPlay = "done"
  /\ mainPc' = "close"
  /\ UNCHANGED <<view, retries, fd, stop_streaming, threads, kernel>>

CloseAll ==
  /\ mainPc = "close"
  /\ Closed({fd[s] : s \in Sock})
  /\ mainPc' = "exit"
  /\ UNCHANGED <<view, retries, fd, stop_streaming, threads, peer, inbox>>

main ==
  \/ ConnectServer \/ ConnectGivesUp \/ ViewSocket \/ ViewAttempt \/ ViewCheck
  \/ JoinThreads \/ CloseAll

(***************************************************************************)
(* main() of TCPclient2.cpp.                                               *)
(***************************************************************************)
\* connect_server tries the addresses of getaddrinfo and fails for good.
ConnectOnce ==
  /\ mainPc = "connect"
  /\ \/ /\ \E n \in Fds : Opened(n, "server") /\ fd' = [fd EXCEPT !["server"] = n]
        /\ peer' = [peer EXCEPT !["server"] = "up"]
        /\ mainPc' = "socket"
     \/ mainPc' = "exit" /\ UNCHANGED <<fdTab, fd, peer>>
  /\ UNCHANGED <<view, retries, stop_streaming, threads, inbox>>

\* socket() and one connect() per visualizer, or `return 1`.
ViewOnce ==
  /\ mainPc = "socket"
  /\ \/ /\ \E n \in Fds : Opened(n, view) /\ fd' = [fd EXCEPT ![view] = n]
        /\ peer' = [peer EXCEPT ![view] = "up"]
        /\ NextView
     \/ mainPc' = "exit" /\ UNCHANGED <<view, pcCap, pcPlay, fdTab, fd, peer>>
  /\ UNCHANGED <<retries, stop_streaming, device, inbox>>

\* A mutant: the socket is closed as soon as the capture thread has ended.
CloseEarly ==
  /\ mainPc \in {"join", "close"} /\ pcCap = "done"
  /\ Closed({fd["server"]})
  /\ mainPc' = IF pcPlay = "done" THEN "exit" ELSE "join"
  /\ UNCHANGED <<view, retries, fd, stop_streaming, threads, peer, inbox>>

CloseServer ==
  /\ mainPc = "close"
  /\ Closed({fd["server"]})
  /\ mainPc' = "exit"
  /\ UNCHANGED <<view, retries, fd, stop_streaming, threads, peer, inbox>>

main2 == ConnectOnce \/ ViewOnce \/ JoinThreads \/ CloseServer

Run(A) == A /\ UNCHANGED older
Main == Run((older /\ main2) \/ (~older /\ main))

Next == Main \/ Run(audio_cap) \/ Run(play_audio) \/ Run(Peers)

Spec == Init /\ [][Next]_vars

(***************************************************************************)
(* The threads run.  A stalled peer takes bytes again or leaves, and the   *)
(* relay goes on sending while it is connected (other clients talk).       *)
(* Nobody has to close.                                                    *)
(***************************************************************************)
Fairness ==
  /\ WF_vars(Main) /\ WF_vars(Run(audio_cap)) /\ WF_vars(Run(play_audio))
  /\ WF_vars(Run(ServerSend)) /\ \A s \in Sock : WF_vars(Run(PeerResumes(s)))

FairSpec == Spec /\ Fairness

-----------------------------------------------------------------------------
(***************************************************************************)
(* Properties.                                                             *)
(***************************************************************************)
\* Sockets are closed by up to two threads and main() (TCPSC.cpp:159-160, 236,
\* 337-343), and the numbers are reused by the ALSA devices: no close() ever
\* hits a descriptor that stands for something else by then.
NoForeignClose ==
  /\ pcCap = "sock" => fdTab[fd["server"]] \in {"server", "free"}
  /\ pcCap = "local" /\ fd["cap"] # -1 => fdTab[fd["cap"]] \in {"cap", "free"}
  /\ pcCap = "pcm" => fdTab[device["pcmCap"]] = "pcmCap"
  /\ pcPlay = "local" /\ fd["play"] # -1 => fdTab[fd["play"]] \in {"play", "free"}
  /\ pcPlay = "pcm" => fdTab[device["pcmPlay"]] = "pcmPlay"
  /\ mainPc = "close" => \A s \in Sock : fd[s] # -1 => fdTab[fd[s]] \in {s, "free"}

\* Once either thread has set stop_streaming, both end and main() returns
\* (TCPSC.cpp:118, 193, 329-347): true while the relay has something to send,
\* which is what gets the playback thread out of recv().
StopEnds == stop_streaming ~> mainPc = "exit"

\* When the relay closes or resets the connection the client comes to its end,
\* whichever thread notices first, even if one of them never had a device.
ServerCloseEnds == peer["server"] \in {"closed", "reset"} ~> mainPc = "exit"

\* TCPclient2.cpp:305, "Join threads before closing socket": the relay's socket
\* stays open until both threads have ended, so that neither ever works on a
\* number that stands for another file.  (TCPSC.cpp says the same at line 328,
\* and its audio_cap closes the socket at line 159.)
JoinBeforeClose ==
  older /\ fd["server"] # -1 /\ fdTab[fd["server"]] # "server" => pcCap = "done" /\ pcPlay = "done"

\* TCPSC.cpp:317, "Mark as invalid if connection not successful".
ConnectedIsKept ==
  mainPc = "join" => \A v \in View : peer[v] = "up" => fd[v] # -1
=============================================================================
