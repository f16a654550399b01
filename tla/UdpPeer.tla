-------------------------------- MODULE UdpPeer --------------------------------
(***************************************************************************)
(* Two peers that stream audio to each other over UDP,                     *)
(* Online_Tracks/UDPconn1.cpp and UDPconn2.cpp (the same program with the  *)
(* ports exchanged).  main() starts a capture and a playback thread, waits *)
(* on a condition variable for stop_streaming, joins the threads and       *)
(* closes the socket.  SIGINT sets the flag and notifies; a thread that    *)
(* fails sets the flag and does not notify.                                *)
(*                                                                         *)
(* A datagram is "audio" or "empty": sendto() of no bytes, which the       *)
(* capture thread does after a recovered overrun, is a datagram too.  The  *)
(* network keeps at most one datagram of a kind, and may lose it.          *)
(***************************************************************************)
EXTENDS FiniteSets

CONSTANTS
  Peer,             \* the two programs
  MayFail,          \* the peers whose devices and sends may fail
  MayOverrun,       \* the peers whose device may report overruns
  garbage           \* the uninitialised local descriptors, <<peer, name>>,
                    \* whose stack slots hold the socket's number

ASSUME PeerAssumption == Cardinality(Peer) = 2
LocalSocket == {"capture", "playback"}

ASSUME MayAssumption ==
  MayFail \subseteq Peer /\ MayOverrun \subseteq Peer /\ garbage \subseteq Peer \X LocalSocket

VARIABLES
  mainPc,           \* where main() is
  stop_streaming,
  pcCap,            \* where audio_cap is
  pcPlay,           \* where play_audio is
  frames,           \* what audio_cap is about to send, "audio" at other times
  open,             \* kernel: the socket's descriptor is open
  net               \* the datagrams on their way to a peer

vars == <<mainPc, stop_streaming, pcCap, pcPlay, frames, open, net>>

Other(p) == CHOOSE q \in Peer : q # p
Datagram == {"audio", "empty"}
(***************************************************************************)
(* The type invariant.                                                     *)
(***************************************************************************)
TypeOK ==
  /\ mainPc \in [Peer -> {"test", "block", "wait", "join", "close", "exit"}]
  /\ stop_streaming \in [Peer -> BOOLEAN]
  /\ pcCap \in [Peer -> {"open", "read", "send", "close", "done"}]
  /\ pcPlay \in [Peer -> {"open", "loop", "recv", "write", "close", "done"}]
  /\ frames \in [Peer -> Datagram]
  /\ open \in [Peer -> BOOLEAN]
  /\ net \in [Peer -> SUBSET Datagram]

\* The socket is bound, the threads start.
Init ==
  /\ mainPc = [p \in Peer |-> "test"]
  /\ stop_streaming = [p \in Peer |-> FALSE]
  /\ pcCap = [p \in Peer |-> "open"]
  /\ pcPlay = [p \in Peer |-> "open"]
  /\ frames = [p \in Peer |-> "audio"]
  /\ open = [p \in Peer |-> TRUE]
  /\ net = [p \in Peer |-> {}]

-----------------------------------------------------------------------------
\* init_sig, in whatever thread the signal is delivered to: the flag, then a
\* notification that only a main() that already waits hears.
init_sig(p) ==
  /\ mainPc[p] # "exit"
  /\ stop_streaming' = [stop_streaming EXCEPT ![p] = TRUE]
  /\ mainPc' = IF mainPc[p] = "wait" THEN [mainPc EXCEPT ![p] = "test"] ELSE mainPc
  /\ UNCHANGED <<pcCap, pcPlay, frames, open, net>>

Lose(p) ==
  /\ \E d \in net[p] : net' = [net EXCEPT ![p] = @ \ {d}]
  /\ UNCHANGED <<mainPc, stop_streaming, pcCap, pcPlay, frames, open>>

\* A thread that fails sets the flag and notifies nobody.
Stop(p) == stop_streaming' = [stop_streaming EXCEPT ![p] = TRUE]

-----------------------------------------------------------------------------
(***************************************************************************)
(* audio_cap.                                                              *)
(***************************************************************************)
CapOpen(p) ==
  /\ pcCap[p] = "open"
  /\ \/ pcCap' = [pcCap EXCEPT ![p] = "read"]
     \/ p \in MayFail /\ pcCap' = [pcCap EXCEPT ![p] = "done"]
  /\ UNCHANGED <<mainPc, stop_streaming, pcPlay, frames, open, net>>

\* A mutant: the result of snd_pcm_recover is not tested, so that an error code
\* becomes the length to send.
CapReadUnchecked(p) ==
  /\ pcCap[p] = "read" /\ ~stop_streaming[p]
  /\ pcCap' = [pcCap EXCEPT ![p] = "send"]
  /\ \E d \in Datagram \cup {"error"} : frames' = [frames EXCEPT ![p] = d]
  /\ UNCHANGED <<mainPc, stop_streaming, pcPlay, open, net>>

\* snd_pcm_recover returns 0 when it repairs an overrun, so that nothing is
\* left to send; an error it cannot repair ends the loop without the flag.
CapRead(p) ==
  /\ pcCap[p] = "read"
  /\ \/ stop_streaming[p] /\ pcCap' = [pcCap EXCEPT ![p] = "close"] /\ UNCHANGED frames
     \/ /\ ~stop_streaming[p]
        /\ pcCap' = [pcCap EXCEPT ![p] = "send"]
        /\ \E d \in Datagram : (d = "empty" => p \in MayOverrun) /\ frames' = [frames EXCEPT ![p] = d]
     \/ /\ ~stop_streaming[p] /\ p \in MayFail
        /\ pcCap' = [pcCap EXCEPT ![p] = "close"] /\ UNCHANGED frames
  /\ UNCHANGED <<mainPc, stop_streaming, pcPlay, open, net>>

CapSend(p) ==
  /\ pcCap[p] = "send"
  /\ \/ /\ open[p]
        /\ net' = [net EXCEPT ![Other(p)] = @ \cup {frames[p]}]
        /\ pcCap' = [pcCap EXCEPT ![p] = "read"]
        /\ frames' = [frames EXCEPT ![p] = "audio"]
        /\ UNCHANGED stop_streaming
     \/ /\ ~open[p] \/ p \in MayFail
        /\ Stop(p)
        /\ pcCap' = [pcCap EXCEPT ![p] = "close"]
        /\ UNCHANGED <<net, frames>>
  /\ UNCHANGED <<mainPc, pcPlay, open>>

\* close() of a local descriptor that was never set.
CloseLocal(p, l) == open' = [open EXCEPT ![p] = @ /\ <<p, l>> \notin garbage]

CapClose(p) ==
  /\ pcCap[p] = "close"
  /\ CloseLocal(p, "capture")
  /\ pcCap' = [pcCap EXCEPT ![p] = "done"]
  /\ UNCHANGED <<mainPc, stop_streaming, pcPlay, frames, net>>

audio_cap(p) == CapOpen(p) \/ CapRead(p) \/ CapSend(p) \/ CapClose(p)

-----------------------------------------------------------------------------
(***************************************************************************)
(* play_audio.                                                             *)
(***************************************************************************)
PlayOpen(p) ==
  /\ pcPlay[p] = "open"
  /\ \/ pcPlay' = [pcPlay EXCEPT ![p] = "loop"]
     \/ p \in MayFail /\ pcPlay' = [pcPlay EXCEPT ![p] = "done"]
  /\ UNCHANGED <<mainPc, stop_streaming, pcCap, frames, open, net>>

\* A mutant: the playback loop does not look at the flag.
PlayForever(p) ==
  /\ pcPlay[p] = "loop" /\ open[p]
  /\ pcPlay' = [pcPlay EXCEPT ![p] = "recv"]
  /\ UNCHANGED <<mainPc, stop_streaming, pcCap, frames, open, net>>

\* The loop test, and recvfrom() looking up its descriptor.
PlayLoop(p) ==
  /\ pcPlay[p] = "loop"
  /\ \/ /\ stop_streaming[p]
        /\ pcPlay' = [pcPlay EXCEPT ![p] = "close"] /\ UNCHANGED stop_streaming
     \/ /\ ~stop_streaming[p] /\ open[p]
        /\ pcPlay' = [pcPlay EXCEPT ![p] = "recv"] /\ UNCHANGED stop_streaming
     \/ /\ ~stop_streaming[p] /\ ~open[p]
        /\ pcPlay' = [pcPlay EXCEPT ![p] = "close"] /\ Stop(p)
  /\ UNCHANGED <<mainPc, pcCap, frames, open, net>>

\* recvfrom() returns a datagram; a length of 0 is taken for the end.
PlayRecv(p) ==
  /\ pcPlay[p] = "recv"
  /\ \E d \in net[p] :
       /\ net' = [net EXCEPT ![p] = @ \ {d}]
       /\ IF d = "empty"
          THEN pcPlay' = [pcPlay EXCEPT ![p] = "close"] /\ Stop(p)
          ELSE pcPlay' = [pcPlay EXCEPT ![p] = "write"] /\ UNCHANGED stop_streaming
  /\ UNCHANGED <<mainPc, pcCap, frames, open>>

PlayWrite(p) ==
  /\ pcPlay[p] = "write"
  /\ \/ pcPlay' = [pcPlay EXCEPT ![p] = "loop"] /\ UNCHANGED stop_streaming
     \/ p \in MayFail /\ pcPlay' = [pcPlay EXCEPT ![p] = "close"] /\ Stop(p)
  /\ UNCHANGED <<mainPc, pcCap, frames, open, net>>

PlayClose(p) ==
  /\ pcPlay[p] = "close"
  /\ CloseLocal(p, "playback")
  /\ pcPlay' = [pcPlay EXCEPT ![p] = "done"]
  /\ UNCHANGED <<mainPc, stop_streaming, pcCap, frames, net>>

play_audio(p) == PlayOpen(p) \/ PlayLoop(p) \/ PlayRecv(p) \/ PlayWrite(p) \/ PlayClose(p)

-----------------------------------------------------------------------------
(***************************************************************************)
(* main(): the flag is tested under a mutex that nobody who sets it takes, *)
(* so it may be set between the test and the wait.                         *)
(***************************************************************************)
MainGoes(p, from, to) ==
  /\ mainPc[p] = from
  /\ mainPc' = [mainPc EXCEPT ![p] = to]
  /\ UNCHANGED <<stop_streaming, pcCap, pcPlay, frames, net>>

MainTest(p) == MainGoes(p, "test", IF stop_streaming[p] THEN "join" ELSE "block") /\ UNCHANGED open
MainBlock(p) == MainGoes(p, "block", "wait") /\ UNCHANGED open
SpuriousWakeup(p) == MainGoes(p, "wait", "test") /\ UNCHANGED open

\* A mutant: only the capture thread is joined.
JoinCapture(p) == pcCap[p] = "done" /\ MainGoes(p, "join", "close") /\ UNCHANGED open

MainJoin(p) ==
  /\ pcCap[p] = "done" /\ pcPlay[p] = "done"
  /\ MainGoes(p, "join", "close") /\ UNCHANGED open

MainClose(p) == MainGoes(p, "close", "exit") /\ open' = [open EXCEPT ![p] = FALSE]

main(p) == MainTest(p) \/ MainBlock(p) \/ MainJoin(p) \/ MainClose(p)

Next ==
  \E p \in Peer :
    main(p) \/ SpuriousWakeup(p) \/ audio_cap(p) \/ play_audio(p) \/ init_sig(p) \/ Lose(p)

Spec == Init /\ [][Next]_vars

(***************************************************************************)
(* The threads run; of the datagrams sent for ever some arrive; and a user *)
(* whose program does not stop presses Ctrl+C again.                       *)
(***************************************************************************)
SignalAgain(p) == stop_streaming[p] /\ init_sig(p)

Fairness ==
  \A p \in Peer :
    /\ WF_vars(main(p)) /\ WF_vars(audio_cap(p)) /\ WF_vars(play_audio(p))
    /\ SF_vars(PlayRecv(p)) /\ WF_vars(SignalAgain(p))

FairSpec == Spec /\ Fairness

-----------------------------------------------------------------------------
(***************************************************************************)
(* Properties.                                                             *)
(***************************************************************************)
Streaming(p) == pcCap[p] \in {"open", "read", "send"} /\ ~stop_streaming[p] /\ open[p]

\* A peer that was told to stop, or stopped itself, ends as long as the other
\* peer is streaming and the user insists (UDPconn1.cpp:295-311): only a
\* datagram gets the playback thread out of recvfrom(), and only a further
\* signal gets main() out of a wait whose notification it missed.
StopEnds ==
  \A p \in Peer : []<>(stop_streaming[p] => mainPc[p] = "exit" \/ ~Streaming(Other(p)))

\* The socket stays open for both threads until main() has joined them
\* (UDPconn1.cpp:301-310), if the uninitialised descriptors that the threads
\* close do not happen to hold its number.
SocketHeld ==
  \A p \in Peer :
    (\A l \in LocalSocket : <<p, l>> \notin garbage) =>
      open[p] \/ (pcCap[p] = "done" /\ pcPlay[p] = "done")

\* UDPconn1.cpp:153, "Server closed connection.": an empty datagram is taken
\* for the end of the other peer, so there is none while that peer streams on.
EmptyMeansClosed ==
  [][\A p \in Peer : PlayRecv(p) /\ "empty" \in net[p] \ net'[p] => ~Streaming(Other(p))]_vars
=============================================================================
