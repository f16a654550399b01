-------------------------- MODULE StreamClientProofs --------------------------
(***************************************************************************)
(* Theorems about the streaming client, for any number of descriptors, of  *)
(* attempts and of chunks.  Three parties close descriptors and two open   *)
(* devices on the numbers that come free: the invariant says at every      *)
(* moment what each number that main() holds may stand for.                *)
(***************************************************************************)
EXTENDS StreamClient, TLAPS

\* The threads run only while main() waits for them.
ThreadsJoined ==
  /\ mainPc \in {"connect", "socket", "attempt", "check"} => pcCap = "none" /\ pcPlay = "none"
  /\ mainPc = "join" => pcCap # "none" /\ pcPlay # "none"
  /\ mainPc = "close" => pcCap = "done" /\ pcPlay = "done"
  /\ mainPc = "exit" => (pcCap = "none" /\ pcPlay = "none") \/ (pcCap = "done" /\ pcPlay = "done")

\* The countdowns of main() go below 0 only by the test that ends them.
RetriesLeft == mainPc \in {"connect", "attempt"} => retries >= 0

\* main() goes on with a connected relay only.
HasServer == mainPc \in {"socket", "attempt", "check", "join", "close"} => fd["server"] # -1

\* A thread has its device's descriptor from snd_pcm_open to snd_pcm_close, and
\* the kernel has no other for it.
DeviceHeld ==
  /\ device["pcmCap"] # -1 <=> pcCap \in {"read", "send", "view", "pcm"}
  /\ device["pcmPlay"] # -1 <=> pcPlay \in {"loop", "recv", "write", "view", "pcm"}
  /\ \A d \in Device, n \in Fds : fdTab[n] = d <=> device[d] = n

\* The older audio_cap leaves the relay's socket alone.
OlderKeeps == pcCap = "sock" => ~older

\* No two of main()'s descriptors are the same number.
Distinct == \A s, t \in Sock : fd[s] # -1 /\ fd[s] = fd[t] => s = t

\* What each number that main() holds stands for: its socket, until the one
\* who closes it has; then nothing, or the device of the other thread.
ServerKnown == fd["server"] # -1 =>
  \/ fdTab[fd["server"]] = "server"
  \/ older /\ mainPc = "exit" /\ pcCap = "done" /\ pcPlay = "done" /\ fdTab[fd["server"]] = "free"
  \/ ~older /\ pcCap \in {"local", "done"} /\ fdTab[fd["server"]] \in {"free", "pcmPlay"}

CapKnown == fd["cap"] # -1 =>
  \/ fdTab[fd["cap"]] = "cap"
  \/ pcCap = "done" /\ fdTab[fd["cap"]] \in {"free", "pcmPlay"}

PlayKnown == fd["play"] # -1 =>
  \/ fdTab[fd["play"]] = "play"
  \/ pcPlay = "done" /\ fdTab[fd["play"]] \in {"free", "pcmCap"}

IInv ==
  /\ TypeOK
  /\ ThreadsJoined /\ RetriesLeft /\ HasServer
  /\ DeviceHeld /\ OlderKeeps /\ Distinct
  /\ ServerKnown /\ CapKnown /\ PlayKnown

\* At the start no descriptor is in use.
LEMMA InvInit == Init => IInv
<1> SUFFICES ASSUME Init PROVE IInv
  OBVIOUS
<1> USE DEF Init
<1>1. TypeOK
  <2>1. retries \in -1 .. max_retries /\ inbox \in 0 .. MaxInbox
    BY RetriesAssumption, InboxAssumption
  <2>2. /\ fd \in [Sock -> Fds \cup {-1}] /\ device \in [Device -> Fds \cup {-1}]
        /\ peer \in [Sock -> PeerState]
    BY DEF PeerState
  <2>3. fdTab \in [Fds -> Object \cup {"free"}]
    OBVIOUS
  <2> QED
    BY <2>1, <2>2, <2>3 DEF TypeOK, View, MainPc, CapPc, PlayPc
<1>2. Fds \subseteq Nat
  BY FdsAssumption
<1>3. DeviceHeld
  BY <1>2 DEF DeviceHeld, Device
<1> QED
  BY <1>1, <1>3, RetriesAssumption
     DEF IInv, ThreadsJoined, RetriesLeft, HasServer, OlderKeeps, Distinct, ServerKnown, CapKnown, PlayKnown, Sock

-----------------------------------------------------------------------------
\* The parts of the invariant that the descriptors are about, and the places of
\* a thread at work.
Known == DeviceHeld /\ OlderKeeps /\ Distinct /\ ServerKnown /\ CapKnown /\ PlayKnown
CapWorks == {"read", "send", "view", "pcm"}
PlayWorks == {"loop", "recv", "write", "view", "pcm"}

\* A step that opens and closes nothing, and by which no thread gets past its
\* own descriptors, keeps what the numbers stand for.
LEMMA KnownFrame ==
  ASSUME Known, UNCHANGED <<older, fd, device, fdTab>>,
         mainPc = "exit" => mainPc' = "exit",
         pcCap' = pcCap \/ (pcCap \in CapWorks /\ pcCap' \in CapWorks)
                        \/ (pcCap \in {"none", "open"} /\ pcCap' \in {"open", "done"}),
         pcPlay' = pcPlay \/ (pcPlay \in PlayWorks /\ pcPlay' \in PlayWorks)
                          \/ (pcPlay \in {"none", "open"} /\ pcPlay' \in {"open", "done"})
  PROVE  Known'
BY DEF Known, DeviceHeld, OlderKeeps, Distinct, ServerKnown, CapKnown, PlayKnown, CapWorks, PlayWorks

\* The peers change neither threads nor descriptors.
LEMMA InvPeers == ASSUME IInv, Run(Peers) PROVE IInv'
<1> USE DEF IInv
<1>1. UNCHANGED <<older, mainPc, view, retries, fd, stop_streaming, pcCap, pcPlay, device, fdTab>>
  BY DEF Run, Peers, ServerSend, PeerMoves, PeerResumes, PeerCloses, PeerResets, threads
<1>2. peer' \in [Sock -> PeerState] /\ inbox' \in 0 .. MaxInbox
  BY InboxAssumption
     DEF Run, Peers, ServerSend, PeerMoves, PeerResumes, PeerCloses, PeerResets, TypeOK, PeerState
<1>3. TypeOK'
  BY <1>1, <1>2 DEF TypeOK
<1> QED
  BY <1>1, <1>3, KnownFrame DEF ThreadsJoined, RetriesLeft, HasServer, OlderKeeps, Known

-----------------------------------------------------------------------------
\* main() opens a socket before there are threads: a new number, for one of its
\* three descriptors.
LEMMA InvOpen ==
  ASSUME Known, TypeOK, pcCap = "none", pcPlay = "none", NEW s \in Sock, NEW n \in Fds,
         Opened(n, s), fd' = [fd EXCEPT ![s] = n],
         UNCHANGED <<older, device>>,
         <<pcCap, pcPlay>>' \in {<<"none", "none">>, <<"open", "open">>}
  PROVE  Known' /\ fd' \in [Sock -> Fds \cup {-1}] /\ fdTab' \in [Fds -> Object \cup {"free"}]
<1> USE FdsAssumption DEF Known, TypeOK, Opened, Sock, Device, Object
<1>1. fd' \in [Sock -> Fds \cup {-1}] /\ fdTab' \in [Fds -> Object \cup {"free"}]
  OBVIOUS
<1>2. DeviceHeld'
  BY DEF DeviceHeld
<1>3. \A t \in Sock : fd[t] # -1 => fdTab[fd[t]] = t /\ fd[t] # n
  BY DEF ServerKnown, CapKnown, PlayKnown
<1>4. \A t \in Sock : fd'[t] # -1 => fdTab'[fd'[t]] = t
  BY <1>3
<1>5. Distinct'
  BY <1>3 DEF Distinct
<1> QED
  BY <1>1, <1>2, <1>4, <1>5 DEF OlderKeeps, ServerKnown, CapKnown, PlayKnown

\* main() before the threads.
LEMMA InvConnect ==
  ASSUME IInv, UNCHANGED older, ConnectServer \/ ConnectGivesUp \/ ConnectOnce PROVE IInv'
<1> USE DEF IInv
<1>1. mainPc = "connect" /\ pcCap = "none" /\ pcPlay = "none" /\ retries >= 0
  BY DEF ConnectServer, ConnectGivesUp, ConnectOnce, ThreadsJoined, RetriesLeft
<1>2. UNCHANGED <<view, stop_streaming, pcCap, pcPlay, device, inbox>>
  BY DEF ConnectServer, ConnectGivesUp, ConnectOnce, threads, kernel
<1>3. retries' \in -1 .. max_retries /\ (retries' >= 0 \/ mainPc' = "exit") /\ mainPc' \in MainPc
  BY <1>1, RetriesAssumption DEF ConnectServer, ConnectGivesUp, ConnectOnce, TypeOK, MainPc
<1>4. CASE UNCHANGED <<fdTab, fd, peer>> /\ mainPc' \in {"connect", "exit"}
  BY <1>1, <1>2, <1>3, <1>4, KnownFrame DEF TypeOK, ThreadsJoined, RetriesLeft, HasServer, OlderKeeps, Known
<1>5. ASSUME NEW n \in Fds, Opened(n, "server"), fd' = [fd EXCEPT !["server"] = n],
             peer' = [peer EXCEPT !["server"] = "up"], mainPc' = "socket"
      PROVE  IInv'
  <2>1. Known' /\ fd' \in [Sock -> Fds \cup {-1}] /\ fdTab' \in [Fds -> Object \cup {"free"}]
    BY <1>1, <1>2, <1>5, InvOpen DEF Known, Sock
  <2>2. peer' \in [Sock -> PeerState]
    BY <1>5 DEF TypeOK, PeerState
  <2>3. TypeOK'
    BY <1>2, <1>3, <2>1, <2>2 DEF TypeOK
  <2>4. fd'["server"] # -1
    BY <1>5, FdsAssumption DEF TypeOK, Sock
  <2> QED
    BY <1>1, <1>2, <1>5, <2>1, <2>3, <2>4 DEF ThreadsJoined, RetriesLeft, HasServer, OlderKeeps, Known
<1> QED
  BY <1>2, <1>4, <1>5 DEF ConnectServer, ConnectGivesUp, ConnectOnce, kernel

\* What the end of a visualizer's connection attempt leads to.
LEMMA NextViewType ==
  ASSUME TypeOK, NextView, pcCap = "none", pcPlay = "none"
  PROVE  /\ view' \in View /\ mainPc' \in {"socket", "join"}
         /\ mainPc' = "socket" => pcCap' = "none" /\ pcPlay' = "none"
         /\ mainPc' = "join" => pcCap' = "open" /\ pcPlay' = "open"
BY DEF TypeOK, NextView, View

\* The sockets of the visualizers.
LEMMA InvViewSocket ==
  ASSUME IInv, UNCHANGED older, ViewSocket \/ ViewOnce PROVE IInv'
<1> USE DEF IInv
<1>1. mainPc = "socket" /\ pcCap = "none" /\ pcPlay = "none" /\ fd["server"] # -1
  BY DEF ViewSocket, ViewOnce, ThreadsJoined, HasServer
<1>2. UNCHANGED <<stop_streaming, device, inbox>> /\ view \in Sock
  BY DEF ViewSocket, ViewOnce, TypeOK, View, Sock
<1>3. peer' \in [Sock -> PeerState] /\ retries' \in {retries, max_retries}
  BY DEF ViewSocket, ViewOnce, TypeOK, PeerState
<1>4. /\ view' \in View /\ mainPc' \in MainPc \ {"connect", "close"}
      /\ mainPc' \in {"socket", "attempt", "exit"} => pcCap' = "none" /\ pcPlay' = "none"
      /\ mainPc' = "join" => pcCap' = "open" /\ pcPlay' = "open"
      /\ mainPc' = "attempt" => retries' = max_retries
      /\ mainPc' # "check"
  BY <1>1, NextViewType DEF ViewSocket, ViewOnce, TypeOK, MainPc
<1>5. CASE UNCHANGED <<fdTab, fd>>
  <2>1. TypeOK'
    BY <1>1, <1>2, <1>3, <1>4, <1>5, RetriesAssumption DEF TypeOK, CapPc, PlayPc, MainPc
  <2>2. Known'
    BY <1>1, <1>2, <1>4, <1>5, KnownFrame DEF Known, MainPc
  <2> QED
    BY <1>1, <1>4, <1>5, <2>1, <2>2, RetriesAssumption DEF ThreadsJoined, RetriesLeft, HasServer, OlderKeeps, Known
<1>6. ASSUME NEW n \in Fds, Opened(n, view), fd' = [fd EXCEPT ![view] = n] PROVE IInv'
  <2>1. Known' /\ fd' \in [Sock -> Fds \cup {-1}] /\ fdTab' \in [Fds -> Object \cup {"free"}]
    BY <1>1, <1>2, <1>4, <1>6, InvOpen DEF Known, MainPc
  <2>2. TypeOK'
    BY <1>1, <1>2, <1>3, <1>4, <2>1, RetriesAssumption DEF TypeOK, CapPc, PlayPc, MainPc
  <2>3. fd'["server"] # -1
    BY <1>1, <1>2, <1>6, FdsAssumption DEF TypeOK, Sock
  <2> QED
    BY <1>1, <1>4, <2>1, <2>2, <2>3, RetriesAssumption DEF ThreadsJoined, RetriesLeft, HasServer, OlderKeeps, Known
<1> QED
  BY <1>5, <1>6 DEF ViewSocket, ViewOnce

\* The connection attempts, and the descriptor that is forgotten after them.
LEMMA InvViewAttempt ==
  ASSUME IInv, UNCHANGED older, ViewAttempt \/ ViewCheck PROVE IInv'
<1> USE DEF IInv
<1>1. CASE ViewAttempt
  <2>1. mainPc = "attempt" /\ retries >= 0 /\ fd["server"] # -1 /\ pcCap = "none" /\ pcPlay = "none"
    BY <1>1 DEF ViewAttempt, RetriesLeft, HasServer, ThreadsJoined
  <2>2. UNCHANGED <<view, fd, stop_streaming, pcCap, pcPlay, device, fdTab, inbox>>
    BY <1>1 DEF ViewAttempt, threads
  <2>3. /\ peer' \in [Sock -> PeerState] /\ retries' \in -1 .. max_retries
        /\ mainPc' = "check" \/ (mainPc' = "attempt" /\ retries' >= 0)
    BY <1>1, <2>1, RetriesAssumption DEF ViewAttempt, TypeOK, PeerState
  <2>4. TypeOK'
    BY <2>2, <2>3 DEF TypeOK, MainPc
  <2> QED
    BY <2>1, <2>2, <2>3, <2>4, KnownFrame DEF ThreadsJoined, RetriesLeft, HasServer, OlderKeeps, Known
<1>2. CASE ViewCheck
  <2>1. mainPc = "check" /\ fd["server"] # -1 /\ pcCap = "none" /\ pcPlay = "none"
    BY <1>2 DEF ViewCheck, HasServer, ThreadsJoined
  <2>2. UNCHANGED <<older, retries, stop_streaming, device, fdTab, peer, inbox>>
    BY <1>2 DEF ViewCheck, kernel
  <2>3. /\ view' \in View /\ mainPc' \in {"socket", "join"}
        /\ mainPc' = "socket" => pcCap' = "none" /\ pcPlay' = "none"
        /\ mainPc' = "join" => pcCap' = "open" /\ pcPlay' = "open"
    BY <1>2, <2>1, NextViewType DEF ViewCheck
  <2>4. fd' \in [Sock -> Fds \cup {-1}] /\ \A s \in Sock : fd'[s] = fd[s] \/ (s = view /\ fd'[s] = -1)
    BY <1>2 DEF ViewCheck, TypeOK
  <2>5. TypeOK'
    BY <2>2, <2>3, <2>4 DEF TypeOK, MainPc, CapPc, PlayPc
  <2>6. fd'["server"] # -1
    BY <2>1, <2>4 DEF TypeOK, View, Sock
  <2>7. DeviceHeld'
    BY <2>1, <2>2, <2>3 DEF DeviceHeld
  <2>8. Distinct'
    BY <2>4 DEF Distinct
  <2>9. ServerKnown' /\ CapKnown' /\ PlayKnown'
    BY <2>1, <2>2, <2>3, <2>4 DEF ServerKnown, CapKnown, PlayKnown, Sock
  <2> QED
    BY <2>3, <2>5, <2>6, <2>7, <2>8, <2>9 DEF ThreadsJoined, RetriesLeft, HasServer, OlderKeeps
<1> QED
  BY <1>1, <1>2

-----------------------------------------------------------------------------
\* A thread's step within its loop, after which it still has what it had.
LEMMA InvCapStep ==
  ASSUME IInv, pcCap \in CapWorks, pcCap' \in CapWorks, stop_streaming' \in BOOLEAN,
         peer' \in [Sock -> PeerState],
         UNCHANGED <<older, mainPc, view, retries, fd, pcPlay, device, fdTab, inbox>>
  PROVE  IInv'
<1> USE DEF IInv
<1>1. TypeOK'
  BY DEF TypeOK, CapPc, CapWorks
<1>2. Known'
  BY KnownFrame DEF Known
<1> QED
  BY <1>1, <1>2 DEF ThreadsJoined, RetriesLeft, HasServer, OlderKeeps, Known, CapWorks

\* The playback thread goes from one call to the next.
LEMMA InvPlayStep ==
  ASSUME IInv, pcPlay \in PlayWorks, pcPlay' \in PlayWorks, stop_streaming' \in BOOLEAN,
         peer' \in [Sock -> PeerState], inbox' \in 0 .. MaxInbox,
         UNCHANGED <<older, mainPc, view, retries, fd, pcCap, device, fdTab>>
  PROVE  IInv'
<1> USE DEF IInv
<1>1. TypeOK'
  BY DEF TypeOK, PlayPc, PlayWorks
<1>2. Known'
  BY KnownFrame DEF Known
<1> QED
  BY <1>1, <1>2 DEF ThreadsJoined, RetriesLeft, HasServer, OlderKeeps, Known, PlayWorks

\* send() may change what is known of the other end.
LEMMA SendType ==
  ASSUME TypeOK, NEW s \in Sock, SendOk(s) \/ SendFails(s) PROVE peer' \in [Sock -> PeerState]
BY DEF TypeOK, SendOk, SendFails, PeerState

\* A thread opens its device on a number that is free: it may be one that the
\* other thread has closed.
LEMMA InvCapOpen == ASSUME IInv, UNCHANGED older, CapOpen PROVE IInv'
<1> USE DEF IInv
<1>1. pcCap = "open" /\ mainPc = "join"
  BY DEF CapOpen, ThreadsJoined, TypeOK, MainPc
<1>2. UNCHANGED <<older, mainPc, view, retries, fd, stop_streaming, pcPlay, peer, inbox>>
  BY DEF CapOpen
<1>3. CASE pcCap' = "done" /\ UNCHANGED <<fdTab, device>>
  <2>1. TypeOK'
    BY <1>2, <1>3 DEF TypeOK, CapPc
  <2>2. Known'
    BY <1>1, <1>2, <1>3, KnownFrame DEF Known
  <2> QED
    BY <1>1, <1>2, <1>3, <2>1, <2>2 DEF ThreadsJoined, RetriesLeft, HasServer, OlderKeeps, Known
<1>4. ASSUME NEW n \in Fds, Opened(n, "pcmCap"), device' = [device EXCEPT !["pcmCap"] = n],
             pcCap' = "read"
      PROVE  IInv'
  <2>1. fdTab[n] = "free" /\ fdTab' = [fdTab EXCEPT ![n] = "pcmCap"] /\ n # -1
    BY <1>4, FdsAssumption DEF Opened
  <2>2. TypeOK'
    BY <1>2, <1>4, <2>1 DEF TypeOK, CapPc, Object, Device
  <2>3. DeviceHeld'
    <3>1. device["pcmCap"] = -1 /\ "pcmCap" # "pcmPlay"
      BY <1>1 DEF DeviceHeld, TypeOK, Device
    <3>2. \A d \in Device, k \in Fds : fdTab'[k] = d <=> device'[d] = k
      BY <1>4, <2>1, <3>1, FdsAssumption DEF DeviceHeld, TypeOK, Device
    <3> QED
      BY <1>1, <1>2, <1>4, <2>1, <3>2 DEF DeviceHeld, TypeOK, Device
  <2>4. ServerKnown' /\ CapKnown' /\ PlayKnown'
    BY <1>1, <1>2, <1>4, <2>1 DEF ServerKnown, CapKnown, PlayKnown, TypeOK, Sock
  <2> QED
    BY <1>1, <1>2, <1>4, <2>2, <2>3, <2>4 DEF ThreadsJoined, RetriesLeft, HasServer, OlderKeeps, Distinct
<1> QED
  BY <1>3, <1>4 DEF CapOpen

\* The playback thread opens its device, as the capture thread does.
LEMMA InvPlayOpen == ASSUME IInv, UNCHANGED older, PlayOpen PROVE IInv'
<1> USE DEF IInv
<1>1. pcPlay = "open" /\ mainPc = "join"
  BY DEF PlayOpen, ThreadsJoined, TypeOK, MainPc
<1>2. UNCHANGED <<older, mainPc, view, retries, fd, stop_streaming, pcCap, peer, inbox>>
  BY DEF PlayOpen
<1>3. CASE pcPlay' = "done" /\ UNCHANGED <<fdTab, device>>
  <2>1. TypeOK'
    BY <1>2, <1>3 DEF TypeOK, PlayPc
  <2>2. Known'
    BY <1>1, <1>2, <1>3, KnownFrame DEF Known
  <2> QED
    BY <1>1, <1>2, <1>3, <2>1, <2>2 DEF ThreadsJoined, RetriesLeft, HasServer, OlderKeeps, Known
<1>4. ASSUME NEW n \in Fds, Opened(n, "pcmPlay"), device' = [device EXCEPT !["pcmPlay"] = n],
             pcPlay' = "loop"
      PROVE  IInv'
  <2>1. fdTab[n] = "free" /\ fdTab' = [fdTab EXCEPT ![n] = "pcmPlay"] /\ n # -1
    BY <1>4, FdsAssumption DEF Opened
  <2>2. TypeOK'
    BY <1>2, <1>4, <2>1 DEF TypeOK, PlayPc, Object, Device
  <2>3. DeviceHeld'
    <3>1. device["pcmPlay"] = -1 /\ "pcmCap" # "pcmPlay"
      BY <1>1 DEF DeviceHeld, TypeOK, Device
    <3>2. \A d \in Device, k \in Fds : fdTab'[k] = d <=> device'[d] = k
      BY <1>4, <2>1, <3>1, FdsAssumption DEF DeviceHeld, TypeOK, Device
    <3> QED
      BY <1>1, <1>2, <1>4, <2>1, <3>2 DEF DeviceHeld, TypeOK, Device
  <2>4. ServerKnown' /\ CapKnown' /\ PlayKnown'
    BY <1>1, <1>2, <1>4, <2>1 DEF ServerKnown, CapKnown, PlayKnown, TypeOK, Sock
  <2> QED
    BY <1>1, <1>2, <1>4, <2>2, <2>3, <2>4 DEF ThreadsJoined, RetriesLeft, HasServer, OlderKeeps, Distinct
<1> QED
  BY <1>3, <1>4 DEF PlayOpen

\* audio_cap closes its device, the relay's socket and its visualizer's, and
\* hits nothing else.
LEMMA InvCapClose == ASSUME IInv, UNCHANGED older, CapClose PROVE IInv'
<1> USE FdsAssumption DEF IInv
<1>1. UNCHANGED <<older, mainPc, view, retries, fd, stop_streaming, pcPlay, peer, inbox>>
  BY DEF CapClose, CapClosing
<1>2. /\ pcCap \in {"pcm", "sock", "local"} /\ pcCap' \in {"sock", "local", "done"}
      /\ mainPc = "join" /\ fdTab' \in [Fds -> Object \cup {"free"}]
      /\ device' \in [Device -> Fds \cup {-1}]
  BY DEF CapClose, CapClosing, Closed, ThreadsJoined, TypeOK, MainPc
<1>3. TypeOK' /\ ThreadsJoined' /\ RetriesLeft' /\ HasServer' /\ Distinct'
  BY <1>1, <1>2 DEF TypeOK, CapPc, ThreadsJoined, RetriesLeft, HasServer, Distinct
<1>4. CASE pcCap = "pcm"
  <2>1. /\ fdTab' = [n \in Fds |-> IF n = device["pcmCap"] THEN "free" ELSE fdTab[n]]
        /\ device' = [device EXCEPT !["pcmCap"] = -1]
        /\ pcCap' = IF older THEN "local" ELSE "sock"
    BY <1>4 DEF CapClose, CapClosing, Closed
  <2>2. device["pcmCap"] \in Fds /\ fdTab[device["pcmCap"]] = "pcmCap"
    BY <1>4 DEF DeviceHeld, TypeOK, Device
  <2>3. DeviceHeld'
    BY <1>1, <1>4, <2>1, <2>2 DEF DeviceHeld, TypeOK, Device
  <2>4. ServerKnown' /\ CapKnown' /\ PlayKnown'
    BY <1>1, <1>2, <1>4, <2>1, <2>2 DEF ServerKnown, CapKnown, PlayKnown, TypeOK, Sock
  <2> QED
    BY <1>3, <2>1, <2>3, <2>4 DEF OlderKeeps
<1>5. CASE pcCap = "sock"
  <2>1. /\ fdTab' = [n \in Fds |-> IF n = fd["server"] THEN "free" ELSE fdTab[n]]
        /\ device' = device /\ pcCap' = "local"
    BY <1>5 DEF CapClose, CapClosing, Closed
  <2>2. ~older
    BY <1>5 DEF OlderKeeps
  <2>3. fd["server"] \in Fds /\ fdTab[fd["server"]] = "server"
    BY <1>2, <1>5 DEF ServerKnown, HasServer, TypeOK, Sock
  <2>4. DeviceHeld'
    BY <1>1, <1>5, <2>1, <2>3 DEF DeviceHeld, TypeOK, Device
  <2>5. ServerKnown' /\ CapKnown' /\ PlayKnown'
    BY <1>1, <1>2, <1>5, <2>1, <2>2, <2>3 DEF ServerKnown, CapKnown, PlayKnown, TypeOK, Sock, Distinct
  <2> QED
    BY <1>3, <2>1, <2>4, <2>5 DEF OlderKeeps
<1>6. CASE pcCap = "local"
  <2>1. /\ fdTab' = [n \in Fds |-> IF n = fd["cap"] THEN "free" ELSE fdTab[n]]
        /\ device' = device /\ pcCap' = "done"
    BY <1>6 DEF CapClose, CapClosing, Closed
  <2>2. fd["cap"] = -1 \/ (fd["cap"] \in Fds /\ fdTab[fd["cap"]] = "cap")
    BY <1>6 DEF CapKnown, TypeOK, Sock
  <2>3. DeviceHeld'
    BY <1>1, <1>6, <2>1, <2>2 DEF DeviceHeld, TypeOK, Device
  <2>4. ServerKnown' /\ CapKnown' /\ PlayKnown'
    BY <1>1, <1>2, <1>6, <2>1, <2>2 DEF ServerKnown, CapKnown, PlayKnown, TypeOK, Sock, Distinct
  <2> QED
    BY <1>3, <2>1, <2>3, <2>4 DEF OlderKeeps
<1> QED
  BY <1>2, <1>4, <1>5, <1>6

\* play_audio closes its device and its visualizer's socket.
LEMMA InvPlayClose == ASSUME IInv, UNCHANGED older, PlayClose PROVE IInv'
<1> USE FdsAssumption DEF IInv
<1>1. UNCHANGED <<older, mainPc, view, retries, fd, stop_streaming, pcCap, peer, inbox>>
  BY DEF PlayClose, PlayClosing
<1>2. /\ pcPlay \in {"pcm", "local"} /\ pcPlay' \in {"local", "done"}
      /\ mainPc = "join" /\ fdTab' \in [Fds -> Object \cup {"free"}]
      /\ device' \in [Device -> Fds \cup {-1}]
  BY DEF PlayClose, PlayClosing, Closed, ThreadsJoined, TypeOK, MainPc
<1>3. TypeOK' /\ ThreadsJoined' /\ RetriesLeft' /\ HasServer' /\ OlderKeeps' /\ Distinct'
  BY <1>1, <1>2 DEF TypeOK, PlayPc, ThreadsJoined, RetriesLeft, HasServer, OlderKeeps, Distinct
<1>4. CASE pcPlay = "pcm"
  <2>1. /\ fdTab' = [n \in Fds |-> IF n = device["pcmPlay"] THEN "free" ELSE fdTab[n]]
        /\ device' = [device EXCEPT !["pcmPlay"] = -1]
        /\ pcPlay' = "local"
    BY <1>4 DEF PlayClose, PlayClosing, Closed
  <2>2. device["pcmPlay"] \in Fds /\ fdTab[device["pcmPlay"]] = "pcmPlay"
    BY <1>4 DEF DeviceHeld, TypeOK, Device
  <2>3. DeviceHeld'
    BY <1>1, <1>4, <2>1, <2>2 DEF DeviceHeld, TypeOK, Device
  <2>4. ServerKnown' /\ CapKnown' /\ PlayKnown'
    BY <1>1, <1>2, <1>4, <2>1, <2>2 DEF ServerKnown, CapKnown, PlayKnown, TypeOK, Sock
  <2> QED
    BY <1>3, <2>3, <2>4
<1>5. CASE pcPlay = "local"
  <2>1. /\ fdTab' = [n \in Fds |-> IF n = fd["play"] THEN "free" ELSE fdTab[n]]
        /\ device' = device /\ pcPlay' = "done"
    BY <1>5 DEF PlayClose, PlayClosing, Closed
  <2>2. fd["play"] = -1 \/ (fd["play"] \in Fds /\ fdTab[fd["play"]] = "play")
    BY <1>5 DEF PlayKnown, TypeOK, Sock
  <2>3. DeviceHeld'
    BY <1>1, <1>5, <2>1, <2>2 DEF DeviceHeld, TypeOK, Device
  <2>4. ServerKnown' /\ CapKnown' /\ PlayKnown'
    BY <1>1, <1>2, <1>5, <2>1, <2>2 DEF ServerKnown, CapKnown, PlayKnown, TypeOK, Sock, Distinct
  <2> QED
    BY <1>3, <2>3, <2>4
<1> QED
  BY <1>2, <1>4, <1>5

\* audio_cap and play_audio.
LEMMA InvThreads == ASSUME IInv, Run(audio_cap) \/ Run(play_audio) PROVE IInv'
<1> USE DEF IInv
<1>1. UNCHANGED older
  BY DEF Run
<1>2. CASE CapRead
  BY <1>1, <1>2, InvCapStep DEF CapRead, CapWorks, TypeOK, kernel
<1>3. CASE CapSend \/ CapView
  <2>1. peer' \in [Sock -> PeerState]
    BY <1>3, SendType DEF CapSend, CapView, Sock
  <2> QED
    BY <1>1, <1>3, <2>1, InvCapStep DEF CapSend, CapView, CapWorks, TypeOK
<1>4. CASE PlayLoop \/ PlayEnd \/ PlayWrite
  BY <1>1, <1>4, InvPlayStep DEF PlayLoop, PlayEnd, PlayWrite, PlayStops, PlayWorks, TypeOK, kernel
<1>5. CASE PlayRecv
  BY <1>1, <1>5, InvPlayStep, InboxAssumption DEF PlayRecv, PlayWorks, TypeOK
<1>6. CASE PlayView
  <2>1. peer' \in [Sock -> PeerState]
    BY <1>6, SendType DEF PlayView, Sock
  <2> QED
    BY <1>1, <1>6, <2>1, InvPlayStep DEF PlayView, PlayStops, PlayWorks, TypeOK
<1> QED
  BY <1>1, <1>2, <1>3, <1>4, <1>5, <1>6, InvCapOpen, InvPlayOpen, InvCapClose, InvPlayClose
     DEF Run, audio_cap, play_audio

\* main() after the threads: the devices are closed, so what it closes is its
\* own or was closed before.
LEMMA InvClose ==
  ASSUME IInv, UNCHANGED older, JoinThreads \/ (~older /\ CloseAll) \/ (older /\ CloseServer) PROVE IInv'
<1> USE FdsAssumption DEF IInv
<1>1. CASE JoinThreads
  BY <1>1, KnownFrame
     DEF JoinThreads, threads, kernel, TypeOK, MainPc, ThreadsJoined, RetriesLeft, HasServer, OlderKeeps, Known
<1>2. CASE (~older /\ CloseAll) \/ (older /\ CloseServer)
  <2> DEFINE S == IF older THEN {fd["server"]} ELSE {fd[s] : s \in Sock}
  <2>1. /\ mainPc = "close" /\ mainPc' = "exit" /\ pcCap = "done" /\ pcPlay = "done"
        /\ UNCHANGED <<view, retries, fd, stop_streaming, pcCap, pcPlay, device, peer, inbox>>
    BY <1>2 DEF CloseAll, CloseServer, threads, ThreadsJoined
  <2>2. fdTab' = [n \in Fds |-> IF n \in S THEN "free" ELSE fdTab[n]]
    BY <1>2 DEF CloseAll, CloseServer, Closed
  <2>3. \A n \in Fds : fdTab[n] \notin Device
    BY <2>1 DEF DeviceHeld, Device
  <2>4. device["pcmCap"] = -1 /\ device["pcmPlay"] = -1
    BY <2>1 DEF DeviceHeld
  <2>5. TypeOK'
    BY <2>1, <2>2 DEF TypeOK, MainPc
  <2>6. DeviceHeld'
    BY <2>1, <2>2, <2>3, <2>4 DEF DeviceHeld, Device
  <2>7. ServerKnown' /\ CapKnown' /\ PlayKnown'
    BY <2>1, <2>2 DEF ServerKnown, CapKnown, PlayKnown, TypeOK, Sock
  <2> QED
    BY <2>1, <2>5, <2>6, <2>7 DEF ThreadsJoined, RetriesLeft, HasServer, OlderKeeps, Distinct
<1> QED
  BY <1>1, <1>2

\* Every step keeps the invariant.
LEMMA InvNext == IInv /\ [Next]_vars => IInv'
<1> SUFFICES ASSUME IInv, [Next]_vars PROVE IInv'
  OBVIOUS
<1>1. CASE UNCHANGED vars
  BY <1>1 DEF vars, threads, kernel, IInv, TypeOK, ThreadsJoined, RetriesLeft, HasServer, OlderKeeps, DeviceHeld,
              Distinct, ServerKnown, CapKnown, PlayKnown
<1>2. CASE Main
  BY <1>2, InvConnect, InvViewSocket, InvViewAttempt, InvClose DEF Main, Run, main, main2
<1> QED
  BY <1>1, <1>2, InvThreads, InvPeers DEF Next

\* The invariant: who has which descriptor, and what its number stands for.
THEOREM ClientInductive == Spec => []IInv
BY InvInit, InvNext, PTL DEF Spec

\* Every variable has the type TypeOK gives it, the countdowns included.
THEOREM ClientTypes == Spec => []TypeOK
<1>1. IInv => TypeOK
  BY DEF IInv
<1> QED
  BY <1>1, ClientInductive, PTL

\* No close() of a thread or of main() hits a descriptor that stands for
\* something else by then (TCPSC.cpp:157-160, 234-236, 337-343;
\* TCPclient2.cpp:306-311), however many numbers the process may use.
THEOREM ClientNoForeignClose == Spec => []NoForeignClose
<1>1. IInv => NoForeignClose
  <2> SUFFICES ASSUME IInv PROVE NoForeignClose
    OBVIOUS
  <2> USE DEF IInv
  <2>1. pcCap \in {"pcm", "sock", "local"} \/ pcPlay \in {"pcm", "local"} => mainPc = "join"
    BY DEF ThreadsJoined, TypeOK, MainPc
  <2>2. pcCap = "sock" => fdTab[fd["server"]] \in {"server", "free"}
    BY <2>1 DEF ServerKnown, HasServer
  <2>3. /\ pcCap = "local" /\ fd["cap"] # -1 => fdTab[fd["cap"]] \in {"cap", "free"}
        /\ pcPlay = "local" /\ fd["play"] # -1 => fdTab[fd["play"]] \in {"play", "free"}
    BY DEF CapKnown, PlayKnown
  <2>4. /\ pcCap = "pcm" => fdTab[device["pcmCap"]] = "pcmCap"
        /\ pcPlay = "pcm" => fdTab[device["pcmPlay"]] = "pcmPlay"
    BY DEF DeviceHeld, TypeOK, Device
  <2>5. ASSUME mainPc = "close", NEW s \in Sock, fd[s] # -1 PROVE fdTab[fd[s]] \in {s, "free"}
    <3>1. fd[s] \in Fds /\ \A n \in Fds : fdTab[n] \notin Device
      BY <2>5, FdsAssumption DEF TypeOK, DeviceHeld, ThreadsJoined, Device
    <3> QED
      BY <2>5, <3>1 DEF ServerKnown, CapKnown, PlayKnown, Sock, Device
  <2> QED
    BY <2>2, <2>3, <2>4, <2>5 DEF NoForeignClose
<1> QED
  BY <1>1, ClientInductive, PTL

\* In TCPclient2.cpp the relay's socket outlives both threads (305-306).
THEOREM ClientJoinBeforeClose == Spec => []JoinBeforeClose
<1>1. IInv => JoinBeforeClose
  BY DEF IInv, ServerKnown, JoinBeforeClose
<1> QED
  BY <1>1, ClientInductive, PTL
=============================================================================
