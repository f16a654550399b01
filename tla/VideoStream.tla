------------------------------ MODULE VideoStream ------------------------------
(***************************************************************************)
(* The video path of Online_AV/Online_AV.cpp: VideoRecandSend cuts a frame *)
(* into fragments and sends each in a datagram of its own; VideoPlayback   *)
(* collects fragments by frame number, and looks whether a frame is        *)
(* complete when its last fragment comes in.                               *)
(*                                                                         *)
(* All threads of a node receive on one socket, so VideoPlayback also gets *)
(* audio packets and HELLOs, and reads them as fragments; what another     *)
(* thread takes is lost for it, as is what the network loses.  One         *)
(* receiver is modelled.                                                   *)
(*                                                                         *)
(* A datagram is the record that VideoPlayback reads it as, with two tags  *)
(* that no code reads: `from`, the sending process and the frame's size,   *)
(* and `copy`, which tells the copies of a duplicated datagram apart.      *)
(***************************************************************************)
EXTENDS Integers, FiniteSets

CONSTANTS
  Sender,           \* the peers that send
  max_fragment_s,   \* bytes of a frame that fit into a fragment
  FrameSizes,       \* the sizes of encoded frames
  MaxFrames,        \* bound: frames, and audio packets, that a process sends
  MaxRuns,          \* bound: times that a sender is started
  Copies,           \* bound: copies of a datagram
  MaxNet,           \* bound: datagrams on their way
  MaxForeign,       \* bound: audio packets and HELLOs that come together
  AudioWords,       \* what the first eight bytes of sound may be, as a number
  MaxMishaps        \* bound: how many kinds of mishap one behaviour has

ASSUME SizeAssumption == max_fragment_s \in Nat \ {0} /\ FrameSizes \subseteq Nat \ {0}
ASSUME AudioAssumption == AudioWords \subseteq Nat
\* The camera's frames have one resolution, so that one of them is the largest.
ASSUME LargestAssumption == \E s \in FrameSizes : \A t \in FrameSizes : t <= s
ASSUME BoundAssumption ==
  MaxFrames \in Nat /\ MaxRuns \in Nat \ {0} /\ Copies \in Nat \ {0}
  /\ MaxNet \in Nat /\ MaxForeign \in Nat /\ MaxMishaps \in Nat

VARIABLES
  run,                \* how often a sender was started before
  frame_seq,          \* VideoRecandSend's frame number
  enc_frame,          \* the size of the frame it is sending, 0 between frames
  fragment_i,         \* the fragment it sends next
  sequence,           \* AudioRecAndSend's sequence number
  net,                \* datagrams on their way, the socket's queue included
  fragment_buffer,    \* VideoPlayback's map, as the set of all its fragments
  reassembled_frame,  \* the fragments of the frame it decoded last
  alive,              \* the receiver's process has not come to grief
  mishaps             \* history: what has gone wrong so far

sender == <<run, frame_seq, enc_frame, fragment_i, sequence>>
receiver == <<fragment_buffer, reassembled_frame, alive>>
vars == <<sender, net, receiver, mishaps>>

\* "mixed": under one frame number, fragments of two frames have come together,
\* or a fragment and a datagram that is none.
Mishap == {"lost", "reordered", "duplicated", "mixed", "restarted"}

HELL == 1280066888    \* the first four bytes of "HELLO", as a frame number

total_fragments(size) == (size + max_fragment_s - 1) \div max_fragment_s

MaxTotal == total_fragments(CHOOSE s \in FrameSizes : \A t \in FrameSizes : t <= s)

Datagram ==
  [from : [peer : Sender, run : 0 .. MaxRuns - 1, kind : {"video", "audio", "hello"},
           size : FrameSizes \cup {0}],
   frame_seq : (0 .. MaxFrames) \cup {HELL}, fragment_i : Nat,
   total_fragments : 0 .. MaxTotal, last_fragment : BOOLEAN,
   fragment_s : (0 .. max_fragment_s) \cup AudioWords, copy : 1 .. Copies]

(***************************************************************************)
(* The type invariant.                                                     *)
(***************************************************************************)
TypeOK ==
  /\ run \in [Sender -> 0 .. MaxRuns - 1]
  /\ frame_seq \in [Sender -> 0 .. MaxFrames]
  /\ enc_frame \in [Sender -> FrameSizes \cup {0}]
  /\ fragment_i \in [Sender -> 0 .. MaxTotal]
  /\ sequence \in [Sender -> 0 .. MaxFrames]
  /\ net \subseteq Datagram
  /\ fragment_buffer \subseteq Datagram /\ reassembled_frame \subseteq Datagram
  /\ alive \in BOOLEAN
  /\ mishaps \subseteq Mishap

Init ==
  /\ run = [p \in Sender |-> 0]
  /\ frame_seq = [p \in Sender |-> 0]
  /\ enc_frame = [p \in Sender |-> 0]
  /\ fragment_i = [p \in Sender |-> 0]
  /\ sequence = [p \in Sender |-> 0]
  /\ net = {} /\ fragment_buffer = {} /\ reassembled_frame = {}
  /\ alive = TRUE
  /\ mishaps = {}

\* What an action adds to the history, within the bound.
Happens(S) == mishaps' = mishaps \cup S /\ Cardinality(mishaps') <= MaxMishaps

-----------------------------------------------------------------------------
(***************************************************************************)
(* VideoRecandSend.                                                        *)
(***************************************************************************)
MinOf(a, b) == IF a < b THEN a ELSE b

\* cap.read and imencode succeed.
Capture(p) ==
  /\ enc_frame[p] = 0 /\ frame_seq[p] < MaxFrames
  /\ \E size \in FrameSizes : enc_frame' = [enc_frame EXCEPT ![p] = size]
  /\ UNCHANGED <<run, frame_seq, fragment_i, sequence, net, receiver, mishaps>>

Fragment(p) ==
  LET size == enc_frame[p]
      i == fragment_i[p]
  IN [from |-> [peer |-> p, run |-> run[p], kind |-> "video", size |-> size],
      frame_seq |-> frame_seq[p], fragment_i |-> i,
      total_fragments |-> total_fragments(size),
      last_fragment |-> i = total_fragments(size) - 1,
      fragment_s |-> MinOf(max_fragment_s, size - i * max_fragment_s), copy |-> 1]

\* A mutant: the index is not set back for the next frame.
SendNoReset(p) ==
  /\ enc_frame[p] # 0
  /\ Cardinality(net) < MaxNet /\ net' = net \cup {Fragment(p)}
  /\ fragment_i' = [fragment_i EXCEPT ![p] = @ + 1]
  /\ IF Fragment(p).last_fragment
     THEN /\ enc_frame' = [enc_frame EXCEPT ![p] = 0]
          /\ frame_seq' = [frame_seq EXCEPT ![p] = @ + 1]
     ELSE UNCHANGED <<enc_frame, frame_seq>>
  /\ UNCHANGED <<run, sequence, receiver, mishaps>>

\* One round of the loop over the fragments; after the last one comes
\* frame_seq++ and the next frame.
SendFragment(p) ==
  /\ enc_frame[p] # 0
  /\ Cardinality(net) < MaxNet /\ net' = net \cup {Fragment(p)}
  /\ IF Fragment(p).last_fragment
     THEN /\ enc_frame' = [enc_frame EXCEPT ![p] = 0]
          /\ fragment_i' = [fragment_i EXCEPT ![p] = 0]
          /\ frame_seq' = [frame_seq EXCEPT ![p] = @ + 1]
     ELSE /\ fragment_i' = [fragment_i EXCEPT ![p] = @ + 1]
          /\ UNCHANGED <<enc_frame, frame_seq>>
  /\ UNCHANGED <<run, sequence, receiver, mishaps>>

VideoRecandSend(p) == Capture(p) \/ SendFragment(p)

-----------------------------------------------------------------------------
(***************************************************************************)
(* The other senders of a node.                                            *)
(***************************************************************************)
\* An audio packet or a HELLO, as the fragment that VideoPlayback reads it as;
\* `word` lies where a fragment has its size.
Foreign(p, kind, seq, i, word) ==
  [from |-> [peer |-> p, run |-> run[p], kind |-> kind, size |-> 0],
   frame_seq |-> seq, fragment_i |-> i, total_fragments |-> 0,
   last_fragment |-> FALSE, fragment_s |-> word, copy |-> 1]

SendForeign(d) ==
  /\ d \notin net \cup fragment_buffer
  /\ Cardinality({e \in net \cup fragment_buffer : e.from.kind # "video"}) < MaxForeign
  /\ Cardinality(net) < MaxNet /\ net' = net \cup {d}
  /\ UNCHANGED <<run, frame_seq, enc_frame, fragment_i, receiver, mishaps>>

\* The packet's sequence number lies where a fragment has its frame number;
\* the padding after it and the timestamp, which is never set, are 0, and the
\* first of the sound lies where a fragment has its size.
AudioRecAndSend(p) ==
  /\ sequence[p] < MaxFrames
  /\ \E word \in AudioWords : SendForeign(Foreign(p, "audio", sequence[p], 0, word))
  /\ sequence' = [sequence EXCEPT ![p] = @ + 1]

\* Five bytes: the fragment's other fields keep the 0 they were set to.
sendHELLO(p) == SendForeign(Foreign(p, "hello", HELL, 79, 0)) /\ UNCHANGED sequence

\* The sender's program ends and is started anew.
Restart(p) ==
  /\ run[p] < MaxRuns - 1
  /\ run' = [run EXCEPT ![p] = @ + 1]
  /\ frame_seq' = [frame_seq EXCEPT ![p] = 0]
  /\ enc_frame' = [enc_frame EXCEPT ![p] = 0]
  /\ fragment_i' = [fragment_i EXCEPT ![p] = 0]
  /\ sequence' = [sequence EXCEPT ![p] = 0]
  /\ Happens({"restarted"})
  /\ UNCHANGED <<net, receiver>>

-----------------------------------------------------------------------------
(***************************************************************************)
(* The network.                                                            *)
(***************************************************************************)
\* Lost on the way, or taken by another thread of the receiver.
Lose ==
  /\ \E d \in net : net' = net \ {d} /\ Happens(IF d.from.kind = "video" THEN {"lost"} ELSE {})
  /\ UNCHANGED <<sender, receiver>>

Duplicate ==
  /\ \E d \in net, c \in 2 .. Copies :
       /\ d.from.kind = "video" /\ d.copy = 1
       /\ [d EXCEPT !.copy = c] \notin net \cup fragment_buffer
       /\ Cardinality(net) < MaxNet /\ net' = net \cup {[d EXCEPT !.copy = c]}
  /\ Happens({"duplicated"})
  /\ UNCHANGED <<sender, receiver>>

\* e was sent before d.
Before(e, d) ==
  /\ e.from.peer = d.from.peer /\ e.from.kind = "video" /\ d.from.kind = "video"
  /\ \/ e.from.run < d.from.run
     \/ /\ e.from.run = d.from.run
        /\ \/ e.frame_seq < d.frame_seq
           \/ e.frame_seq = d.frame_seq /\ e.fragment_i < d.fragment_i

-----------------------------------------------------------------------------
(***************************************************************************)
(* VideoPlayback: one datagram received, put into the map and, if it says  *)
(* that it is the last of its frame, counted.                              *)
(***************************************************************************)
Bucket(buffer, seq) == {f \in buffer : f.frame_seq = seq}

\* A mutant: the fragments are counted before the new one is added.
CompleteBefore(d, bucket) == d.last_fragment /\ Cardinality(bucket) = d.total_fragments + 1

\* A mutant: the last fragment is enough.
LastArrived(d, bucket) == d.last_fragment

Complete(d, bucket) == d.last_fragment /\ Cardinality(bucket) = d.total_fragments

\* How d goes wrong.
Overtakes(d) == IF \E e \in net : Before(e, d) THEN {"reordered"} ELSE {}
Mixes(bucket) == IF \E f, g \in bucket : f.from # g.from THEN {"mixed"} ELSE {}

\* The fragment is put into the map, and its frame waits for others.
Collect(d, buffer, bucket) ==
  /\ ~Complete(d, bucket)
  /\ fragment_buffer' = buffer /\ UNCHANGED <<reassembled_frame, alive>>

\* The fragments are put together, and leave the map.
Reform(d, buffer, bucket) ==
  /\ Complete(d, bucket)
  /\ reassembled_frame' = bucket /\ fragment_buffer' = buffer \ bucket /\ UNCHANGED alive

\* Reading beyond the end of Fdata is undefined: it may yield whatever is there,
\* which is Reform, or end the process.
ReformFails(d, bucket) ==
  /\ Complete(d, bucket) /\ \E f \in bucket : f.fragment_s > max_fragment_s
  /\ alive' = FALSE /\ fragment_buffer' = {} /\ UNCHANGED reassembled_frame

VideoPlayback ==
  \E d \in net :
    LET buffer == fragment_buffer \cup {d}
        bucket == Bucket(buffer, d.frame_seq)
    IN /\ alive /\ net' = net \ {d}
       /\ Collect(d, buffer, bucket) \/ Reform(d, buffer, bucket) \/ ReformFails(d, bucket)
       /\ Happens(Overtakes(d) \cup Mixes(bucket))
       /\ UNCHANGED sender

Next ==
  \/ \E p \in Sender :
       VideoRecandSend(p) \/ AudioRecAndSend(p) \/ sendHELLO(p) \/ Restart(p)
  \/ Lose \/ Duplicate \/ VideoPlayback

Spec == Init /\ [][Next]_vars

\* Threads run; a datagram that is not lost is received.
FairSpec == Spec /\ WF_vars(VideoPlayback) /\ \A p \in Sender : WF_vars(SendFragment(p))

-----------------------------------------------------------------------------
(***************************************************************************)
(* Properties.                                                             *)
(***************************************************************************)
\* S is every fragment of one frame, once, and their bytes are the frame's.
Whole(S) ==
  /\ \A f, g \in S : f.from = g.from /\ (f.fragment_i = g.fragment_i => f = g)
  /\ \A f \in S :
       /\ f.from.kind = "video"
       /\ \A i \in 0 .. f.total_fragments - 1 : \E g \in S : g.fragment_i = i
       /\ IF f.last_fragment
          THEN f.fragment_i * max_fragment_s + f.fragment_s = f.from.size
          ELSE f.fragment_s = max_fragment_s

\* The fragments come from one process, without copies and other datagrams.
Pure(S) == \A f, g \in S : f.from.peer = g.from.peer /\ f.from.run = g.from.run
                           /\ f.from.kind = "video" /\ f.copy = g.copy

\* A frame that is decoded is whole whatever was lost or came in another order
\* (Online_AV.cpp:254-266), if what was collected under its number came from
\* one run of one peer: the count stands for the set of the indices.
PureIsWhole == Pure(reassembled_frame) => Whole(reassembled_frame)

\* Every fragment of the frame that f belongs to is in the map.
AllCollected(f) ==
  /\ f.from.kind = "video"
  /\ \A i \in 0 .. f.total_fragments - 1 :
       \E g \in fragment_buffer :
         g.from = f.from /\ g.frame_seq = f.frame_seq /\ g.fragment_i = i

\* If no datagram overtakes another or is duplicated, and nothing else came under
\* a frame's number (an audio packet, a frame of an earlier run or of another
\* peer), then a frame whose fragments have all come has left the map, whatever
\* was lost and however often the sender was restarted (Online_AV.cpp:254-280):
\* the count when the last fragment comes is not misled by what is left of frames
\* that lost a fragment.
CompleteIsShown ==
  mishaps \cap {"reordered", "duplicated", "mixed"} = {} =>
    \A f \in fragment_buffer : ~AllCollected(f)

\* Without a mishap every frame that is captured is decoded, whatever its size
\* (Online_AV.cpp:172-197, 250-256).
FramesShown ==
  \A p \in Sender, k \in 0 .. MaxFrames - 1 :
    (enc_frame[p] # 0 /\ frame_seq[p] = k)
      ~> (mishaps # {} \/ \E f \in reassembled_frame : f.from.peer = p /\ f.frame_seq = k)

\* Online_AV.cpp:258, "Re-form frame": what is decoded is one frame, whole.
ShownWhole == Whole(reassembled_frame)
=============================================================================
