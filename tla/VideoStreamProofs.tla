-------------------------- MODULE VideoStreamProofs --------------------------
(***************************************************************************)
(* Theorems about the video path of Online_AV, for any number of peers,    *)
(* any frame sizes and any fragment size, and any number of mishaps.       *)
(*                                                                         *)
(* A fragment says where it stands in its sender's stream: (run, frame,    *)
(* index).  What the invariant says of the datagrams rests on that: what   *)
(* has been sent lies before the sender's own position, and, while nothing *)
(* overtakes, what has been received before what is on its way.            *)
(***************************************************************************)
EXTENDS VideoStream, FiniteSetTheorems, FunctionTheorems, TLAPS

Received == fragment_buffer \cup reassembled_frame
Datagrams == net \cup Received

\* The loop over the fragments stands at one of the frame.
SenderSound ==
  \A p \in Sender :
    IF enc_frame[p] = 0 THEN fragment_i[p] = 0
    ELSE fragment_i[p] < total_fragments(enc_frame[p]) /\ frame_seq[p] < MaxFrames

\* A fragment is what VideoRecandSend cut, and nothing else says it is the last.
FragmentSound(d) ==
  IF d.from.kind = "video"
  THEN /\ d.from.size \in FrameSizes
       /\ d.total_fragments = total_fragments(d.from.size)
       /\ d.fragment_i < d.total_fragments
       /\ d.last_fragment <=> d.fragment_i = d.total_fragments - 1
       /\ d.fragment_s = IF d.last_fragment THEN d.from.size - d.fragment_i * max_fragment_s
                         ELSE max_fragment_s
  ELSE ~d.last_fragment

Sound == \A d \in Datagrams : FragmentSound(d)

\* Whatever was sent lies before the position of its sender.
SentBefore ==
  \A d \in Datagrams : d.from.kind = "video" =>
    LET p == d.from.peer
    IN  \/ d.from.run < run[p]
        \/ /\ d.from.run = run[p]
           /\ \/ d.frame_seq < frame_seq[p]
              \/ /\ d.frame_seq = frame_seq[p]
                 /\ d.from.size = enc_frame[p] /\ d.fragment_i < fragment_i[p]

\* One frame number of a process stands for one frame.
OneFrame(d, e) ==
  (/\ d.from.kind = "video" /\ e.from.kind = "video" /\ d.from.peer = e.from.peer
   /\ d.from.run = e.from.run /\ d.frame_seq = e.frame_seq) => d.from.size = e.from.size

SameSize == \A d, e \in Datagrams : OneFrame(d, e)

SingleCopies == "duplicated" \notin mishaps => \A d \in Datagrams : d.copy = 1

InOrder == "reordered" \notin mishaps => \A e \in net, d \in Received : ~Before(e, d)

Fresh == "duplicated" \notin mishaps => \A e \in net : e.from.kind = "video" => e \notin Received

\* What was decoded last was counted when a last fragment came.
LastShown ==
  reassembled_frame # {} =>
    /\ IsFiniteSet(reassembled_frame)
    /\ \E d \in reassembled_frame :
         /\ d.last_fragment /\ Cardinality(reassembled_frame) = d.total_fragments
         /\ \A f \in reassembled_frame : f.frame_seq = d.frame_seq
         /\ "mixed" \notin mishaps => \A f \in reassembled_frame : f.from = d.from

\* Without a mixture all that came under one number is of one frame.
Unmixed ==
  "mixed" \notin mishaps =>
    \A f, g \in fragment_buffer : f.frame_seq = g.frame_seq => f.from = g.from

Facts == Sound /\ SentBefore /\ SameSize /\ SingleCopies /\ InOrder /\ Fresh

Collected == IsFiniteSet(fragment_buffer) /\ LastShown /\ Unmixed /\ CompleteIsShown

IInv == TypeOK /\ SenderSound /\ Facts /\ Collected

-----------------------------------------------------------------------------
(***************************************************************************)
(* The arithmetic of the fragments.                                        *)
(***************************************************************************)

\* Quotients, as the other lemmas use them.
LEMMA Quotient ==
  ASSUME NEW a \in Nat, NEW m \in Nat \ {0}
  PROVE  a \div m \in Nat /\ (a \div m) * m <= a /\ a < (a \div m) * m + m
<1> DEFINE q == a \div m
           r == a % m
<1>1. q \in Int /\ r \in 0 .. m - 1 /\ a = m * q + r
  OBVIOUS
<1> QED
  BY <1>1

\* Two indices that differ lie a fragment's size apart.
LEMMA Apart ==
  ASSUME NEW m \in Nat \ {0}, NEW i \in Nat, NEW j \in Nat, i < j
  PROVE  i * m + m <= j * m
OBVIOUS

\* A frame's fragments reach as far as the frame, and all but the last fall
\* short of its end.
LEMMA Parts ==
  ASSUME NEW size \in FrameSizes
  PROVE  /\ size \in Nat \ {0} /\ total_fragments(size) \in Nat \ {0}
         /\ (total_fragments(size) - 1) * max_fragment_s < size
         /\ size <= total_fragments(size) * max_fragment_s
<1> DEFINE m == max_fragment_s
           a == size + m - 1
           q == a \div m
<1>1. size \in Nat \ {0} /\ m \in Nat \ {0}
  BY SizeAssumption
<1>2. a \in Nat
  BY <1>1
<1>3. q \in Nat /\ q * m <= a /\ a < q * m + m
  <2> HIDE DEF a, m
  <2> QED
    BY <1>1, <1>2, Quotient
<1>4. total_fragments(size) = q
  BY DEF total_fragments
<1>5. q * m \in Int /\ (q - 1) * m = q * m - m
  <2> HIDE DEF q, m
  <2> QED
    BY <1>1, <1>3
<1>6. q # 0
  <2>1. 0 * m = 0
    BY <1>1
  <2> HIDE DEF q, m
  <2> QED
    BY <1>1, <1>3, <2>1 DEF a
<1> HIDE DEF q, m
<1> QED
  BY <1>1, <1>3, <1>4, <1>5, <1>6 DEF a, m

\* No frame has more fragments than the largest.
LEMMA Largest ==
  /\ MaxTotal \in Nat
  /\ \A size \in FrameSizes : total_fragments(size) <= MaxTotal
<1> DEFINE big == CHOOSE s \in FrameSizes : \A t \in FrameSizes : t <= s
           m == max_fragment_s
<1>1. big \in FrameSizes /\ \A t \in FrameSizes : t <= big
  BY LargestAssumption
<1>2. MaxTotal = total_fragments(big)
  BY DEF MaxTotal
<1> HIDE DEF big
<1>3. MaxTotal \in Nat
  BY <1>1, <1>2, Parts
<1>4. ASSUME NEW size \in FrameSizes PROVE total_fragments(size) <= MaxTotal
  <2> DEFINE S == total_fragments(size)
             T == total_fragments(big)
  <2>1. /\ S \in Nat /\ (S - 1) * m < size /\ size <= big /\ big <= T * m /\ T \in Nat
        /\ size \in Nat /\ big \in Nat /\ m \in Nat \ {0} /\ S - 1 \in Nat
    BY <1>1, Parts, SizeAssumption
  <2> HIDE DEF S, T, m
  <2>2. ASSUME T < S PROVE FALSE
    <3>1. T = S - 1 \/ T < S - 1
      BY <2>1, <2>2
    <3>2. CASE T = S - 1
      BY <2>1, <3>2
    <3>3. CASE T < S - 1
      <4> DEFINE x == T * m
                 y == (S - 1) * m
      <4>1. x + m <= y
        BY <2>1, <3>3, Apart
      <4>2. x \in Nat /\ y \in Nat /\ y < size /\ size <= big /\ big <= x
        BY <2>1
      <4> HIDE DEF x, y
      <4> QED
        BY <2>1, <4>1, <4>2
    <3> QED
      BY <3>1, <3>2, <3>3
  <2> QED
    BY <1>2, <2>1, <2>2 DEF S, T
<1> QED
  BY <1>3, <1>4

\* What VideoRecandSend puts into fragment i of a frame: a full fragment, but for
\* the last, which takes what is left.
LEMMA Piece ==
  ASSUME NEW size \in FrameSizes, NEW i \in Nat, i < total_fragments(size)
  PROVE  LET rest == size - i * max_fragment_s
         IN  /\ MinOf(max_fragment_s, rest) = IF i = total_fragments(size) - 1 THEN rest
                                              ELSE max_fragment_s
             /\ MinOf(max_fragment_s, rest) \in 0 .. max_fragment_s
<1> DEFINE m == max_fragment_s
           T == total_fragments(size)
           x == i * m
           y == (T - 1) * m
<1>1. /\ size \in Nat /\ T \in Nat \ {0} /\ m \in Nat \ {0} /\ y < size
      /\ size <= T * m /\ i < T
  BY Parts, SizeAssumption
<1> HIDE DEF T, m
<1>2. x \in Nat /\ y \in Nat /\ T * m = y + m
  BY <1>1
<1>3. i = T - 1 => x = y
  OBVIOUS
<1>4. i # T - 1 => x + m <= y
  BY <1>1, Apart
<1> HIDE DEF x, y
<1>5. /\ MinOf(m, size - x) = IF i = T - 1 THEN size - x ELSE m
      /\ MinOf(m, size - x) \in 0 .. m
  BY <1>1, <1>2, <1>3, <1>4 DEF MinOf
<1> QED
  BY <1>5 DEF m, T, x

-----------------------------------------------------------------------------
(***************************************************************************)
(* Datagrams.                                                              *)
(***************************************************************************)

\* The fields of a datagram.
LEMMA Fields ==
  ASSUME NEW d \in Datagram
  PROVE  /\ d.from.peer \in Sender /\ d.from.run \in Nat /\ d.frame_seq \in Nat
         /\ d.from.kind \in {"video", "audio", "hello"}
         /\ d.fragment_i \in Nat /\ d.total_fragments \in Nat /\ d.last_fragment \in BOOLEAN
         /\ d.fragment_s \in Nat
<1>1. MaxRuns \in Nat /\ MaxFrames \in Nat /\ MaxTotal \in Nat /\ max_fragment_s \in Nat
  BY BoundAssumption, SizeAssumption, Largest
<1>2. /\ d.from.peer \in Sender /\ d.from.run \in Nat /\ d.from.kind \in {"video", "audio", "hello"}
      /\ d.fragment_i \in Nat /\ d.last_fragment \in BOOLEAN
  BY <1>1 DEF Datagram
<1>3. d.frame_seq \in Nat /\ d.total_fragments \in Nat
  BY <1>1 DEF Datagram, HELL
<1>4. d.fragment_s \in Nat
  <2>1. d.fragment_s \in (0 .. max_fragment_s) \cup AudioWords
    BY DEF Datagram
  <2>2. \A x \in AudioWords : x \in Nat
    BY AudioAssumption, Zenon
  <2>3. \A x \in 0 .. max_fragment_s : x \in Nat
    BY <1>1
  <2> QED
    BY <2>1, <2>2, <2>3, Zenon
<1> QED
  BY <1>2, <1>3, <1>4

\* A fragment is known by its place, but for copies of it.
LEMMA PlaceUnique ==
  ASSUME NEW d \in Datagram, NEW e \in Datagram, FragmentSound(d), FragmentSound(e),
         d.from.kind = "video", d.from = e.from, d.frame_seq = e.frame_seq,
         d.fragment_i = e.fragment_i, d.copy = e.copy
  PROVE  d = e
<1>1. d.total_fragments = e.total_fragments
  BY DEF FragmentSound
<1>2. d.last_fragment = e.last_fragment
  BY <1>1, Fields DEF FragmentSound
<1>3. d.fragment_s = e.fragment_s
  BY <1>2 DEF FragmentSound
<1> QED
  BY <1>1, <1>2, <1>3 DEF Datagram

\* The tag `from` is made of a process, a kind and a size.
LEMMA FromUnique ==
  ASSUME NEW d \in Datagram, NEW e \in Datagram, d.from.peer = e.from.peer,
         d.from.run = e.from.run, d.from.kind = e.from.kind, d.from.size = e.from.size
  PROVE  d.from = e.from
BY DEF Datagram

\* Two fragments of one peer have an order, or stand at one place.
LEMMA Placed ==
  ASSUME NEW d \in Datagram, NEW e \in Datagram,
         d.from.kind = "video", e.from.kind = "video", d.from.peer = e.from.peer
  PROVE  \/ Before(d, e) \/ Before(e, d)
         \/ d.from.run = e.from.run /\ d.frame_seq = e.frame_seq /\ d.fragment_i = e.fragment_i
BY Fields DEF Before

\* The fragment that VideoRecandSend sends next.
LEMMA NextFragment ==
  ASSUME TypeOK, SenderSound, NEW p \in Sender, enc_frame[p] # 0
  PROVE  Fragment(p) \in Datagram /\ FragmentSound(Fragment(p))
<1> DEFINE size == enc_frame[p]
           i == fragment_i[p]
           T == total_fragments(size)
           s == MinOf(max_fragment_s, size - i * max_fragment_s)
<1>1. size \in FrameSizes /\ i \in Nat /\ i < T /\ run[p] \in 0 .. MaxRuns - 1
      /\ frame_seq[p] \in 0 .. MaxFrames
  BY Largest DEF TypeOK, SenderSound
<1>2. T \in Nat \ {0} /\ T <= MaxTotal /\ MaxTotal \in Nat
  BY <1>1, Parts, Largest
<1>3. s \in 0 .. max_fragment_s
      /\ s = IF i = T - 1 THEN size - i * max_fragment_s ELSE max_fragment_s
  BY <1>1, Piece
<1>4. 1 \in 1 .. Copies
  BY BoundAssumption
<1>5. Fragment(p) =
        [from |-> [peer |-> p, run |-> run[p], kind |-> "video", size |-> size],
         frame_seq |-> frame_seq[p], fragment_i |-> i, total_fragments |-> T,
         last_fragment |-> i = T - 1, fragment_s |-> s, copy |-> 1]
  BY DEF Fragment
<1> HIDE DEF size, i, T, s
<1>6. (i = T - 1) \in BOOLEAN /\ T \in 0 .. MaxTotal
  BY <1>1, <1>2
<1>7. Fragment(p) \in Datagram
  BY <1>1, <1>3, <1>4, <1>5, <1>6 DEF Datagram
<1>8. FragmentSound(Fragment(p))
  <2>1. T = total_fragments(size)
    BY DEF T
  <2> DEFINE d == Fragment(p)
  <2>2. /\ d.from.kind = "video" /\ d.from.size = size /\ d.fragment_i = i
        /\ d.total_fragments = T /\ d.fragment_s = s /\ d.last_fragment = (i = T - 1)
    BY <1>5
  <2> HIDE DEF d
  <2>3. d.last_fragment <=> i = T - 1
    BY <2>2
  <2>4. d.fragment_s = IF d.last_fragment THEN size - i * max_fragment_s ELSE max_fragment_s
    BY <1>3, <2>2, <2>3
  <2>5. FragmentSound(d)
    BY <1>1, <2>1, <2>2, <2>3, <2>4 DEF FragmentSound
  <2> QED
    BY <2>5 DEF d
<1> QED
  BY <1>7, <1>8

\* An audio packet or a HELLO, read as a fragment.
LEMMA ForeignDatagram ==
  ASSUME TypeOK, NEW p \in Sender, NEW kind \in {"audio", "hello"},
         NEW seq \in (0 .. MaxFrames) \cup {HELL}, NEW i \in Nat, NEW word \in AudioWords \cup {0}
  PROVE  Foreign(p, kind, seq, i, word) \in Datagram
BY BoundAssumption, SizeAssumption, Largest DEF Foreign, Datagram, TypeOK

\* A second copy of a datagram differs in its tag only.
LEMMA CopyOf ==
  ASSUME NEW d \in Datagram, NEW c \in 1 .. Copies
  PROVE  LET e == [d EXCEPT !.copy = c]
         IN  /\ e \in Datagram /\ e.from = d.from /\ e.frame_seq = d.frame_seq
             /\ e.fragment_i = d.fragment_i /\ e.total_fragments = d.total_fragments
             /\ e.last_fragment = d.last_fragment /\ e.fragment_s = d.fragment_s
BY DEF Datagram

-----------------------------------------------------------------------------
(***************************************************************************)
(* Types, and the position of the senders.                                 *)
(***************************************************************************)

\* The types and the sender's loop at the start.
LEMMA TypeInit == Init => TypeOK /\ SenderSound
BY BoundAssumption, Largest DEF Init, TypeOK, SenderSound

\* VideoRecandSend keeps its types and its place in the frame.
LEMMA TypeSender ==
  ASSUME TypeOK, SenderSound, NEW p \in Sender, VideoRecandSend(p)
  PROVE  TypeOK' /\ SenderSound'
<1>1. CASE Capture(p)
  <2>1. PICK size \in FrameSizes : enc_frame' = [enc_frame EXCEPT ![p] = size]
    BY <1>1 DEF Capture
  <2>2. TypeOK'
    BY <1>1, <2>1 DEF Capture, TypeOK, receiver
  <2>3. enc_frame[p] = 0 /\ frame_seq[p] < MaxFrames /\ UNCHANGED <<frame_seq, fragment_i>>
    BY <1>1 DEF Capture
  <2>4. total_fragments(size) \in Nat \ {0} /\ size # 0
    BY Parts, SizeAssumption
  <2>5. enc_frame'[p] = size /\ \A e \in Sender : e # p => enc_frame'[e] = enc_frame[e]
    BY <2>1 DEF TypeOK
  <2>6. SenderSound'
    BY <2>3, <2>4, <2>5 DEF SenderSound
  <2> QED
    BY <2>2, <2>6
<1>2. CASE SendFragment(p)
  <2>1. /\ enc_frame[p] # 0 /\ net' = net \cup {Fragment(p)}
        /\ UNCHANGED <<run, sequence, fragment_buffer, reassembled_frame, alive, mishaps>>
    BY <1>2 DEF SendFragment, receiver
  <2> DEFINE T == total_fragments(enc_frame[p])
  <2>2. Fragment(p) \in Datagram
    BY <2>1, NextFragment
  <2>3. /\ enc_frame[p] \in FrameSizes /\ fragment_i[p] \in Nat /\ fragment_i[p] < T
        /\ frame_seq[p] \in Nat /\ frame_seq[p] < MaxFrames /\ T \in Nat /\ T <= MaxTotal
        /\ MaxTotal \in Nat /\ MaxFrames \in Nat
    BY <2>1, Parts, Largest, BoundAssumption DEF TypeOK, SenderSound
  <2>4. Fragment(p).last_fragment <=> fragment_i[p] = T - 1
    BY DEF Fragment
  <2>5. CASE Fragment(p).last_fragment
    <3>1. /\ enc_frame' = [enc_frame EXCEPT ![p] = 0] /\ fragment_i' = [fragment_i EXCEPT ![p] = 0]
          /\ frame_seq' = [frame_seq EXCEPT ![p] = frame_seq[p] + 1]
      BY <1>2, <2>5 DEF SendFragment
    <3>2. TypeOK'
      BY <2>1, <2>2, <2>3, <3>1 DEF TypeOK
    <3>3. SenderSound'
      BY <3>1 DEF SenderSound, TypeOK
    <3> QED
      BY <3>2, <3>3
  <2>6. CASE ~Fragment(p).last_fragment
    <3>1. /\ fragment_i' = [fragment_i EXCEPT ![p] = fragment_i[p] + 1]
          /\ UNCHANGED <<enc_frame, frame_seq>>
      BY <1>2, <2>6 DEF SendFragment
    <3>2. fragment_i[p] + 1 < T
      BY <2>3, <2>4, <2>6
    <3>3. TypeOK'
      BY <2>1, <2>2, <2>3, <3>1, <3>2 DEF TypeOK
    <3>4. fragment_i'[p] = fragment_i[p] + 1 /\ \A e \in Sender : e # p => fragment_i'[e] = fragment_i[e]
      BY <3>1 DEF TypeOK
    <3>5. SenderSound'
      BY <2>1, <3>1, <3>2, <3>4 DEF SenderSound
    <3> QED
      BY <3>3, <3>5
  <2> QED
    BY <2>5, <2>6
<1> QED
  BY <1>1, <1>2 DEF VideoRecandSend

\* So does every other step.
LEMMA TypeOther ==
  ASSUME TypeOK, SenderSound,
         \/ \E p \in Sender : AudioRecAndSend(p) \/ sendHELLO(p) \/ Restart(p)
         \/ Lose \/ Duplicate \/ VideoPlayback \/ UNCHANGED vars
  PROVE  TypeOK' /\ SenderSound'
<1>1. ASSUME NEW p \in Sender, AudioRecAndSend(p) PROVE TypeOK' /\ SenderSound'
  <2>1. \A word \in AudioWords : Foreign(p, "audio", sequence[p], 0, word) \in Datagram
    BY ForeignDatagram DEF TypeOK
  <2>2. sequence' \in [Sender -> 0 .. MaxFrames]
    BY <1>1, BoundAssumption DEF AudioRecAndSend, TypeOK
  <2>3. TypeOK'
    BY <1>1, <2>1, <2>2 DEF AudioRecAndSend, SendForeign, TypeOK, receiver
  <2> QED
    BY <1>1, <2>3 DEF AudioRecAndSend, SendForeign, SenderSound
<1>2. ASSUME NEW p \in Sender, sendHELLO(p) PROVE TypeOK' /\ SenderSound'
  <2>1. Foreign(p, "hello", HELL, 79, 0) \in Datagram
    BY ForeignDatagram
  <2>2. TypeOK'
    BY <1>2, <2>1 DEF sendHELLO, SendForeign, TypeOK, receiver
  <2> QED
    BY <1>2, <2>2 DEF sendHELLO, SendForeign, SenderSound
<1>3. ASSUME NEW p \in Sender, Restart(p) PROVE TypeOK' /\ SenderSound'
  <2>1. run[p] + 1 \in 0 .. MaxRuns - 1
    BY <1>3, BoundAssumption DEF Restart, TypeOK
  <2>2. mishaps' \subseteq Mishap
    BY <1>3 DEF Restart, Happens, Mishap, TypeOK
  <2>3. run' = [run EXCEPT ![p] = run[p] + 1]
    BY <1>3 DEF Restart
  <2>4. run' \in [Sender -> 0 .. MaxRuns - 1]
    BY <2>1, <2>3 DEF TypeOK
  <2>5. 0 \in 0 .. MaxFrames /\ 0 \in 0 .. MaxTotal
    BY BoundAssumption, Largest
  <2>6. TypeOK'
    BY <1>3, <2>2, <2>4, <2>5 DEF Restart, TypeOK, receiver
  <2> QED
    BY <1>3, <2>6 DEF Restart, SenderSound, TypeOK
<1>4. CASE Lose
  BY <1>4 DEF Lose, Happens, Mishap, TypeOK, sender, receiver, SenderSound
<1>5. CASE Duplicate
  <2>1. PICK d \in net, c \in 2 .. Copies : net' = net \cup {[d EXCEPT !.copy = c]}
    BY <1>5 DEF Duplicate
  <2>2. d \in Datagram /\ c \in 1 .. Copies
    BY BoundAssumption DEF TypeOK
  <2>3. [d EXCEPT !.copy = c] \in Datagram
    BY <2>2, CopyOf
  <2>4. UNCHANGED <<sender, receiver>> /\ mishaps' \subseteq Mishap
    BY <1>5 DEF Duplicate, Happens, Mishap, TypeOK
  <2> QED
    BY <2>1, <2>3, <2>4 DEF TypeOK, SenderSound, sender, receiver
<1>6. CASE VideoPlayback
  <2>1. PICK d \in net :
          LET buffer == fragment_buffer \cup {d}
              bucket == Bucket(buffer, d.frame_seq)
          IN /\ net' = net \ {d}
             /\ reassembled_frame' \in {bucket, reassembled_frame}
             /\ fragment_buffer' \in {buffer, buffer \ bucket, {}} /\ alive' \in BOOLEAN
             /\ Happens(Overtakes(d) \cup Mixes(bucket))
             /\ UNCHANGED sender
    BY <1>6 DEF VideoPlayback, Collect, Reform, ReformFails, TypeOK
  <2>2. mishaps' \subseteq Mishap
    BY <2>1 DEF Happens, Overtakes, Mixes, Mishap, TypeOK
  <2>3. reassembled_frame' \subseteq Datagram /\ fragment_buffer' \subseteq Datagram
    BY <2>1 DEF Bucket, TypeOK
  <2> QED
    BY <2>1, <2>2, <2>3 DEF TypeOK, SenderSound, sender
<1>7. CASE UNCHANGED vars
  BY <1>7 DEF TypeOK, SenderSound, vars, sender, receiver
<1> QED
  BY <1>1, <1>2, <1>3, <1>4, <1>5, <1>6, <1>7

-----------------------------------------------------------------------------
(***************************************************************************)
(* What is sent and lost.  VideoPlayback's own variables do not change.    *)
(***************************************************************************)

\* What was collected stays as it is, and the mishaps are not forgotten.
LEMMA CollectedKept ==
  ASSUME Collected, UNCHANGED receiver, mishaps \subseteq mishaps'
  PROVE  Collected'
BY DEF Collected, LastShown, Unmixed, CompleteIsShown, AllCollected, receiver

\* Datagrams that are no fragments come, datagrams go, the senders stand still.
LEMMA FactsForeign ==
  ASSUME Facts, NEW N,
         \A n \in N : n.from.kind # "video" /\ ~n.last_fragment /\ n.copy = 1,
         net' \subseteq net \cup N, UNCHANGED <<run, frame_seq, enc_frame, fragment_i, receiver>>,
         mishaps \subseteq mishaps'
  PROVE  Facts'
<1> USE DEF Facts
<1>1. Received' = Received /\ Datagrams' \subseteq Datagrams \cup N
  BY DEF Received, Datagrams, receiver
<1>2. Sound'
  BY <1>1 DEF Sound, FragmentSound
<1>3. SentBefore'
  BY <1>1 DEF SentBefore
<1>4. SameSize'
  BY <1>1 DEF SameSize, OneFrame
<1>5. SingleCopies'
  BY <1>1 DEF SingleCopies
<1>6. InOrder'
  BY <1>1 DEF InOrder, Before
<1>7. Fresh'
  BY <1>1 DEF Fresh
<1> QED
  BY <1>2, <1>3, <1>4, <1>5, <1>6, <1>7

\* The program starts anew: whatever it sent before lies in an earlier run.
LEMMA FactsRestart ==
  ASSUME TypeOK, Facts, NEW p \in Sender, Restart(p)
  PROVE  Facts'
<1> USE DEF Facts
<1>1. /\ UNCHANGED <<net, fragment_buffer, reassembled_frame>> /\ mishaps \subseteq mishaps'
      /\ run' = [run EXCEPT ![p] = run[p] + 1] /\ frame_seq' = [frame_seq EXCEPT ![p] = 0]
      /\ enc_frame' = [enc_frame EXCEPT ![p] = 0] /\ fragment_i' = [fragment_i EXCEPT ![p] = 0]
  BY DEF Restart, Happens, receiver
<1>2. UNCHANGED <<Received, Datagrams>>
  BY <1>1 DEF Received, Datagrams
<1>3. SentBefore'
  <2> SUFFICES ASSUME NEW d \in Datagrams, d.from.kind = "video", NEW q, q = d.from.peer
               PROVE  \/ d.from.run < run'[q]
                      \/ /\ d.from.run = run'[q]
                         /\ \/ d.frame_seq < frame_seq'[q]
                            \/ /\ d.frame_seq = frame_seq'[q]
                               /\ d.from.size = enc_frame'[q] /\ d.fragment_i < fragment_i'[q]
    BY <1>2 DEF SentBefore
  <2>1. d \in Datagram
    BY DEF Datagrams, Received, TypeOK
  <2>2. q \in Sender /\ d.from.run \in Nat /\ run[q] \in Nat
    BY <2>1, Fields, BoundAssumption DEF TypeOK
  <2>3. \/ d.from.run < run[q]
        \/ /\ d.from.run = run[q]
           /\ \/ d.frame_seq < frame_seq[q]
              \/ /\ d.frame_seq = frame_seq[q]
                 /\ d.from.size = enc_frame[q] /\ d.fragment_i < fragment_i[q]
    BY DEF SentBefore
  <2>4. CASE q = p
    <3>1. run'[q] = run[q] + 1
      BY <1>1, <2>4 DEF TypeOK
    <3> QED
      BY <2>2, <2>3, <3>1
  <2>5. CASE q # p
    BY <1>1, <2>2, <2>3, <2>5 DEF TypeOK
  <2> QED
    BY <2>4, <2>5
<1>4. Sound' /\ SameSize' /\ SingleCopies' /\ InOrder' /\ Fresh'
  BY <1>1, <1>2 DEF Sound, SameSize, SingleCopies, InOrder, Fresh
<1> QED
  BY <1>3, <1>4

\* A copy of a fragment stands where the fragment does.
LEMMA FactsDuplicate == ASSUME TypeOK, Facts, Duplicate PROVE Facts'
<1> USE DEF Facts
<1>1. PICK d \in net, c \in 2 .. Copies : net' = net \cup {[d EXCEPT !.copy = c]}
  BY DEF Duplicate
<1>2. /\ UNCHANGED <<run, frame_seq, enc_frame, fragment_i, fragment_buffer, reassembled_frame>>
      /\ mishaps' = mishaps \cup {"duplicated"}
  BY DEF Duplicate, Happens, sender, receiver
<1> DEFINE e == [d EXCEPT !.copy = c]
<1>3. /\ e.from = d.from /\ e.frame_seq = d.frame_seq /\ e.fragment_i = d.fragment_i
      /\ e.total_fragments = d.total_fragments /\ e.last_fragment = d.last_fragment
      /\ e.fragment_s = d.fragment_s
  <2>1. d \in Datagram /\ c \in 1 .. Copies
    BY BoundAssumption DEF TypeOK
  <2> QED
    BY <2>1, CopyOf
<1>4. net' = net \cup {e}
  BY <1>1
<1> HIDE DEF e
<1>5. Received' = Received /\ Datagrams' = Datagrams \cup {e} /\ d \in Datagrams
  BY <1>2, <1>4 DEF Received, Datagrams
<1>6. Sound'
  <2>1. FragmentSound(d)
    BY <1>5 DEF Sound
  <2>2. FragmentSound(e)
    BY <1>3, <2>1 DEF FragmentSound
  <2> QED
    BY <1>5, <2>2 DEF Sound
<1>7. SentBefore'
  BY <1>2, <1>3, <1>5 DEF SentBefore
<1>8. SameSize'
  BY <1>3, <1>5 DEF SameSize, OneFrame
<1>9. SingleCopies' /\ Fresh'
  BY <1>2 DEF SingleCopies, Fresh
<1>10. InOrder'
  <2>1. \A g : Before(e, g) <=> Before(d, g)
    BY <1>3 DEF Before
  <2> QED
    BY <1>2, <1>4, <1>5, <2>1 DEF InOrder
<1> QED
  BY <1>6, <1>7, <1>8, <1>9, <1>10

\* A new fragment lies after everything that its sender sent before.
LEMMA FactsSend ==
  ASSUME TypeOK, SenderSound, Facts, NEW p \in Sender, SendFragment(p)
  PROVE  Facts'
<1> USE DEF Facts
<1>1. /\ enc_frame[p] # 0 /\ net' = net \cup {Fragment(p)}
      /\ UNCHANGED <<run, fragment_buffer, reassembled_frame, mishaps>>
  BY DEF SendFragment, receiver
<1>2. Fragment(p) \in Datagram /\ FragmentSound(Fragment(p))
  BY <1>1, NextFragment
<1>3. PICK e : e = Fragment(p)
  OBVIOUS
<1>4. /\ e \in Datagram /\ FragmentSound(e) /\ e.from.kind = "video" /\ e.from.peer = p
      /\ e.from.run = run[p] /\ e.frame_seq = frame_seq[p] /\ e.from.size = enc_frame[p]
      /\ e.fragment_i = fragment_i[p] /\ e.copy = 1
  BY <1>2, <1>3 DEF Fragment
<1>5. Received' = Received /\ Datagrams' = Datagrams \cup {e} /\ net' = net \cup {e}
  BY <1>1, <1>3 DEF Received, Datagrams
<1>6. \A d \in Datagrams : d \in Datagram
  BY DEF Datagrams, Received, TypeOK
<1>7. ASSUME NEW d \in Datagrams, d.from.kind = "video", d.from.peer = p
      PROVE  /\ d # e /\ ~Before(e, d) /\ OneFrame(d, e) /\ OneFrame(e, d)
             /\ \/ d.from.run < run[p]
                \/ /\ d.from.run = run[p]
                   /\ \/ d.frame_seq < frame_seq[p]
                      \/ /\ d.frame_seq = frame_seq[p] /\ d.from.size = enc_frame[p]
                         /\ d.fragment_i < fragment_i[p]
  <2>1. /\ d.from.run \in Nat /\ d.frame_seq \in Nat /\ d.fragment_i \in Nat
        /\ e.from.run \in Nat /\ e.frame_seq \in Nat /\ e.fragment_i \in Nat
    BY <1>4, <1>6, Fields
  <2>2. \/ d.from.run < e.from.run
        \/ /\ d.from.run = e.from.run
           /\ \/ d.frame_seq < e.frame_seq
              \/ /\ d.frame_seq = e.frame_seq /\ d.from.size = e.from.size
                 /\ d.fragment_i < e.fragment_i
    BY <1>4, <1>7 DEF SentBefore
  <2>3. d # e /\ ~Before(e, d)
    BY <2>1, <2>2 DEF Before
  <2>4. OneFrame(d, e) /\ OneFrame(e, d)
    BY <2>1, <2>2 DEF OneFrame
  <2> QED
    BY <1>4, <2>2, <2>3, <2>4
<1>8. Sound'
  BY <1>4, <1>5 DEF Sound
<1>9. SentBefore'
  <2>1. \A q \in Sender \ {p} : /\ frame_seq'[q] = frame_seq[q] /\ enc_frame'[q] = enc_frame[q]
                              /\ fragment_i'[q] = fragment_i[q]
    BY DEF SendFragment, TypeOK
  <2>2. \/ frame_seq'[p] = frame_seq[p] + 1
        \/ /\ frame_seq'[p] = frame_seq[p] /\ enc_frame'[p] = enc_frame[p]
           /\ fragment_i'[p] = fragment_i[p] + 1
    BY DEF SendFragment, TypeOK
  <2>3. /\ frame_seq[p] \in Nat /\ fragment_i[p] \in Nat
        /\ \A d \in Datagrams' : d.frame_seq \in Nat /\ d.fragment_i \in Nat /\ d.from.peer \in Sender
    BY <1>4, <1>5, <1>6, Fields
  <2>4. ASSUME NEW d \in Datagrams', d.from.kind = "video", d.from.peer = p
        PROVE  \/ d.from.run < run[p]
               \/ /\ d.from.run = run[p]
                  /\ \/ d.frame_seq < frame_seq'[p]
                     \/ /\ d.frame_seq = frame_seq'[p] /\ d.from.size = enc_frame'[p]
                        /\ d.fragment_i < fragment_i'[p]
    <3>1. CASE d = e
      BY <1>4, <2>2, <2>3, <3>1
    <3>2. CASE d \in Datagrams
      BY <1>7, <2>2, <2>3, <2>4, <3>2
    <3> QED
      BY <1>5, <2>4, <3>1, <3>2
  <2>5. ASSUME NEW d \in Datagrams', d.from.kind = "video", d.from.peer # p
        PROVE  LET q == d.from.peer
               IN  \/ d.from.run < run[q]
                   \/ /\ d.from.run = run[q]
                      /\ \/ d.frame_seq < frame_seq'[q]
                         \/ /\ d.frame_seq = frame_seq'[q] /\ d.from.size = enc_frame'[q]
                            /\ d.fragment_i < fragment_i'[q]
    <3>1. d \in Datagrams /\ d.from.peer \in Sender \ {p}
      BY <1>4, <1>5, <2>3, <2>5
    <3> QED
      BY <2>1, <2>5, <3>1 DEF SentBefore
  <2> QED
    BY <1>1, <2>4, <2>5 DEF SentBefore
<1>10. SameSize'
  <2>1. \A d \in Datagrams : OneFrame(d, e) /\ OneFrame(e, d)
    BY <1>4, <1>7 DEF OneFrame
  <2> QED
    BY <1>5, <2>1 DEF SameSize, OneFrame
<1>11. SingleCopies'
  BY <1>1, <1>4, <1>5 DEF SingleCopies
<1>12. InOrder'
  <2>1. \A d \in Received : ~Before(e, d)
    BY <1>4, <1>7 DEF Before, Datagrams
  <2> QED
    BY <1>1, <1>5, <2>1 DEF InOrder
<1>13. Fresh'
  <2>1. e \notin Received
    BY <1>4, <1>7 DEF Datagrams
  <2> QED
    BY <1>1, <1>5, <2>1 DEF Fresh
<1> QED
  BY <1>8, <1>9, <1>10, <1>11, <1>12, <1>13

-----------------------------------------------------------------------------
(***************************************************************************)
(* What is received.                                                       *)
(***************************************************************************)

\* Fragments of one frame of T fragments, no two of one index, are T of them
\* just when every index is there: it is enough to count them.
LEMMA Counting ==
  ASSUME NEW S, IsFiniteSet(S), NEW T \in Nat, \A f \in S : f.fragment_i \in 0 .. T - 1,
         \A f, g \in S : f.fragment_i = g.fragment_i => f = g
  PROVE  Cardinality(S) = T <=> \A i \in 0 .. T - 1 : \E g \in S : g.fragment_i = i
<1> DEFINE I == 0 .. T - 1
           index == [f \in S |-> f.fragment_i]
<1>1. IsFiniteSet(I) /\ Cardinality(I) = T
  BY FS_Interval
<1>2. index \in [S -> I] /\ \A f, g \in S : index[f] = index[g] => f = g
  OBVIOUS
<1>3. (\A i \in I : \E g \in S : g.fragment_i = i) <=> \A i \in I : \E g \in S : index[g] = i
  OBVIOUS
<1> HIDE DEF I, index
<1>4. index \in Injection(S, I)
  BY <1>2 DEF Injection, IsInjective
<1>5. Cardinality(S) = Cardinality(I) <=> index \in Surjection(S, I)
  BY <1>1, <1>4, FS_Injection
<1>6. index \in Surjection(S, I) <=> \A i \in I : \E g \in S : index[g] = i
  BY <1>2 DEF Surjection
<1> QED
  BY <1>1, <1>3, <1>5, <1>6 DEF I

\* A frame is all there when as many single fragments of it are.
LEMMA FrameCounted ==
  ASSUME NEW S \in SUBSET Datagram, IsFiniteSet(S), NEW d \in S, d.from.kind = "video",
         \A f \in S : FragmentSound(f) /\ f.from = d.from /\ f.frame_seq = d.frame_seq
                     /\ f.copy = d.copy,
         \A i \in 0 .. d.total_fragments - 1 : \E g \in S : g.fragment_i = i
  PROVE  /\ Cardinality(S) = d.total_fragments
         /\ \E g \in S : g.fragment_i = d.total_fragments - 1
<1>1. \A f, g \in S : f.fragment_i = g.fragment_i => f = g
  BY PlaceUnique
<1>2. \A f \in S : f.total_fragments = d.total_fragments
  BY DEF FragmentSound
<1>3. d.total_fragments \in Nat /\ \A f \in S : f.fragment_i \in 0 .. d.total_fragments - 1
  BY <1>2, Fields DEF FragmentSound
<1>4. Cardinality(S) = d.total_fragments
  BY <1>1, <1>3, Counting
<1>5. d.total_fragments - 1 \in 0 .. d.total_fragments - 1
  <2>1. d.fragment_i \in 0 .. d.total_fragments - 1
    BY <1>3
  <2> QED
    BY <1>3, <2>1
<1> QED
  BY <1>4, <1>5

\* What VideoPlayback does with the datagram d.
Receives(d, bucket) ==
  /\ net' = net \ {d}
  /\ \/ /\ Complete(d, bucket)
        /\ reassembled_frame' = bucket /\ fragment_buffer' = (fragment_buffer \cup {d}) \ bucket
     \/ /\ ~Complete(d, bucket)
        /\ fragment_buffer' = fragment_buffer \cup {d} /\ UNCHANGED reassembled_frame
     \/ fragment_buffer' = {} /\ UNCHANGED reassembled_frame
  /\ mishaps' = mishaps \cup Overtakes(d) \cup Mixes(bucket)
  /\ UNCHANGED sender

\* VideoPlayback receives one of the datagrams on their way.
LEMMA Playback ==
  ASSUME VideoPlayback
  PROVE  \E d \in net : \E bucket :
           bucket = Bucket(fragment_buffer \cup {d}, d.frame_seq) /\ Receives(d, bucket)
BY DEF VideoPlayback, Collect, Reform, ReformFails, Receives, Happens

\* The datagram goes from those on their way to those received.
LEMMA FactsPlayback ==
  ASSUME Facts, NEW d \in net, NEW bucket,
         bucket = Bucket(fragment_buffer \cup {d}, d.frame_seq), Receives(d, bucket)
  PROVE  Facts'
<1> USE DEF Facts
<1>1. /\ net' = net \ {d} /\ mishaps' = mishaps \cup Overtakes(d) \cup Mixes(bucket)
      /\ UNCHANGED <<run, frame_seq, enc_frame, fragment_i>>
  BY DEF Receives, sender
<1>2. bucket \subseteq fragment_buffer \cup {d}
  BY DEF Bucket
<1>3. Received' \subseteq Received \cup {d}
  BY <1>2 DEF Receives, Received
<1>4. Datagrams' \subseteq Datagrams
  BY <1>1, <1>3 DEF Datagrams
<1>5. Sound' /\ SentBefore' /\ SameSize' /\ SingleCopies'
  BY <1>1, <1>4 DEF Sound, SentBefore, SameSize, SingleCopies
<1>6. InOrder'
  <2>1. "reordered" \notin mishaps' => "reordered" \notin mishaps /\ \A e \in net : ~Before(e, d)
    BY <1>1 DEF Overtakes
  <2> QED
    BY <1>1, <1>3, <2>1 DEF InOrder
<1>7. Fresh'
  BY <1>1, <1>3 DEF Fresh
<1> QED
  BY <1>5, <1>6, <1>7

\* A frame that has come in whole leaves the map with its last fragment.
LEMMA CollectedPlayback ==
  ASSUME TypeOK, Facts, Collected, NEW d \in net, NEW bucket,
         bucket = Bucket(fragment_buffer \cup {d}, d.frame_seq), Receives(d, bucket)
  PROVE  Collected'
<1> DEFINE buffer == fragment_buffer \cup {d}
<1>1. IsFiniteSet(buffer) /\ bucket \subseteq buffer /\ IsFiniteSet(bucket)
  <2>1. IsFiniteSet(buffer)
    BY FS_AddElement DEF Collected
  <2>2. bucket \subseteq buffer
    BY DEF Bucket
  <2> QED
    BY <2>1, <2>2, FS_Subset
<1>2. d \in bucket /\ \A f \in bucket : f.frame_seq = d.frame_seq
  BY DEF Bucket
<1>3. fragment_buffer' \subseteq buffer /\ IsFiniteSet(fragment_buffer)'
  <2>1. fragment_buffer' \subseteq buffer
    BY DEF Receives
  <2> QED
    BY <1>1, <2>1, FS_Subset
<1>4. LastShown'
  <2>1. CASE Complete(d, bucket) /\ reassembled_frame' = bucket
    <3>1. d.last_fragment /\ Cardinality(bucket) = d.total_fragments
      BY <2>1 DEF Complete
    <3>2. "mixed" \notin mishaps' => \A f \in bucket : f.from = d.from
      BY <1>2 DEF Receives, Mixes
    <3> QED
      BY <1>1, <1>2, <2>1, <3>1, <3>2 DEF LastShown
  <2>2. CASE UNCHANGED reassembled_frame
    <3>1. mishaps \subseteq mishaps'
      BY DEF Receives
    <3> QED
      BY <2>2, <3>1 DEF Collected, LastShown
  <2> QED
    BY <2>1, <2>2 DEF Receives
<1>5. Unmixed'
  <2> SUFFICES ASSUME "mixed" \notin mishaps', NEW f \in fragment_buffer', NEW g \in fragment_buffer',
                      f.frame_seq = g.frame_seq
               PROVE  f.from = g.from
    BY DEF Unmixed
  <2>1. "mixed" \notin mishaps /\ \A h, k \in bucket : h.from = k.from
    BY DEF Receives, Mixes
  <2>2. CASE f.frame_seq = d.frame_seq
    BY <1>3, <2>1, <2>2 DEF Bucket
  <2>3. CASE f.frame_seq # d.frame_seq
    <3>1. f \in fragment_buffer /\ g \in fragment_buffer
      BY <1>3, <2>3
    <3> QED
      BY <2>1, <3>1 DEF Collected, Unmixed
  <2> QED
    BY <2>2, <2>3
<1>6. CompleteIsShown'
  <2> SUFFICES ASSUME mishaps' \cap {"reordered", "duplicated", "mixed"} = {},
                      NEW f \in fragment_buffer', AllCollected(f)'
               PROVE  FALSE
    BY DEF CompleteIsShown
  <2>1. mishaps \cap {"reordered", "duplicated", "mixed"} = {}
    BY DEF Receives
  <2>2. /\ f.from.kind = "video"
        /\ \A i \in 0 .. f.total_fragments - 1 :
             \E g \in fragment_buffer' :
               g.from = f.from /\ g.frame_seq = f.frame_seq /\ g.fragment_i = i
    BY DEF AllCollected
  <2>3. CASE f.frame_seq # d.frame_seq
    <3>1. f \in fragment_buffer /\ \A g \in fragment_buffer' : g.frame_seq = f.frame_seq => g \in fragment_buffer
      BY <1>3, <2>3
    <3>2. AllCollected(f)
      BY <2>2, <3>1 DEF AllCollected
    <3> QED
      BY <2>1, <3>1, <3>2 DEF Collected, CompleteIsShown
  <2>4. CASE f.frame_seq = d.frame_seq
    <3>1. ~Complete(d, bucket) /\ fragment_buffer' = buffer
      BY <2>4 DEF Receives, Bucket
    <3>2. f \in bucket /\ \A g \in bucket : g.from = d.from
      <4>1. f \in bucket
        BY <2>4, <3>1 DEF Bucket
      <4>2. "mixed" \notin mishaps'
        OBVIOUS
      <4> QED
        BY <1>2, <4>1, <4>2 DEF Receives, Mixes
    <3>3. bucket \in SUBSET Datagram /\ \A g \in bucket : g \in Datagrams /\ FragmentSound(g)
      BY <1>1 DEF Datagrams, Received, TypeOK, Facts, Sound
    <3>4. \A g \in bucket : g.copy = 1
      BY <2>1, <3>3 DEF Facts, SingleCopies
    <3>5. d.from.kind = "video" /\ f.total_fragments = d.total_fragments
      <4>1. f.from = d.from /\ d.from.kind = "video"
        BY <2>2, <3>2
      <4>2. FragmentSound(f) /\ FragmentSound(d)
        BY <1>2, <3>2, <3>3
      <4> QED
        BY <4>1, <4>2, Zenon DEF FragmentSound
    <3>6. \A i \in 0 .. d.total_fragments - 1 : \E g \in bucket : g.fragment_i = i
      BY <2>2, <2>4, <3>1, <3>5 DEF Bucket
    <3>7. /\ Cardinality(bucket) = d.total_fragments
          /\ \E g \in bucket : g.fragment_i = d.total_fragments - 1
      <4>1. \A g \in bucket : FragmentSound(g) /\ g.from = d.from /\ g.frame_seq = d.frame_seq
                              /\ g.copy = d.copy
        BY <1>2, <3>2, <3>3, <3>4, Zenon
      <4> QED
        BY <1>1, <1>2, <3>3, <3>5, <3>6, <4>1, FrameCounted, Zenon
    <3>8. PICK g \in bucket : g.fragment_i = d.total_fragments - 1
      BY <3>7
    <3>9. ~d.last_fragment
      BY <3>1, <3>7 DEF Complete
    <3>10. d.fragment_i < g.fragment_i
      <4>1. d.fragment_i \in Nat /\ d.total_fragments \in Nat
        BY <1>2, <3>3, Fields
      <4>2. d.fragment_i < d.total_fragments /\ d.fragment_i # d.total_fragments - 1
        BY <1>2, <3>3, <3>5, <3>9 DEF FragmentSound
      <4> QED
        BY <3>8, <4>1, <4>2
    <3>11. g \in fragment_buffer
      <4>1. g # d
        <5>1. d.fragment_i \in Nat
          BY <1>2, <3>3, Fields
        <5> QED
          BY <3>10, <5>1
      <4> QED
        BY <1>1, <4>1
    <3>12. Before(d, g)
      BY <1>2, <3>2, <3>5, <3>10 DEF Before
    <3> QED
      BY <2>1, <3>11, <3>12 DEF Facts, InOrder, Received
  <2> QED
    BY <2>3, <2>4
<1> QED
  BY <1>3, <1>4, <1>5, <1>6 DEF Collected

-----------------------------------------------------------------------------
(***************************************************************************)
(* The invariant and what follows from it.                                 *)
(***************************************************************************)

\* At the start nothing has been sent.
LEMMA InvInit == Init => IInv
<1> SUFFICES ASSUME Init PROVE IInv
  OBVIOUS
<1>1. Datagrams = {} /\ net = {} /\ fragment_buffer = {} /\ reassembled_frame = {}
  BY DEF Init, Datagrams, Received
<1>2. Facts
  BY <1>1 DEF Facts, Sound, SentBefore, SameSize, SingleCopies, InOrder, Fresh
<1>3. Collected
  BY <1>1, FS_EmptySet DEF Collected, LastShown, Unmixed, CompleteIsShown
<1> QED
  BY <1>2, <1>3, TypeInit DEF IInv

\* Every step keeps the invariant.
LEMMA InvNext == IInv /\ [Next]_vars => IInv'
<1> SUFFICES ASSUME IInv, [Next]_vars PROVE IInv'
  OBVIOUS
<1> USE DEF IInv
<1>1. TypeOK' /\ SenderSound'
  BY TypeSender, TypeOther DEF Next
<1>2. ASSUME NEW p \in Sender, Capture(p) PROVE Facts' /\ Collected'
  <2>1. /\ UNCHANGED <<run, frame_seq, fragment_i, net, receiver, mishaps>> /\ enc_frame[p] = 0
        /\ \A q \in Sender : q # p => enc_frame'[q] = enc_frame[q]
    BY <1>2 DEF Capture, TypeOK
  <2>2. UNCHANGED <<Datagrams, Received>>
    BY <2>1 DEF Datagrams, Received, receiver
  <2>3. \A d \in Datagrams : d.from.peer \in Sender /\ d.fragment_i \in Nat
    BY Fields DEF Datagrams, Received, TypeOK
  <2>4. fragment_i[p] = 0
    BY <2>1 DEF SenderSound
  <2>5. SentBefore'
    BY <2>1, <2>2, <2>3, <2>4 DEF Facts, SentBefore
  <2>6. Facts'
    BY <2>1, <2>2, <2>5 DEF Facts, Sound, SameSize, SingleCopies, InOrder, Fresh
  <2> QED
    BY <2>1, <2>6, CollectedKept
<1>3. ASSUME NEW p \in Sender, SendFragment(p) PROVE Facts' /\ Collected'
  <2>1. UNCHANGED receiver /\ mishaps \subseteq mishaps'
    BY <1>3 DEF SendFragment
  <2> QED
    BY <1>3, <2>1, FactsSend, CollectedKept
<1>4. ASSUME NEW p \in Sender, AudioRecAndSend(p) \/ sendHELLO(p) PROVE Facts' /\ Collected'
  <2>1. PICK n : /\ n.from.kind # "video" /\ ~n.last_fragment /\ n.copy = 1
                 /\ net' = net \cup {n}
                 /\ UNCHANGED <<run, frame_seq, enc_frame, fragment_i, receiver, mishaps>>
    <3>1. \A kind \in {"audio", "hello"} : \A seq, i, word :
            LET f == Foreign(p, kind, seq, i, word)
            IN  f.from.kind # "video" /\ ~f.last_fragment /\ f.copy = 1
      BY DEF Foreign
    <3> QED
      BY <1>4, <3>1 DEF AudioRecAndSend, sendHELLO, SendForeign
  <2>2. PICK N : N = {n}
    OBVIOUS
  <2>3. /\ \A m \in N : m.from.kind # "video" /\ ~m.last_fragment /\ m.copy = 1
        /\ net' \subseteq net \cup N
    BY <2>1, <2>2
  <2>4. mishaps \subseteq mishaps' /\ UNCHANGED receiver
    BY <2>1
  <2>5. Facts'
    BY <2>1, <2>3, <2>4, FactsForeign
  <2>6. Collected'
    BY <2>4, CollectedKept
  <2> QED
    BY <2>5, <2>6
<1>5. ASSUME NEW p \in Sender, Restart(p) PROVE Facts' /\ Collected'
  <2>1. UNCHANGED receiver /\ mishaps \subseteq mishaps'
    BY <1>5 DEF Restart, Happens
  <2> QED
    BY <1>5, <2>1, FactsRestart, CollectedKept
<1>6. CASE Lose \/ UNCHANGED vars
  <2>1. PICK N : N = {}
    OBVIOUS
  <2>2. /\ net' \subseteq net \cup N /\ mishaps \subseteq mishaps'
        /\ UNCHANGED <<run, frame_seq, enc_frame, fragment_i, receiver>>
    BY <1>6 DEF Lose, Happens, vars, sender
  <2>3. \A n \in N : n.from.kind # "video" /\ ~n.last_fragment /\ n.copy = 1
    BY <2>1
  <2>4. Facts'
    BY <2>2, <2>3, FactsForeign
  <2>5. Collected'
    BY <2>2, CollectedKept
  <2> QED
    BY <1>1, <2>4, <2>5
<1>7. CASE Duplicate
  <2>1. UNCHANGED receiver /\ mishaps \subseteq mishaps'
    BY <1>7 DEF Duplicate, Happens
  <2>2. Facts'
    BY <1>7, FactsDuplicate
  <2>3. Collected'
    BY <2>1, CollectedKept
  <2> QED
    BY <1>1, <2>2, <2>3
<1>8. CASE VideoPlayback
  <2>1. PICK d \in net : \E bucket :
          bucket = Bucket(fragment_buffer \cup {d}, d.frame_seq) /\ Receives(d, bucket)
    BY <1>8, Playback
  <2>2. PICK bucket : bucket = Bucket(fragment_buffer \cup {d}, d.frame_seq) /\ Receives(d, bucket)
    BY <2>1
  <2>3. Facts'
    BY <2>2, FactsPlayback
  <2>4. Collected'
    BY <2>2, CollectedPlayback
  <2> QED
    BY <1>1, <2>3, <2>4
<1> QED
  BY <1>1, <1>2, <1>3, <1>4, <1>5, <1>6, <1>7, <1>8 DEF Next, VideoRecandSend

\* The invariant: where the fragments stand, in which order they come, and what
\* the map holds.
THEOREM VideoInductive == Spec => []IInv
BY InvInit, InvNext, PTL DEF Spec

\* The types of the video path's variables.
THEOREM VideoTypes == Spec => []TypeOK
<1>1. IInv => TypeOK
  BY DEF IInv
<1> QED
  BY <1>1, VideoInductive, PTL

\* Of a frame that is left in the map a fragment is missing, if none of what was
\* received had overtaken another datagram or was a copy, and nothing else came
\* under a frame's number: whatever was lost, and however often the senders were
\* restarted (Online_AV.cpp:254-280).  With one of the three mishaps this is not
\* so, as the runs video_overtake and video_audio show.
THEOREM WholeFrameShown == Spec => []CompleteIsShown
<1>1. IInv => CompleteIsShown
  BY DEF IInv, Collected
<1> QED
  BY <1>1, VideoInductive, PTL

\* A frame that is decoded from the fragments of one run of one peer, without
\* copies, is whole: the number of fragments that is compared (Online_AV.cpp:256)
\* stands for the set of their indices.
THEOREM PureFrameWhole == Spec => []PureIsWhole
<1>1. IInv => PureIsWhole
  <2> SUFFICES ASSUME IInv, reassembled_frame # {}, Pure(reassembled_frame)
               PROVE  Whole(reassembled_frame)
    BY DEF PureIsWhole, Whole
  <2> DEFINE S == reassembled_frame
  <2>1. PICK d \in S : /\ d.last_fragment /\ Cardinality(S) = d.total_fragments
                        /\ \A f \in S : f.frame_seq = d.frame_seq
    BY DEF IInv, Collected, LastShown
  <2>2. IsFiniteSet(S)
    BY DEF IInv, Collected, LastShown
  <2>3. \A f \in S : f \in Datagram /\ f \in Datagrams /\ FragmentSound(f)
    BY DEF IInv, TypeOK, Datagrams, Received, Facts, Sound
  <2>4. \A f, g \in S : /\ f.from.peer = g.from.peer /\ f.from.run = g.from.run
                        /\ f.from.kind = "video" /\ f.copy = g.copy
    BY DEF Pure
  <2>5. \A f, g \in S : f.from = g.from
    <3>1. \A f, g \in S : f.from.size = g.from.size
      BY <2>1, <2>3, <2>4 DEF IInv, Facts, SameSize, OneFrame
    <3> QED
      BY <2>3, <2>4, <3>1, FromUnique
  <2>6. \A f, g \in S : f.fragment_i = g.fragment_i => f = g
    BY <2>1, <2>3, <2>4, <2>5, PlaceUnique
  <2>7. \A f \in S : /\ f.total_fragments = d.total_fragments
                     /\ f.fragment_i \in 0 .. d.total_fragments - 1
    BY <2>3, <2>4, <2>5, Fields DEF FragmentSound
  <2>8. \A i \in 0 .. d.total_fragments - 1 : \E g \in S : g.fragment_i = i
    <3>1. d.total_fragments \in Nat
      BY <2>3, Fields
    <3> HIDE DEF S
    <3> QED
      BY <2>1, <2>2, <2>6, <2>7, <3>1, Counting
  <2>9. \A f \in S : IF f.last_fragment
                     THEN f.fragment_i * max_fragment_s + f.fragment_s = f.from.size
                     ELSE f.fragment_s = max_fragment_s
    <3> SUFFICES ASSUME NEW f \in S
                 PROVE  IF f.last_fragment
                        THEN f.fragment_i * max_fragment_s + f.fragment_s = f.from.size
                        ELSE f.fragment_s = max_fragment_s
      OBVIOUS
    <3> DEFINE x == f.fragment_i * max_fragment_s
    <3>1. /\ f.from.size \in Nat
          /\ f.fragment_s = IF f.last_fragment THEN f.from.size - x ELSE max_fragment_s
      BY <2>3, <2>4, SizeAssumption DEF FragmentSound
    <3>2. x \in Nat
      BY <2>3, Fields, SizeAssumption
    <3> HIDE DEF x
    <3>3. IF f.last_fragment THEN x + f.fragment_s = f.from.size ELSE f.fragment_s = max_fragment_s
      BY <3>1, <3>2
    <3> QED
      BY <3>3 DEF x
  <2> HIDE DEF S
  <2>10. Whole(S)
    BY <2>4, <2>5, <2>6, <2>7, <2>8, <2>9 DEF Whole
  <2> QED
    BY <2>10 DEF S
<1> QED
  BY <1>1, VideoInductive, PTL

\* While nothing was reordered, duplicated or mixed in: what is decoded next has
\* a higher number than what was decoded last from the same process.  The code
\* compares no numbers, so that with a mishap of those kinds it need not.
ShownInOrder ==
  [][mishaps' \subseteq {"lost", "restarted"} /\ reassembled_frame' # reassembled_frame =>
       \A f \in reassembled_frame, g \in reassembled_frame' :
         f.from.peer = g.from.peer /\ f.from.run = g.from.run => f.frame_seq < g.frame_seq]_vars

\* While datagrams are only lost and senders restarted, the frames of one process
\* are decoded in the order they were sent in, and each at most once
\* (Online_AV.cpp:199, 254-278).
THEOREM FramesInOrder == Spec => ShownInOrder
<1>1. ASSUME IInv, Next, mishaps' \subseteq {"lost", "restarted"},
             reassembled_frame' # reassembled_frame,
             NEW f \in reassembled_frame, NEW g \in reassembled_frame',
             f.from.peer = g.from.peer, f.from.run = g.from.run
      PROVE  f.frame_seq < g.frame_seq
  <2>1. VideoPlayback
    BY <1>1 DEF Next, VideoRecandSend, Capture, SendFragment, AudioRecAndSend, sendHELLO,
                SendForeign, Restart, Lose, Duplicate, receiver
  <2>2. PICK d \in net : \E bucket :
          bucket = Bucket(fragment_buffer \cup {d}, d.frame_seq) /\ Receives(d, bucket)
    BY <2>1, Playback
  <2>3. PICK bucket : bucket = Bucket(fragment_buffer \cup {d}, d.frame_seq) /\ Receives(d, bucket)
    BY <2>2
  <2>4. /\ d.last_fragment /\ g \in bucket /\ d \in bucket /\ g.frame_seq = d.frame_seq
        /\ mishaps' = mishaps \cup Overtakes(d) \cup Mixes(bucket)
    BY <1>1, <2>3 DEF Receives, Complete, Bucket
  <2>5. g.from = d.from /\ {"reordered", "duplicated", "mixed"} \cap mishaps = {}
    BY <1>1, <2>4 DEF Mixes
  <2>6. PICK l \in reassembled_frame : l.last_fragment /\ f.frame_seq = l.frame_seq /\ f.from = l.from
    BY <1>1, <2>5 DEF IInv, Collected, LastShown
  <2>7. /\ d \in Datagram /\ d \in Datagrams /\ FragmentSound(d)
        /\ l \in Datagram /\ l \in Datagrams /\ FragmentSound(l) /\ l \in Received
    BY <1>1 DEF IInv, TypeOK, Datagrams, Received, Facts, Sound
  <2>8. d.from.kind = "video" /\ l.from.kind = "video" /\ l.from.peer = d.from.peer
        /\ l.from.run = d.from.run
    BY <1>1, <2>4, <2>5, <2>6, <2>7 DEF FragmentSound
  <2>9. l.frame_seq = d.frame_seq => l.from = d.from
    BY <1>1, <2>7, <2>8, FromUnique DEF IInv, Facts, SameSize, OneFrame
  <2>10. l.frame_seq = d.frame_seq => l.fragment_i = d.fragment_i
    BY <2>4, <2>6, <2>7, <2>8, <2>9 DEF FragmentSound
  <2>11. l.frame_seq # d.frame_seq
    <3>1. l.copy = d.copy
      BY <1>1, <2>5, <2>7 DEF IInv, Facts, SingleCopies
    <3>2. d \notin Received
      BY <1>1, <2>5, <2>8 DEF IInv, Facts, Fresh
    <3> QED
      BY <2>7, <2>8, <2>9, <2>10, <3>1, <3>2, PlaceUnique
  <2>12. ~Before(d, l)
    BY <1>1, <2>5, <2>7 DEF IInv, Facts, InOrder
  <2>13. l.frame_seq < d.frame_seq
    BY <2>7, <2>8, <2>11, <2>12, Fields DEF Before
  <2> QED
    BY <2>4, <2>6, <2>13
<1>2. IInv /\ [Next]_vars =>
        [mishaps' \subseteq {"lost", "restarted"} /\ reassembled_frame' # reassembled_frame =>
           \A f \in reassembled_frame, g \in reassembled_frame' :
             f.from.peer = g.from.peer /\ f.from.run = g.from.run => f.frame_seq < g.frame_seq]_vars
  BY <1>1
<1> QED
  BY <1>2, VideoInductive, PTL DEF Spec, ShownInOrder
=============================================================================
