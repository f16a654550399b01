--------------------------- MODULE RelayOrderProofs ---------------------------
(***************************************************************************)
(* Theorems about what the clients of the relay server receive, for any    *)
(* number of connections, descriptors and bytes: a byte is in one place at *)
(* a time on its way through the server, and all streams follow one order  *)
(* of the chunks.  They rest on IInv of RelayServerProofs.                 *)
(***************************************************************************)
EXTENDS RelayServerProofs

OrderInv == IInv /\ StreamInv /\ SameOrder

\* What TypeOK says of the sequences, as the proofs below use it.
StreamTypes ==
  /\ log \in Seq(Chunk) /\ Len(log) \in Nat /\ DOMAIN log = 1 .. Len(log)
  /\ \A k \in DOMAIN log : log[k].data \in Seq(Byte)
  /\ \A k \in DOMAIN log : \A i \in DOMAIN log[k].data : log[k].data[i] \in Byte
  /\ \A c \in Conn :
       /\ sent[c] \in Nat /\ pc[c] \in HandlerPc /\ peer[c] \in PeerState
       /\ up[c] \in Seq(Byte) /\ Len(up[c]) \in Nat /\ DOMAIN up[c] = 1 .. Len(up[c])
       /\ \A i \in DOMAIN up[c] : up[c][i] \in Byte
       /\ buffer[c] \in Seq(Byte) /\ Len(buffer[c]) \in Nat /\ DOMAIN buffer[c] = 1 .. Len(buffer[c])
       /\ \A i \in DOMAIN buffer[c] : buffer[c][i] \in Byte
       /\ out[c] \in Seq(Byte) /\ Len(out[c]) \in Nat /\ DOMAIN out[c] = 1 .. Len(out[c])

\* It follows from TypeOK.
LEMMA TypesOfStreams == TypeOK => StreamTypes
<1> SUFFICES ASSUME TypeOK PROVE StreamTypes
  OBVIOUS
<1> USE DEF TypeOK
<1>1. log \in Seq(Chunk) /\ Len(log) \in Nat /\ DOMAIN log = 1 .. Len(log)
  BY LenProperties
<1>2. \A k \in DOMAIN log : log[k].data \in Seq(Byte)
  <2>1. \A k \in DOMAIN log : log[k] \in Chunk
    BY <1>1, ElementOfSeq
  <2> QED
    BY <2>1 DEF Chunk
<1>3. \A s \in Seq(Byte) :
        Len(s) \in Nat /\ DOMAIN s = 1 .. Len(s) /\ \A i \in DOMAIN s : s[i] \in Byte
  BY LenProperties, ElementOfSeq
<1>4. \A c \in Conn :
        /\ sent[c] \in Nat /\ pc[c] \in HandlerPc /\ peer[c] \in PeerState
        /\ up[c] \in Seq(Byte) /\ buffer[c] \in Seq(Byte) /\ out[c] \in Seq(Byte)
  BY SizeAssumption
<1> QED
  BY <1>1, <1>2, <1>3, <1>4 DEF StreamTypes

\* At the start there are no bytes anywhere.
LEMMA StreamInit == Init => StreamInv /\ SameOrder
BY DEF Init, StreamInv, UpNew, BufferNew, LogSound, OutLogged, LastChunk, Leaving, SameOrder, InChunk

\* A step keeps the order if it neither writes nor broadcasts, adds no bytes
\* that recv() could return, and lets no handler come to a chunk.
LEMMA StreamFrame ==
  ASSUME StreamInv, SameOrder, UNCHANGED <<sent, out, log>>,
         \A c \in Conn :
           /\ \A i \in DOMAIN up'[c] : i \in DOMAIN up[c] /\ up'[c][i] = up[c][i]
           /\ pc'[c] \in {"lock", "send"} => pc'[c] = pc[c] /\ buffer'[c] = buffer[c],
         Leaving'
  PROVE  StreamInv' /\ SameOrder'
<1>1. UpNew'
  BY DEF StreamInv, UpNew
<1>2. BufferNew'
  BY DEF StreamInv, BufferNew
<1>3. LogSound' /\ LastChunk'
  BY DEF StreamInv, LogSound, LastChunk
<1>4. OutLogged' /\ SameOrder'
  BY DEF StreamInv, OutLogged, SameOrder
<1> QED
  BY <1>1, <1>2, <1>3, <1>4 DEF StreamInv

\* A byte that a client sends is a new one.
LEMMA StreamSend ==
  ASSUME TypeOK, StreamInv, SameOrder, NEW c \in Conn, ClientSend(c)
  PROVE  StreamInv' /\ SameOrder'
<1>0. StreamTypes
  BY TypesOfStreams
<1> USE DEF StreamTypes
<1> DEFINE b == <<c, sent[c] + 1>>
<1>1. /\ \A d \in Conn : sent[d] <= sent'[d] /\ sent'[d] \in Nat
      /\ sent'[c] = sent[c] + 1
      /\ \A d \in Conn \ {c} : up'[d] = up[d]
      /\ up'[c] = Append(up[c], b)
      /\ UNCHANGED <<pc, buffer, peer, out, log>>
  <2>1. sent' = [sent EXCEPT ![c] = sent[c] + 1] /\ up' = [up EXCEPT ![c] = Append(up[c], b)]
    BY DEF ClientSend
  <2>2. up \in [Conn -> Seq(Byte)] /\ sent \in [Conn -> 0 .. MaxSend]
    BY DEF TypeOK
  <2>3. UNCHANGED <<pc, buffer, peer, out, log>>
    BY DEF ClientSend, threads
  <2> HIDE DEF b
  <2>4. up'[c] = Append(up[c], b) /\ \A d \in Conn \ {c} : up'[d] = up[d]
    BY <2>1, <2>2
  <2>5. sent'[c] = sent[c] + 1 /\ \A d \in Conn \ {c} : sent'[d] = sent[d]
    BY <2>1, <2>2
  <2> QED
    BY <1>0, <2>3, <2>4, <2>5
<1>2. /\ \A i \in DOMAIN up'[c] : i \in DOMAIN up[c] \/ i = Len(up[c]) + 1
      /\ \A i \in DOMAIN up[c] : up'[c][i] = up[c][i]
      /\ up'[c][Len(up[c]) + 1] = b
  <2>1. b \in Byte
    BY <1>0 DEF Byte
  <2>2. up'[c] \in Seq(Byte) /\ Len(up'[c]) = Len(up[c]) + 1
    BY <1>0, <1>1, <2>1, AppendProperties
  <2>3. DOMAIN up'[c] = 1 .. Len(up[c]) + 1
    BY <2>2, LenProperties
  <2> QED
    BY <1>0, <1>1, <2>1, <2>3, AppendProperties
<1>3. b[1] = c /\ b[2] = sent[c] + 1
  OBVIOUS
<1>4. \A x \in Byte : x[1] \in Conn /\ x[2] \in Nat
  BY DEF Byte
<1>5. ~Logged(b, log)
  BY <1>0, <1>3 DEF Logged, InChunk, StreamInv, LogSound
<1> HIDE DEF b
<1>6. UpNew'
  <2>1. ASSUME NEW d \in Conn, NEW i \in DOMAIN up'[d]
        PROVE  up'[d][i][1] = d /\ up'[d][i][2] <= sent'[d] /\ ~Logged(up'[d][i], log)
    <3>1. CASE i \in DOMAIN up[d]
      <4>1. up'[d][i] = up[d][i] /\ up[d][i] \in Byte
        BY <3>1, <1>0, <1>1, <1>2
      <4> QED
        BY <3>1, <4>1, <1>0, <1>1, <1>4 DEF StreamInv, UpNew
    <3>2. CASE d = c /\ i = Len(up[c]) + 1
      BY <3>2, <1>0, <1>1, <1>2, <1>3, <1>5
    <3> QED
      BY <2>1, <3>1, <3>2, <1>0, <1>1, <1>2
  <2>2. ASSUME NEW i \in DOMAIN up[c] PROVE up[c][i] # b
    BY <1>0, <1>3, <1>4, <2>2 DEF StreamInv, UpNew
  <2>3. ASSUME NEW d \in Conn, NEW i \in DOMAIN up'[d], NEW j \in DOMAIN up'[d], up'[d][i] = up'[d][j]
        PROVE  i = j
    <3>1. CASE d # c
      BY <3>1, <1>1, <2>3 DEF StreamInv, UpNew
    <3>2. CASE d = c
      <4>1. i \in DOMAIN up'[c] /\ j \in DOMAIN up'[c] /\ up'[c][i] = up'[c][j]
        BY <3>2, <2>3
      <4>2. \A k, l \in DOMAIN up[c] : up[c][k] = up[c][l] => k = l
        BY DEF StreamInv, UpNew
      <4>3. CASE i \in DOMAIN up[c] /\ j \in DOMAIN up[c]
        BY <1>2, <4>1, <4>2, <4>3
      <4>4. CASE i \notin DOMAIN up[c] \/ j \notin DOMAIN up[c]
        BY <1>2, <2>2, <4>1, <4>4
      <4> QED
        BY <4>3, <4>4
    <3> QED
      BY <3>1, <3>2
  <2> QED
    BY <1>1, <2>1, <2>3 DEF UpNew
<1>7. BufferNew'
  <2> SUFFICES ASSUME NEW d \in Conn, pc[d] = "lock", NEW i \in DOMAIN buffer[d]
               PROVE  /\ buffer[d][i][1] = d /\ buffer[d][i][2] <= sent'[d]
                      /\ ~Logged(buffer[d][i], log)
                      /\ \A j \in DOMAIN up'[d] : up'[d][j] # buffer[d][i]
    BY <1>1 DEF BufferNew
  <2>1. /\ buffer[d][i][1] = d /\ buffer[d][i][2] <= sent[d] /\ ~Logged(buffer[d][i], log)
        /\ \A j \in DOMAIN up[d] : up[d][j] # buffer[d][i]
    BY DEF StreamInv, BufferNew
  <2>2. buffer[d][i] \in Byte
    BY <1>0
  <2>3. d = c => buffer[d][i] # b
    BY <1>0, <1>3, <1>4, <2>1, <2>2
  <2>4. buffer[d][i][2] <= sent'[d]
    BY <1>0, <1>1, <1>4, <2>1, <2>2
  <2>5. ASSUME NEW j \in DOMAIN up'[d] PROVE up'[d][j] # buffer[d][i]
    <3>1. CASE d # c
      BY <3>1, <1>1, <2>1
    <3>2. CASE d = c
      BY <3>2, <1>0, <1>2, <2>1, <2>3
    <3> QED
      BY <3>1, <3>2
  <2> QED
    BY <2>1, <2>4, <2>5
<1>8. LogSound'
  <2> SUFFICES ASSUME NEW k \in DOMAIN log, NEW i \in DOMAIN log[k].data
               PROVE  /\ log[k].data[i][2] <= sent'[log[k].data[i][1]]
                      /\ \A l \in DOMAIN log : InChunk(log[k].data[i], log[l]) => l = k
    BY <1>1 DEF LogSound
  <2>1. log[k].data[i] \in Byte
    BY <1>0
  <2>2. log[k].data[i][2] <= sent[log[k].data[i][1]]
    BY DEF StreamInv, LogSound
  <2> QED
    BY <2>1, <2>2, <1>0, <1>1, <1>4 DEF StreamInv, LogSound
<1>9. OutLogged' /\ SameOrder' /\ LastChunk' /\ Leaving'
  BY <1>1 DEF StreamInv, OutLogged, SameOrder, LastChunk, Leaving
<1> QED
  BY <1>6, <1>7, <1>8, <1>9 DEF StreamInv

\* recv() moves the first bytes from the stream to the handler's buffer.
LEMMA StreamRecv ==
  ASSUME TypeOK, StreamInv, SameOrder, NEW c \in Conn, Recv(c)
  PROVE  StreamInv' /\ SameOrder'
<1>0. StreamTypes
  BY TypesOfStreams
<1> USE DEF StreamTypes
<1>1. PICK n \in 1 .. Len(up[c]) :
        /\ buffer' = [buffer EXCEPT ![c] = SubSeq(up[c], 1, n)]
        /\ up' = [up EXCEPT ![c] = SubSeq(up[c], n + 1, Len(up[c]))]
  BY DEF Recv
<1>2. /\ pc' = [pc EXCEPT ![c] = "lock"] /\ pc[c] = "recv"
      /\ UNCHANGED <<sent, out, log, peer>>
  BY DEF Recv
<1>3. /\ buffer'[c] = SubSeq(up[c], 1, n) /\ up'[c] = SubSeq(up[c], n + 1, Len(up[c]))
      /\ pc'[c] = "lock"
      /\ \A d \in Conn \ {c} : buffer'[d] = buffer[d] /\ up'[d] = up[d] /\ pc'[d] = pc[d]
  BY <1>1, <1>2 DEF TypeOK
<1>4. /\ DOMAIN buffer'[c] = 1 .. n
      /\ \A i \in 1 .. n : i \in DOMAIN up[c] /\ buffer'[c][i] = up[c][i]
      /\ DOMAIN up'[c] = 1 .. Len(up[c]) - n
      /\ \A j \in DOMAIN up'[c] : /\ j \in Nat /\ n + j \in DOMAIN up[c]
                                  /\ up'[c][j] = up[c][n + j]
  <2>1. /\ \A i \in 1 .. Len(up[c]) : up[c][i] \in Byte
        /\ Len(up[c]) \in Nat /\ n \in Nat /\ n >= 1 /\ n <= Len(up[c])
        /\ up[c] \in Seq(Byte)
    BY <1>0
  <2>2. Len(buffer'[c]) = n /\ \A i \in 1 .. n : buffer'[c][i] = up[c][i]
    BY <1>3, <2>1, SubSeqProperties
  <2>3. /\ Len(up'[c]) = Len(up[c]) - n
        /\ \A j \in 1 .. Len(up[c]) - n : up'[c][j] = up[c][n + j]
    BY <1>3, <2>1, SubSeqProperties
  <2>4. DOMAIN buffer'[c] = 1 .. Len(buffer'[c]) /\ DOMAIN up'[c] = 1 .. Len(up'[c])
    BY <1>1, <1>3, <2>1, SubSeqProperties, LenProperties
  <2>5. DOMAIN up[c] = 1 .. Len(up[c])
    BY <1>0
  <2>6. \A j \in 1 .. Len(up[c]) - n : j \in Nat /\ n + j \in 1 .. Len(up[c])
    BY <2>1
  <2>7. \A i \in 1 .. n : i \in 1 .. Len(up[c])
    BY <2>1
  <2> HIDE DEF StreamTypes
  <2> QED
    BY <2>2, <2>3, <2>4, <2>5, <2>6, <2>7
<1>5. \A i \in DOMAIN up[c] : up[c][i][1] = c /\ up[c][i][2] <= sent[c] /\ ~Logged(up[c][i], log)
  BY DEF StreamInv, UpNew
<1>6. \A i, j \in DOMAIN up[c] : up[c][i] = up[c][j] => i = j
  BY DEF StreamInv, UpNew
<1>7. UpNew'
  <2>1. ASSUME NEW i \in DOMAIN up'[c]
        PROVE  /\ up'[c][i][1] = c /\ up'[c][i][2] <= sent[c] /\ ~Logged(up'[c][i], log)
               /\ \A j \in DOMAIN up'[c] : up'[c][i] = up'[c][j] => i = j
    <3>1. ASSUME NEW j \in DOMAIN up'[c], up'[c][i] = up'[c][j] PROVE i = j
      <4>1. n + i = n + j
        BY <1>4, <1>6, <3>1
      <4> QED
        BY <1>4, <4>1
    <3> QED
      BY <1>4, <1>5, <3>1
  <2>2. ASSUME NEW d \in Conn \ {c}, NEW i \in DOMAIN up'[d]
        PROVE  /\ up'[d][i][1] = d /\ up'[d][i][2] <= sent[d] /\ ~Logged(up'[d][i], log)
               /\ \A j \in DOMAIN up'[d] : up'[d][i] = up'[d][j] => i = j
    BY <1>3, <2>2 DEF StreamInv, UpNew
  <2> QED
    BY <1>2, <2>1, <2>2 DEF UpNew
<1>8. BufferNew'
  <2>1. ASSUME NEW i \in DOMAIN buffer'[c]
        PROVE  /\ buffer'[c][i][1] = c /\ buffer'[c][i][2] <= sent[c] /\ ~Logged(buffer'[c][i], log)
               /\ \A j \in DOMAIN up'[c] : up'[c][j] # buffer'[c][i]
    <3>1. ASSUME NEW j \in DOMAIN up'[c], up'[c][j] = buffer'[c][i] PROVE FALSE
      <4>1. n + j = i
        BY <1>4, <1>6, <2>1, <3>1
      <4> QED
        BY <1>4, <2>1, <4>1
    <3> QED
      BY <1>4, <1>5, <2>1, <3>1
  <2>2. ASSUME NEW d \in Conn \ {c}, pc'[d] = "lock", NEW i \in DOMAIN buffer'[d]
        PROVE  /\ buffer'[d][i][1] = d /\ buffer'[d][i][2] <= sent[d] /\ ~Logged(buffer'[d][i], log)
               /\ \A j \in DOMAIN up'[d] : up'[d][j] # buffer'[d][i]
    BY <1>3, <2>2 DEF StreamInv, BufferNew
  <2> QED
    BY <1>2, <2>1, <2>2 DEF BufferNew
<1>9. LogSound' /\ OutLogged' /\ SameOrder'
  BY <1>2 DEF StreamInv, LogSound, OutLogged, SameOrder
<1>10. LastChunk' /\ Leaving'
  BY <1>2, <1>3 DEF StreamInv, LastChunk, Leaving
<1> QED
  BY <1>7, <1>8, <1>9, <1>10 DEF StreamInv

\* A broadcast begins: the chunk's bytes come into the log, for the first time.
LEMMA StreamLock ==
  ASSUME TypeOK, MutexHeld, StreamInv, SameOrder, NEW c \in Conn, LockClients(c)
  PROVE  StreamInv' /\ SameOrder'
<1>0. StreamTypes
  BY TypesOfStreams
<1> USE DEF StreamTypes
<1> DEFINE entry == [from |-> c, data |-> buffer[c]]
           last == Len(log) + 1
<1>1. /\ pc[c] = "lock" /\ pc' = [pc EXCEPT ![c] = "send"] /\ client_m = NoConn
      /\ log' = Append(log, entry)
      /\ UNCHANGED <<sent, up, out, buffer, peer>>
  BY DEF LockClients, kernel
<1>2. pc'[c] = "send" /\ \A d \in Conn \ {c} : pc'[d] = pc[d] /\ pc'[d] # "send"
  BY <1>1, ConnAssumption DEF TypeOK, MutexHeld
<1>3. entry.data = buffer[c] /\ entry \in Chunk
  BY <1>0 DEF Chunk
<1> HIDE DEF entry
<1>4. /\ DOMAIN log' = DOMAIN log \cup {last} /\ last \notin DOMAIN log /\ Len(log') = last
      /\ \A k \in DOMAIN log : log'[k] = log[k] /\ k < last
      /\ log'[last] = entry /\ log' # <<>> /\ last \in Nat
  <2>1. log' \in Seq(Chunk) /\ Len(log') = last
    BY <1>0, <1>1, <1>3, AppendProperties
  <2>2. DOMAIN log' = 1 .. last
    BY <2>1, LenProperties
  <2>3. log' # <<>>
    BY <1>0, <1>1, <1>3, AppendProperties
  <2> QED
    BY <1>0, <1>1, <1>3, <2>1, <2>2, <2>3, AppendProperties
<1> HIDE DEF last
<1>5. \A b : Logged(b, log') <=> Logged(b, log) \/ InChunk(b, entry)
  BY <1>4 DEF Logged
<1>6. \A i \in DOMAIN buffer[c] :
        /\ buffer[c][i][1] = c /\ buffer[c][i][2] <= sent[c] /\ ~Logged(buffer[c][i], log)
        /\ \A j \in DOMAIN up[c] : up[c][j] # buffer[c][i]
  BY <1>1 DEF StreamInv, BufferNew
<1>7. \A b : InChunk(b, entry) => b[1] = c /\ ~Logged(b, log) /\ \A j \in DOMAIN up[c] : up[c][j] # b
  BY <1>3, <1>6 DEF InChunk
<1>8. UpNew'
  <2>1. ASSUME NEW d \in Conn, NEW i \in DOMAIN up[d] PROVE ~InChunk(up[d][i], entry)
    <3>1. up[d][i][1] = d
      BY DEF StreamInv, UpNew
    <3> QED
      BY <1>7, <3>1
  <2> QED
    BY <1>1, <1>5, <2>1 DEF StreamInv, UpNew
<1>9. BufferNew'
  <2>1. ASSUME NEW d \in Conn, pc'[d] = "lock", NEW i \in DOMAIN buffer[d]
        PROVE  ~InChunk(buffer[d][i], entry) /\ pc[d] = "lock"
    <3>1. d # c /\ pc[d] = "lock"
      BY <1>2, <2>1
    <3>2. buffer[d][i][1] = d
      BY <2>1, <3>1 DEF StreamInv, BufferNew
    <3> QED
      BY <1>7, <3>1, <3>2
  <2> QED
    BY <1>1, <1>5, <2>1 DEF StreamInv, BufferNew
<1>10. LogSound'
  <2>1. ASSUME NEW k \in DOMAIN log, NEW i \in DOMAIN log[k].data
        PROVE  /\ log[k].data[i][2] <= sent[log[k].data[i][1]]
               /\ \A l \in DOMAIN log' : InChunk(log[k].data[i], log'[l]) => l = k
    <3>1. Logged(log[k].data[i], log)
      BY <2>1 DEF Logged, InChunk
    <3>2. ~InChunk(log[k].data[i], entry)
      BY <1>7, <3>1
    <3> QED
      BY <1>4, <2>1, <3>2 DEF StreamInv, LogSound
  <2>2. ASSUME NEW i \in DOMAIN buffer[c]
        PROVE  /\ buffer[c][i][2] <= sent[buffer[c][i][1]]
               /\ \A l \in DOMAIN log' : InChunk(buffer[c][i], log'[l]) => l = last
    <3>1. \A l \in DOMAIN log : ~InChunk(buffer[c][i], log[l])
      BY <1>6, <2>2 DEF Logged
    <3> QED
      BY <1>4, <1>6, <2>2, <3>1
  <2> QED
    BY <1>1, <1>3, <1>4, <2>1, <2>2 DEF LogSound
<1>11. OutLogged'
  BY <1>1, <1>5 DEF StreamInv, OutLogged
<1>12. SameOrder'
  <2> SUFFICES ASSUME NEW d \in Conn, NEW i \in DOMAIN out[d], NEW j \in DOMAIN out[d],
                      NEW k \in DOMAIN log', NEW l \in DOMAIN log',
                      i < j, InChunk(out[d][i], log'[k]), InChunk(out[d][j], log'[l])
               PROVE  k <= l
    BY <1>1 DEF SameOrder
  <2>1. Logged(out[d][i], log) /\ Logged(out[d][j], log)
    BY DEF StreamInv, OutLogged
  <2>2. k # last /\ l # last
    BY <1>4, <1>7, <2>1
  <2> QED
    BY <1>4, <2>2 DEF SameOrder
<1>13. LastChunk'
  BY <1>1, <1>2, <1>4 DEF LastChunk, entry
<1>14. Leaving'
  BY <1>1, <1>2 DEF StreamInv, Leaving
<1> QED
  BY <1>8, <1>9, <1>10, <1>11, <1>12, <1>13, <1>14 DEF StreamInv

\* An element of two sequences joined comes from the first or, behind it, from
\* the second.
LEMMA Joined ==
  ASSUME NEW s \in Seq(Byte), NEW t \in Seq(Byte)
  PROVE  /\ \A i \in DOMAIN (s \o t) :
              \/ i \in DOMAIN s /\ (s \o t)[i] = s[i]
              \/ i > Len(s) /\ \E j \in DOMAIN t : (s \o t)[i] = t[j]
         /\ DOMAIN s = 1 .. Len(s) /\ Len(s) \in Nat /\ DOMAIN (s \o t) \subseteq Nat
<1> DEFINE st == s \o t
           n == Len(s)
           m == Len(t)
<1>1. DOMAIN s = 1 .. n /\ DOMAIN t = 1 .. m /\ n \in Nat /\ m \in Nat
  BY LenProperties
<1>2. /\ st \in Seq(Byte) /\ Len(st) = n + m
      /\ \A i \in 1 .. n + m : st[i] = IF i <= n THEN s[i] ELSE t[i - n]
  BY ConcatProperties
<1>3. DOMAIN st = 1 .. n + m
  BY <1>2, LenProperties
<1> HIDE DEF st, n, m
<1>4. ASSUME NEW i \in 1 .. n + m
      PROVE  \/ i \in 1 .. n /\ st[i] = s[i]
             \/ i > n /\ \E j \in 1 .. m : st[i] = t[j]
  <2>1. CASE i <= n
    BY <1>1, <1>2, <2>1
  <2>2. CASE i > n
    <3>1. i - n \in 1 .. m /\ st[i] = t[i - n]
      BY <1>1, <1>2, <2>2
    <3> QED
      BY <2>2, <3>1
  <2> QED
    BY <1>1, <2>1, <2>2
<1>5. 1 .. n + m \subseteq Nat
  BY <1>1
<1> QED
  BY <1>1, <1>3, <1>4, <1>5 DEF st, n

\* The chunk that is written to a client is the last of the log, and what the
\* client received before comes from the log.
LEMMA StreamWrite ==
  ASSUME TypeOK, StreamInv, SameOrder, NEW c \in Conn, NEW d \in Conn, SendWritten(c, d)
  PROVE  StreamInv' /\ SameOrder'
<1>0. StreamTypes
  BY TypesOfStreams
<1> USE DEF StreamTypes
<1>1. /\ pc[c] = "send" /\ out' = [out EXCEPT ![d] = out[d] \o buffer[c]]
      /\ UNCHANGED <<sent, up, buffer, pc, peer, log>>
  BY DEF SendWritten, AtTarget
<1>2. log # <<>> /\ log[Len(log)] = [from |-> c, data |-> buffer[c]]
  BY <1>1 DEF StreamInv, LastChunk
<1>3. Len(log) \in DOMAIN log /\ \A k \in DOMAIN log : k <= Len(log)
  BY <1>0, <1>2, EmptySeq
<1>4. out'[d] = out[d] \o buffer[c] /\ \A e \in Conn \ {d} : out'[e] = out[e]
  BY <1>1 DEF TypeOK
<1>5. /\ \A i \in DOMAIN out'[d] :
           \/ i \in DOMAIN out[d] /\ out'[d][i] = out[d][i]
           \/ i > Len(out[d]) /\ \E j \in DOMAIN buffer[c] : out'[d][i] = buffer[c][j]
      /\ DOMAIN out[d] = 1 .. Len(out[d]) /\ Len(out[d]) \in Nat /\ DOMAIN out'[d] \subseteq Nat
  <2>1. out[d] \in Seq(Byte) /\ buffer[c] \in Seq(Byte)
    BY <1>0
  <2> HIDE DEF StreamTypes
  <2> DEFINE s == out[d]
             t == buffer[c]
  <2>2. /\ \A i \in DOMAIN (s \o t) :
             \/ i \in DOMAIN s /\ (s \o t)[i] = s[i]
             \/ i > Len(s) /\ \E j \in DOMAIN t : (s \o t)[i] = t[j]
        /\ DOMAIN s = 1 .. Len(s) /\ Len(s) \in Nat /\ DOMAIN (s \o t) \subseteq Nat
    <3>1. s \in Seq(Byte) /\ t \in Seq(Byte)
      BY <2>1
    <3> HIDE DEF s, t
    <3> QED
      BY <3>1, Joined
  <2>3. out'[d] = s \o t
    BY <1>4
  <2> QED
    BY <2>2, <2>3, Zenon
<1>6. \A j \in DOMAIN buffer[c] : InChunk(buffer[c][j], log[Len(log)])
  BY <1>2 DEF InChunk
<1>7. \A j \in DOMAIN buffer[c] : \A l \in DOMAIN log :
        InChunk(buffer[c][j], log[l]) => l = Len(log)
  BY <1>2, <1>3 DEF StreamInv, LogSound
<1>8. OutLogged'
  <2>1. \A i \in DOMAIN out'[d] : Logged(out'[d][i], log)
    BY <1>3, <1>5, <1>6 DEF StreamInv, OutLogged, Logged
  <2> QED
    BY <1>1, <1>4, <2>1 DEF StreamInv, OutLogged
<1>9. SameOrder'
  <2>1. ASSUME NEW i \in DOMAIN out'[d], NEW j \in DOMAIN out'[d], NEW k \in DOMAIN log, NEW l \in DOMAIN log,
               i < j, InChunk(out'[d][i], log[k]), InChunk(out'[d][j], log[l])
        PROVE  k <= l
    <3>1. CASE j \in DOMAIN out[d] /\ out'[d][j] = out[d][j]
      <4>1. i \in DOMAIN out[d] /\ out'[d][i] = out[d][i]
        BY <1>5, <2>1, <3>1
      <4> QED
        BY <2>1, <3>1, <4>1 DEF SameOrder
    <3>2. CASE \E x \in DOMAIN buffer[c] : out'[d][j] = buffer[c][x]
      <4>1. l = Len(log)
        BY <1>7, <2>1, <3>2
      <4> QED
        BY <1>3, <4>1
    <3> QED
      BY <1>5, <2>1, <3>1, <3>2
  <2>2. ASSUME NEW e \in Conn \ {d}, NEW i \in DOMAIN out'[e], NEW j \in DOMAIN out'[e],
               NEW k \in DOMAIN log, NEW l \in DOMAIN log,
               i < j, InChunk(out'[e][i], log[k]), InChunk(out'[e][j], log[l])
        PROVE  k <= l
    BY <1>4, <2>2 DEF SameOrder
  <2> QED
    BY <1>1, <2>1, <2>2 DEF SameOrder
<1>10. UpNew' /\ BufferNew' /\ LogSound' /\ LastChunk' /\ Leaving'
  BY <1>1 DEF StreamInv, UpNew, BufferNew, LogSound, LastChunk, Leaving
<1> QED
  BY <1>8, <1>9, <1>10 DEF StreamInv

\* The other steps of the clients.
LEMMA StreamClient ==
  ASSUME TypeOK, StreamInv, SameOrder, NEW c \in Conn, Client(c)
  PROVE  StreamInv' /\ SameOrder'
<1>0. StreamTypes
  BY TypesOfStreams
<1>1. CASE Connect(c) \/ ClientRead(c) \/ ClientClose(c)
  <2>1. UNCHANGED <<sent, out, log, up, pc, buffer>>
    BY <1>1 DEF Connect, ClientRead, ClientClose, threads
  <2>2. Leaving'
    BY <1>1, <2>1 DEF Connect, ClientRead, ClientClose, StreamInv, Leaving, TypeOK
  <2> QED
    BY <2>1, <2>2, StreamFrame
<1>2. CASE ClientReset(c)
  <2>1. UNCHANGED <<sent, out, log, pc, buffer>> /\ peer' = [peer EXCEPT ![c] = "reset"]
    BY <1>2 DEF ClientReset, threads
  <2>2. PICK n \in 0 .. Len(up[c]) : up' = [up EXCEPT ![c] = SubSeq(up[c], 1, n)]
    BY <1>2 DEF ClientReset
  <2>3. up'[c] = SubSeq(up[c], 1, n) /\ \A d \in Conn \ {c} : up'[d] = up[d]
    BY <2>2 DEF TypeOK
  <2>4. \A i \in DOMAIN up'[c] : i \in DOMAIN up[c] /\ up'[c][i] = up[c][i]
    <3>1. up[c] \in Seq(Byte) /\ Len(up[c]) \in Nat /\ DOMAIN up[c] = 1 .. Len(up[c])
      BY <1>0 DEF StreamTypes
    <3>2. \A i \in 1 .. n : up[c][i] \in Byte
      BY <1>0, <3>1 DEF StreamTypes
    <3>3. up'[c] \in Seq(Byte) /\ Len(up'[c]) = n /\ \A i \in 1 .. n : up'[c][i] = up[c][i]
      BY <2>3, <3>1, <3>2, SubSeqProperties
    <3>4. DOMAIN up'[c] = 1 .. n
      BY <3>3, LenProperties
    <3> QED
      BY <3>1, <3>3, <3>4
  <2>5. Leaving'
    BY <2>1 DEF StreamInv, Leaving, TypeOK
  <2> QED
    BY <2>1, <2>3, <2>4, <2>5, StreamFrame
<1> QED
  BY <1>1, <1>2, StreamSend DEF Client

\* The steps that neither receive, log nor write.
LEMMA StreamServer ==
  ASSUME IInv, StreamInv, SameOrder,
         \/ main
         \/ \E c \in Conn : RecvEnd(c) \/ SkipSelf(c) \/ EndBroadcast(c) \/ HandlerExit(c)
         \/ \E c \in Conn, d \in Conn \cup {NoConn} :
              SendDiscarded(c, d) \/ SendFailed(c, d) \/ SendKilled(c, d)
  PROVE  StreamInv' /\ SameOrder'
<1> USE DEF IInv
<1>1. CASE main
  <2>1. UNCHANGED <<sent, out, log, up, buffer, peer>>
    BY <1>1 DEF main, Accept, AddClient, SpawnHandler, kernel
  <2>2. pc' = pc \/ \E c \in Conn : pc' = [pc EXCEPT ![c] = "recv"]
    BY <1>1 DEF main, Accept, AddClient, SpawnHandler, Admitted, Admitting
  <2>3. \A c \in Conn : pc'[c] = pc[c] \/ pc'[c] = "recv"
    BY <2>2 DEF TypeOK
  <2>4. Leaving'
    BY <2>1, <2>3 DEF StreamInv, Leaving
  <2> QED
    BY <2>1, <2>3, <2>4, StreamFrame
<1>2. ASSUME NEW c \in Conn, RecvEnd(c) \/ HandlerExit(c) PROVE StreamInv' /\ SameOrder'
  <2>1. UNCHANGED <<sent, out, log, up, buffer, peer>>
    BY <1>2 DEF RecvEnd, HandlerExit, RemoveClient, CloseClient, kernel
  <2>2. \A d \in Conn \ {c} : pc'[d] = pc[d]
    BY <1>2 DEF RecvEnd, HandlerExit, RemoveClient, CloseClient, TypeOK
  <2>3. /\ pc[c] \in {"recv", "remove", "close"} /\ pc'[c] \in {"remove", "close", "done"}
        /\ pc[c] = "recv" => peer[c] \in {"closed", "reset"}
    BY <1>2 DEF RecvEnd, HandlerExit, RemoveClient, CloseClient, TypeOK
  <2>4. Leaving'
    BY <2>1, <2>2, <2>3 DEF StreamInv, Leaving
  <2> QED
    BY <2>1, <2>2, <2>3, <2>4, StreamFrame
<1>3. ASSUME NEW c \in Conn, SkipSelf(c) PROVE StreamInv' /\ SameOrder'
  <2>1. UNCHANGED <<sent, out, log, up, buffer, peer, pc>>
    BY <1>3 DEF SkipSelf, kernel
  <2> QED
    BY <2>1, StreamFrame DEF StreamInv, Leaving
<1>4. ASSUME NEW c \in Conn, EndBroadcast(c) PROVE StreamInv' /\ SameOrder'
  <2>1. UNCHANGED <<sent, out, log, up, peer>> /\ pc'[c] = "recv"
    BY <1>4 DEF EndBroadcast, kernel, TypeOK
  <2>2. \A d \in Conn \ {c} : pc'[d] = pc[d] /\ buffer'[d] = buffer[d]
    BY <1>4 DEF EndBroadcast, TypeOK
  <2>3. Leaving'
    BY <2>1, <2>2 DEF StreamInv, Leaving
  <2> QED
    BY <2>1, <2>2, <2>3, StreamFrame
<1>5. ASSUME NEW c \in Conn, NEW d \in Conn \cup {NoConn},
             SendDiscarded(c, d) \/ SendFailed(c, d) \/ SendKilled(c, d)
      PROVE  StreamInv' /\ SameOrder'
  <2>1. UNCHANGED <<sent, out, log, up, buffer, pc>>
    BY <1>5 DEF SendDiscarded, SendFailed, SendKilled, kernel, threads
  <2>2. \A e \in Conn : peer'[e] = peer[e] \/ peer'[e] \in {"closed", "reset"}
    BY <1>5 DEF SendDiscarded, SendFailed, SendKilled, kernel, TypeOK
  <2>3. Leaving'
    BY <2>1, <2>2 DEF StreamInv, Leaving
  <2> QED
    BY <2>1, <2>3, StreamFrame
<1> QED
  BY <1>1, <1>2, <1>3, <1>4, <1>5

\* Every step keeps the order.
LEMMA OrderNext == OrderInv /\ [Next]_vars => OrderInv'
<1> SUFFICES ASSUME OrderInv, [Next]_vars PROVE OrderInv'
  OBVIOUS
<1>1. IInv' /\ TypeOK /\ MutexHeld
  BY InvNext DEF OrderInv, IInv
<1>2. CASE UNCHANGED vars
  <2>1. UNCHANGED <<sent, out, log, up, buffer, pc, peer>>
    BY <1>2 DEF vars, threads, kernel
  <2> QED
    BY <1>1, <2>1, StreamFrame DEF OrderInv, StreamInv, Leaving
<1>3. ASSUME NEW c \in Conn, NEW d \in Conn \cup {NoConn}, SendWritten(c, d)
      PROVE  StreamInv' /\ SameOrder'
  <2>1. d \in Conn
    BY <1>3 DEF SendWritten
  <2> QED
    BY <1>1, <1>3, <2>1, StreamWrite DEF OrderInv
<1> QED
  BY <1>1, <1>2, <1>3, StreamClient, StreamRecv, StreamLock, StreamServer
     DEF OrderInv, Next, handle_c, Broadcast

\* The invariant: a byte is in one place at a time on its way through the server.
THEOREM OrderInductive == Spec => []OrderInv
<1>1. Init => OrderInv
  BY InvInit, StreamInit DEF OrderInv
<1> QED
  BY <1>1, OrderNext, PTL DEF Spec

\* Where a byte may be, as the run checks it.
THEOREM StreamsSound == Spec => []StreamInv
<1>1. OrderInv => StreamInv
  BY DEF OrderInv
<1> QED
  BY <1>1, OrderInductive, PTL

\* No two clients ever see two chunks in different orders, whoever sent them
\* (TCPS.cpp:50-59), however many clients send, join and leave meanwhile.
THEOREM OneOrder == Spec => []SameOrder
<1>1. OrderInv => SameOrder
  BY DEF OrderInv
<1> QED
  BY <1>1, OrderInductive, PTL
=============================================================================
