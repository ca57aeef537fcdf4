---------------------------- MODULE TSocketProofs ----------------------------
(***************************************************************************)
(* Proofs about the client's socket: the descriptor it uses is that of its *)
(* only connection, and both byte streams stay intact, for any size of the *)
(* buffers, any packets and however sends and reads are cut.               *)
(***************************************************************************)
EXTENDS TSocket, SequenceTheorems, TLAPS

-----------------------------------------------------------------------------
(***************************************************************************)
(* The descriptor.  A connection that the kernel knows of is the one fd    *)
(* names, and before Start has connected there is none.                    *)
(***************************************************************************)
FdInv ==
    /\ DescriptorIsConnection
    /\ connects \in Nat /\ fd \in 0 .. connects /\ conns \subseteq 1 .. connects
    /\ link # "none" => fd \in conns
    /\ session_state = "SESSION_STATE_INITED" => fd = NoFd

(***************************************************************************)
(* The two ways in which fd changes: Connect after everything is closed,   *)
(* and Close.                                                              *)
(***************************************************************************)
LEMMA ConnectKeepsFd ==
    ASSUME FdInv, NEW open, open = {}, Connect(open), session_state # "SESSION_STATE_INITED" \/ fd = NoFd
    PROVE  FdInv'
<1>1. connects + 1 \in Nat \ {0} /\ connects' = connects + 1
  BY DEF FdInv, Connect
<1>2. CASE /\ fd' = connects + 1 /\ conns' = {connects + 1}
           /\ socket_state' = "NET_CONNECTING" /\ session_state' = "SESSION_STATE_TCP_SYNING"
  BY <1>1, <1>2 DEF FdInv, DescriptorIsConnection, Connected
<1>3. CASE /\ link' = "none" /\ fd' = NoFd /\ conns' = {}
           /\ socket_state' = "NET_INITED" /\ UNCHANGED session_state
  BY <1>1, <1>3 DEF FdInv, DescriptorIsConnection, Connected, NoFd
<1>4. QED
  BY <1>2, <1>3 DEF Connect

(***************************************************************************)
(* Close leaves no connection.                                             *)
(***************************************************************************)
LEMMA CloseKeepsFd ==
    ASSUME FdInv, NEW s, Close(s), s # "SESSION_STATE_INITED" \/ s = session_state
    PROVE  FdInv'
<1>1. conns \ {fd} = {}
  BY DEF FdInv, DescriptorIsConnection
<1>2. QED
  BY <1>1 DEF FdInv, DescriptorIsConnection, Close, Connected, NoFd

(***************************************************************************)
(* Every step keeps FdInv.                                                 *)
(***************************************************************************)
LEMMA FdStep == FdInv /\ [Next]_vars => FdInv'
<1> SUFFICES ASSUME FdInv, [Next]_vars PROVE FdInv'
  OBVIOUS
<1>1. conns \ {fd} = {}
  BY DEF FdInv, DescriptorIsConnection
<1>2. CASE Start
  <2>1. fd = NoFd /\ conns = {}
    BY <1>2 DEF Start, FdInv, DescriptorIsConnection, NoFd
  <2>2. QED
    BY <1>2, <2>1, ConnectKeepsFd DEF Start
<1>3. CASE Resume
  BY <1>1, <1>3, ConnectKeepsFd DEF Resume
<1>4. CASE Terminate
  BY <1>4, CloseKeepsFd DEF Terminate
<1>5. CASE CheckNonBlockFailed
  BY <1>5, CloseKeepsFd DEF CheckNonBlockFailed
<1>6. CASE CheckNonBlockAssert
  BY <1>6 DEF CheckNonBlockAssert, FdInv, DescriptorIsConnection, Connected
<1>7. CASE CheckNonBlockConnected
  BY <1>7 DEF CheckNonBlockConnected, FdInv, DescriptorIsConnection, Connected
<1>8. CASE ConnectEnds
  BY <1>8 DEF ConnectEnds, FdInv, DescriptorIsConnection
<1>9. CASE PushMessageSendFailed
  BY <1>9 DEF PushMessageSendFailed, CanSend, FdInv, DescriptorIsConnection, Connected
<1>10. ASSUME NEW state \in {"NET_RECV_FAILED", "NET_PEER_CLOSED"}, RecvEnds(state)
       PROVE  FdInv'
  BY <1>10 DEF RecvEnds, CanRecv, FdInv, DescriptorIsConnection, Connected
<1>11. CASE \/ \E k \in 0 .. buff_size : PushMessage(k) \/ Update(k)
            \/ PushMessageFull \/ PeerReads \/ PeerSends \/ PopTooEarly \/ UNCHANGED vars
  <2>1. UNCHANGED connVars
    BY <1>11 DEF PushMessage, Update, PushMessageFull, PeerReads, PeerSends, PopTooEarly, vars
  <2>2. QED
    BY <2>1 DEF connVars, FdInv, DescriptorIsConnection
<1>12. QED
  BY <1>2, <1>3, <1>4, <1>5, <1>6, <1>7, <1>8, <1>9, <1>10, <1>11 DEF Next, CheckNonBlock

(***************************************************************************)
(* What the client and the kernel know of the connection, always.          *)
(***************************************************************************)
LEMMA FdInvariant == Spec => []FdInv
<1>1. Init => FdInv
  BY DEF Init, FdInv, DescriptorIsConnection, Connected, NoFd
<1>2. QED
  BY <1>1, FdStep, PTL DEF Spec

(***************************************************************************)
(* The only connection the client holds is the one it knows the descriptor *)
(* of, and the descriptor it sends and receives with is connected, however *)
(* often connects fail, the connection breaks and the user resumes.        *)
(***************************************************************************)
THEOREM DescriptorIsTheConnection == Spec => []DescriptorIsConnection
<1>1. FdInv => DescriptorIsConnection
  BY DEF FdInv
<1>2. QED
  BY <1>1, FdInvariant, PTL

-----------------------------------------------------------------------------
(***************************************************************************)
(* Packets as bytes.                                                       *)
(***************************************************************************)
LEMMA PacketBytes ==
    /\ \A n \in 1 .. Len(UpLens) : /\ UpLens[n] \in 1 .. buff_size
                                   /\ UpBytes(n) \in Seq(AnyByte) /\ Len(UpBytes(n)) = UpLens[n]
    /\ \A n \in 1 .. Len(DownLens) :
          /\ DownLens[n] \in 1 .. buff_size
          /\ DownBytes(n) \in Seq(AnyByte) /\ Len(DownBytes(n)) = DownLens[n]
          /\ \A j \in 1 .. DownLens[n] :
                DownBytes(n)[j] = [dir |-> "down", pkg |-> n, at |-> j - 1]
<1>1. /\ \A n \in 1 .. Len(UpLens) : n \in Nat /\ UpLens[n] \in 1 .. buff_size
      /\ \A n \in 1 .. Len(DownLens) : n \in Nat /\ DownLens[n] \in 1 .. buff_size
  BY SizesAssumption, SMTT(30)
<1>2. ASSUME NEW dir \in {"up", "down"}, NEW n \in Nat, NEW len \in Nat
      PROVE  /\ Bytes(dir, n, len) \in Seq(AnyByte) /\ Len(Bytes(dir, n, len)) = len
             /\ \A j \in 1 .. len : Bytes(dir, n, len)[j] = [dir |-> dir, pkg |-> n, at |-> j - 1]
  BY DEF Bytes, AnyByte
<1>3. \A i \in 1 .. buff_size : i \in Nat
  BY SizesAssumption
<1>4. QED
  BY <1>1, <1>2, <1>3 DEF UpBytes, DownBytes

(***************************************************************************)
(* RingBuffer: what is in it, and what its operations do to that.          *)
(***************************************************************************)
LEMMA BufferData ==
    ASSUME NEW b \in Buffers
    PROVE  /\ b.mem \in [1 .. buff_size -> AnyByte]
           /\ b.begin \in Nat /\ b.end \in Nat /\ b.begin <= b.end /\ b.end <= buff_size
           /\ Data(b) \in Seq(AnyByte) /\ Len(Data(b)) = b.end - b.begin
           /\ \A i \in 1 .. b.end - b.begin : Data(b)[i] = b.mem[b.begin + i]
<1>1. /\ b.mem \in [1 .. buff_size -> AnyByte]
      /\ b.begin \in Nat /\ b.end \in Nat /\ b.begin <= b.end /\ b.end <= buff_size
  BY DEF Buffers
<1>2. buff_size \in Nat
  BY SizesAssumption
<1>3. \A i \in b.begin + 1 .. b.end : b.mem[i] \in AnyByte
  BY <1>1, <1>2
<1>4. /\ Data(b) \in Seq(AnyByte)
      /\ Len(Data(b)) = IF b.begin + 1 <= b.end THEN b.end - (b.begin + 1) + 1 ELSE 0
      /\ \A i \in 1 .. b.end - (b.begin + 1) + 1 : Data(b)[i] = b.mem[b.begin + 1 + i - 1]
  BY <1>1, <1>3, SubSeqProperties, SMTT(30) DEF Data
<1>5. Len(Data(b)) = b.end - b.begin
  BY <1>1, <1>4
<1>6. ASSUME NEW i \in 1 .. b.end - b.begin PROVE Data(b)[i] = b.mem[b.begin + i]
  <2>1. i \in 1 .. b.end - (b.begin + 1) + 1 /\ b.begin + 1 + i - 1 = b.begin + i
    BY <1>1
  <2>2. QED
    BY <1>4, <2>1
<1>7. QED
  BY <1>1, <1>4, <1>5, <1>6

(***************************************************************************)
(* A buffer with the same bytes at another place holds the same data.      *)
(***************************************************************************)
LEMMA SameData ==
    ASSUME NEW b \in Buffers, NEW d \in Seq(AnyByte), Len(d) = b.end - b.begin,
           \A i \in 1 .. b.end - b.begin : d[i] = b.mem[b.begin + i]
    PROVE  Data(b) = d
<1>1. /\ Data(b) \in Seq(AnyByte) /\ Len(Data(b)) = Len(d)
      /\ \A i \in 1 .. Len(d) : Data(b)[i] = d[i]
  BY BufferData
<1>2. QED
  BY <1>1, SeqEqual

(***************************************************************************)
(* Recycle_ATOMIC moves the data and keeps it.                             *)
(***************************************************************************)
LEMMA RecycleKeepsData ==
    ASSUME NEW b \in Buffers
    PROVE  Recycle(b) \in Buffers /\ Data(Recycle(b)) = Data(b)
<1>1. PICK r : r = Recycle(b)
  OBVIOUS
<1>2. PICK n : n = b.end - b.begin
  OBVIOUS
<1>3. /\ b.mem \in [1 .. buff_size -> AnyByte] /\ b.begin \in Nat /\ buff_size \in Nat
      /\ n \in Nat /\ b.begin + n <= buff_size
  BY <1>2, BufferData, SizesAssumption
<1>4. /\ r.mem = [i \in 1 .. buff_size |-> IF i <= n THEN b.mem[i + b.begin] ELSE b.mem[i]]
      /\ r.begin = 0 /\ r.end = n
  BY <1>1, <1>2 DEF Recycle, Datalen
<1>5. ASSUME NEW i \in 1 .. buff_size
      PROVE  (IF i <= n THEN b.mem[i + b.begin] ELSE b.mem[i]) \in AnyByte
  BY <1>3
<1>6. r.mem \in [1 .. buff_size -> AnyByte]
  BY <1>4, <1>5
<1>7. r \in Buffers
  <2>1. r = [mem |-> r.mem, begin |-> 0, end |-> n]
    BY <1>1, <1>2 DEF Recycle, Datalen
  <2>2. r \in [mem : [1 .. buff_size -> AnyByte], begin : Nat, end : Nat]
    BY <1>3, <1>6, <2>1
  <2>3. r.begin <= r.end /\ r.end <= buff_size
    BY <1>3, <1>4
  <2>4. QED
    BY <2>2, <2>3 DEF Buffers
<1>8. Data(b) \in Seq(AnyByte) /\ Len(Data(b)) = n /\ \A i \in 1 .. n : Data(b)[i] = b.mem[b.begin + i]
  BY <1>2, BufferData
<1>9. \A i \in 1 .. n : r.mem[i] = b.mem[b.begin + i]
  BY <1>3, <1>4
<1>10. r.end - r.begin = n /\ \A i \in 1 .. n : r.begin + i = i
  BY <1>3, <1>4
<1>11. Data(r) = Data(b)
  BY <1>7, <1>8, <1>9, <1>10, SameData
<1>12. QED
  BY <1>1, <1>7, <1>11

(***************************************************************************)
(* Bytes that fit are put behind the data.                                 *)
(***************************************************************************)
LEMMA PutAppendsData ==
    ASSUME NEW b \in Buffers, NEW s \in Seq(AnyByte), Len(s) <= Avaiable(b)
    PROVE  Put(b, s) \in Buffers /\ Data(Put(b, s)) = Data(b) \o s
<1>1. PICK r : r = Put(b, s)
  OBVIOUS
<1>2. PICK n \in Nat : n = b.end - b.begin
  BY BufferData
<1>3. PICK k \in Nat : k = Len(s)
  OBVIOUS
<1>4. /\ b.mem \in [1 .. buff_size -> AnyByte] /\ b.begin \in Nat /\ buff_size \in Nat
      /\ b.end = b.begin + n /\ b.end \in Nat /\ b.end + k <= buff_size
  BY <1>2, <1>3, BufferData, SizesAssumption, SMTT(30) DEF Avaiable
<1>5. PICK f : f = [i \in 1 .. buff_size |->
                      IF i \in b.end + 1 .. b.end + k THEN s[i - b.end] ELSE b.mem[i]]
  OBVIOUS
<1>6. r = [mem |-> f, begin |-> b.begin, end |-> b.end + k]
  <2>1. b = [mem |-> b.mem, begin |-> b.begin, end |-> b.end]
    BY DEF Buffers
  <2>2. QED
    BY <1>1, <1>3, <1>5, <2>1 DEF Put
<1>7. f \in [1 .. buff_size -> AnyByte]
  <2>1. ASSUME NEW i \in b.end + 1 .. b.end + k PROVE s[i - b.end] \in AnyByte
    <3>1. i - b.end \in 1 .. Len(s)
      BY <1>3, <1>4, SMTT(30)
    <3>2. QED
      BY <3>1, ElementOfSeq
  <2>2. QED
    BY <1>4, <1>5, <2>1
<1>8. r \in Buffers
  <2>1. r \in [mem : [1 .. buff_size -> AnyByte], begin : Nat, end : Nat]
    BY <1>4, <1>6, <1>7
  <2>2. r.begin <= r.end /\ r.end <= buff_size
    BY <1>4, <1>6
  <2>3. QED
    BY <2>1, <2>2 DEF Buffers
<1>9. Data(b) \in Seq(AnyByte) /\ Len(Data(b)) = n /\ \A i \in 1 .. n : Data(b)[i] = b.mem[b.begin + i]
  BY <1>2, BufferData
<1>10. PICK d : d = Data(b) \o s
  OBVIOUS
<1>11. /\ d \in Seq(AnyByte) /\ Len(d) = n + k
       /\ \A i \in 1 .. n + k : d[i] = IF i <= n THEN Data(b)[i] ELSE s[i - n]
  <2>1. PICK e \in Seq(AnyByte) : e = Data(b)
    BY <1>9
  <2>2. /\ e \o s \in Seq(AnyByte) /\ Len(e \o s) = Len(e) + Len(s)
        /\ \A i \in 1 .. Len(e) + Len(s) : (e \o s)[i] = IF i <= Len(e) THEN e[i] ELSE s[i - Len(e)]
    BY ConcatProperties
  <2>3. Len(e) = n /\ Len(s) = k /\ d = e \o s
    BY <1>3, <1>9, <1>10, <2>1
  <2>4. QED
    BY <2>1, <2>2, <2>3
<1>12. ASSUME NEW i \in 1 .. n + k PROVE d[i] = f[b.begin + i]
  <2>1. b.begin + i \in 1 .. buff_size
    BY <1>4, SMTT(30)
  <2>2. CASE i <= n
    <3>1. i \in 1 .. n /\ b.begin + i \notin b.end + 1 .. b.end + k
      BY <1>4, <2>2
    <3>2. QED
      BY <1>5, <1>9, <1>11, <2>1, <2>2, <3>1
  <2>3. CASE i > n
    <3>1. PICK a \in Nat : a = b.begin
      BY <1>4
    <3>2. b.end = a + n
      BY <1>4, <3>1
    <3>3. a + i \in a + n + 1 .. a + n + k /\ a + i - (a + n) = i - n
      BY <2>3
    <3>4. PICK q \in 1 .. buff_size : q = b.begin + i
      BY <2>1
    <3>5. q \in b.end + 1 .. b.end + k /\ q - b.end = i - n
      BY <3>1, <3>2, <3>3, <3>4
    <3>6. f[q] = s[q - b.end]
      BY <1>5, <3>5
    <3>7. d[i] = s[i - n]
      BY <1>11, <2>3
    <3>8. QED
      BY <3>4, <3>5, <3>6, <3>7
  <2>4. QED
    BY <2>2, <2>3
<1>13. r.end - r.begin = n + k /\ r.mem = f /\ r.begin = b.begin
  BY <1>4, <1>6
<1>14. Data(r) = d
  BY <1>8, <1>11, <1>12, <1>13, SameData
<1>15. QED
  BY <1>1, <1>8, <1>10, <1>14

(***************************************************************************)
(* Moving begin on by k drops the first k bytes.                           *)
(***************************************************************************)
LEMMA SkipDropsData ==
    ASSUME NEW b \in Buffers, NEW k \in 0 .. Datalen(b)
    PROVE  /\ [b EXCEPT !.begin = @ + k] \in Buffers
           /\ Data([b EXCEPT !.begin = @ + k]) = SubSeq(Data(b), k + 1, Len(Data(b)))
<1>1. PICK r : r = [b EXCEPT !.begin = @ + k]
  OBVIOUS
<1>2. PICK n \in Nat : n = b.end - b.begin
  BY BufferData
<1>3. /\ b.mem \in [1 .. buff_size -> AnyByte] /\ b.begin \in Nat /\ buff_size \in Nat
      /\ b.end = b.begin + n /\ b.end \in Nat /\ b.end <= buff_size /\ k \in Nat /\ k <= n
  BY <1>2, BufferData, SizesAssumption DEF Datalen
<1>4. r = [mem |-> b.mem, begin |-> b.begin + k, end |-> b.end]
  <2>1. b = [mem |-> b.mem, begin |-> b.begin, end |-> b.end]
    BY DEF Buffers
  <2>2. QED
    BY <1>1, <2>1
<1>5. r \in Buffers
  <2>1. r \in [mem : [1 .. buff_size -> AnyByte], begin : Nat, end : Nat]
    BY <1>3, <1>4
  <2>2. r.begin <= r.end /\ r.end <= buff_size
    BY <1>3, <1>4
  <2>3. QED
    BY <2>1, <2>2 DEF Buffers
<1>6. Data(b) \in Seq(AnyByte) /\ Len(Data(b)) = n /\ \A i \in 1 .. n : Data(b)[i] = b.mem[b.begin + i]
  BY <1>2, BufferData
<1>7. \A i \in k + 1 .. n : Data(b)[i] \in AnyByte
  BY <1>3, <1>6, ElementOfSeq
<1>8. PICK d : d = SubSeq(Data(b), k + 1, n)
  OBVIOUS
<1>9. /\ d \in Seq(AnyByte) /\ Len(d) = IF k + 1 <= n THEN n - (k + 1) + 1 ELSE 0
      /\ \A i \in 1 .. n - (k + 1) + 1 : d[i] = Data(b)[k + 1 + i - 1]
  BY <1>3, <1>7, <1>8, SubSeqProperties
<1>10. Len(d) = n - k
  BY <1>3, <1>9
<1>11. ASSUME NEW i \in 1 .. n - k PROVE d[i] = b.mem[b.begin + k + i]
  <2>1. i \in 1 .. n - (k + 1) + 1 /\ k + 1 + i - 1 = k + i
    BY <1>3
  <2>2. d[i] = Data(b)[k + i] /\ k + i \in 1 .. n
    BY <1>3, <1>9, <2>1
  <2>3. b.begin + (k + i) = b.begin + k + i
    BY <1>3
  <2>4. QED
    BY <1>6, <2>2, <2>3
<1>12. r.end - r.begin = n - k /\ r.mem = b.mem /\ r.begin = b.begin + k
  BY <1>3, <1>4
<1>13. Data(r) = d
  BY <1>5, <1>9, <1>10, <1>11, <1>12, SameData
<1>14. QED
  BY <1>1, <1>5, <1>6, <1>8, <1>13

(***************************************************************************)
(* Reset and Malloc leave an empty buffer.                                 *)
(***************************************************************************)
LEMMA EmptyBuffers ==
    /\ Malloc \in Buffers /\ Data(Malloc) = <<>>
    /\ \A b \in Buffers : Rewind(b) \in Buffers /\ Data(Rewind(b)) = <<>>
<1>1. buff_size \in Nat
  BY SizesAssumption
<1>2. \A s : SubSeq(s, 0 + 1, 0) = <<>>
  BY SubSeqEmpty
<1>3. Malloc \in Buffers /\ Data(Malloc) = <<>>
  <2>1. [i \in 1 .. buff_size |-> Zero] \in [1 .. buff_size -> AnyByte]
    BY DEF Zero, AnyByte
  <2>2. Malloc \in Buffers
    BY <1>1, <2>1 DEF Malloc, Buffers
  <2>3. QED
    BY <1>2, <2>2 DEF Malloc, Data
<1>4. ASSUME NEW b \in Buffers PROVE Rewind(b) \in Buffers /\ Data(Rewind(b)) = <<>>
  <2>1. b \in [mem : [1 .. buff_size -> AnyByte], begin : Nat, end : Nat]
    BY DEF Buffers
  <2>2. Rewind(b) = [mem |-> b.mem, begin |-> 0, end |-> 0]
    BY DEF Rewind
  <2>3. Rewind(b) \in Buffers
    BY <1>1, <2>1, <2>2 DEF Buffers
  <2>4. QED
    BY <1>2, <2>2, <2>3 DEF Data
<1>5. QED
  BY <1>3, <1>4

-----------------------------------------------------------------------------
(***************************************************************************)
(* Streams that are cut and put together again.                            *)
(***************************************************************************)
LEMMA CutAnywhere ==
    ASSUME NEW S, NEW s \in Seq(S), NEW k \in 0 .. Len(s)
    PROVE  /\ SubSeq(s, 1, k) \in Seq(S) /\ SubSeq(s, k + 1, Len(s)) \in Seq(S)
           /\ Len(SubSeq(s, 1, k)) = k
           /\ SubSeq(s, 1, k) \o SubSeq(s, k + 1, Len(s)) = s
<1>1. Len(s) \in Nat /\ k \in Nat /\ 1 \in 1 .. Len(s) + 1 /\ k \in 1 - 1 .. Len(s)
      /\ Len(s) \in k .. Len(s)
  OBVIOUS
<1>2. SubSeq(s, 1, k) \o SubSeq(s, k + 1, Len(s)) = SubSeq(s, 1, Len(s))
  BY <1>1, ConcatAdjacentSubSeq
<1>3. SubSeq(s, 1, Len(s)) = s
  BY SubSeqFull
<1>4. \A i \in 1 .. Len(s) : s[i] \in S
  BY ElementOfSeq
<1>5. SubSeq(s, 1, k) \in Seq(S) /\ Len(SubSeq(s, 1, k)) = k
  BY <1>1, <1>4, SubSeqProperties
<1>6. SubSeq(s, k + 1, Len(s)) \in Seq(S)
  BY <1>1, <1>4, SubSeqProperties
<1>7. QED
  BY <1>2, <1>3, <1>5, <1>6

(***************************************************************************)
(* Concatenation under a name of its own, of which the provers know no     *)
(* more than that it is associative.                                       *)
(***************************************************************************)
Cat(s, t) == s \o t

(***************************************************************************)
(* Concatenation of byte sequences is associative.                         *)
(***************************************************************************)
LEMMA CatFacts ==
    \A s, t, u \in Seq(AnyByte) : /\ Cat(s, t) \in Seq(AnyByte)
                                  /\ Cat(Cat(s, t), u) = Cat(s, Cat(t, u))
<1>1. ASSUME NEW s \in Seq(AnyByte), NEW t \in Seq(AnyByte), NEW u \in Seq(AnyByte)
      PROVE  s \o t \in Seq(AnyByte) /\ (s \o t) \o u = s \o (t \o u)
  <2>1. s \o t \in Seq(AnyByte)
    BY ConcatProperties
  <2>2. (s \o t) \o u = s \o (t \o u)
    BY ConcatAssociative
  <2>3. QED
    BY <2>1, <2>2
<1>2. QED
  BY <1>1 DEF Cat

(***************************************************************************)
(* x \o y is what is queued, d, followed by what is new, u.                *)
(***************************************************************************)
LEMMA StreamMoves ==
    ASSUME NEW a \in Seq(AnyByte), NEW w \in Seq(AnyByte), NEW d \in Seq(AnyByte),
           NEW u \in Seq(AnyByte), NEW x \in Seq(AnyByte), NEW y \in Seq(AnyByte),
           Cat(x, y) = Cat(d, u)
    PROVE  Cat(Cat(a, Cat(w, x)), y) = Cat(Cat(Cat(a, w), d), u)
BY CatFacts

(***************************************************************************)
(* The first byte of w goes to the end of a.                               *)
(***************************************************************************)
LEMMA ByteMoves ==
    ASSUME NEW a \in Seq(AnyByte), NEW w \in Seq(AnyByte), w # <<>>
    PROVE  /\ Append(a, Head(w)) \in Seq(AnyByte) /\ Tail(w) \in Seq(AnyByte)
           /\ Append(a, Head(w)) \o Tail(w) = a \o w
<1>1. Len(w) \in Nat \ {0} /\ Tail(w) \in Seq(AnyByte) /\ Head(w) \in AnyByte
  BY EmptySeq, HeadTailProperties
<1>2. PICK h \in AnyByte : h = Head(w)
  BY <1>1
<1>3. h = w[1] /\ 1 \in 1 .. Len(w) /\ Len(w) \in 1 .. Len(w)
  BY <1>1, <1>2
<1>4. SubSeq(w, 1, Len(w)) = <<w[1]>> \o SubSeq(w, 1 + 1, Len(w))
  BY <1>3, SubSeqRecursiveFirst
<1>5. SubSeq(w, 1, Len(w)) = w /\ Tail(w) = SubSeq(w, 2, Len(w))
  BY SubSeqFull, TailIsSubSeq
<1>6. w = <<h>> \o Tail(w)
  BY <1>3, <1>4, <1>5
<1>7. Append(a, h) \in Seq(AnyByte) /\ Append(a, h) = a \o <<h>> /\ <<h>> \in Seq(AnyByte)
  BY AppendIsConcat
<1>8. PICK one \in Seq(AnyByte), t \in Seq(AnyByte) : one = <<h>> /\ t = Tail(w)
  BY <1>1, <1>7
<1>9. Cat(Cat(a, one), t) = Cat(a, Cat(one, t))
  BY CatFacts
<1>10. QED
  BY <1>1, <1>2, <1>6, <1>7, <1>8, <1>9 DEF Cat

-----------------------------------------------------------------------------
(***************************************************************************)
(* The stream to the peer.                                                 *)
(***************************************************************************)
SendInv ==
    /\ send_buf \in Buffers
    /\ wire \in Seq(AnyByte) /\ arrived \in Seq(AnyByte) /\ accepted \in Seq(AnyByte)
    /\ pushed \in 0 .. Len(UpLens)
    /\ SendStreamIntact

(***************************************************************************)
(* After Reset there is nothing anywhere.                                  *)
(***************************************************************************)
LEMMA ResetKeepsSendInv ==
    ASSUME SendInv, Reset
    PROVE  SendInv'
<1>1. /\ send_buf' = Rewind(send_buf) /\ wire' = <<>> /\ arrived' = <<>> /\ accepted' = <<>>
      /\ UNCHANGED pushed
  BY DEF Reset
<1>2. send_buf' \in Buffers /\ Data(send_buf') = <<>>
  BY <1>1, EmptyBuffers DEF SendInv
<1>3. arrived' \o wire' \o Data(send_buf') = accepted'
  BY <1>1, <1>2
<1>4. QED
  BY <1>1, <1>2, <1>3 DEF SendInv, SendStreamIntact

(***************************************************************************)
(* PushMessage queues the packet and sends k bytes of what is queued then. *)
(***************************************************************************)
LEMMA PushKeepsSendInv ==
    ASSUME SendInv, NEW k \in 0 .. buff_size, PushMessage(k)
    PROVE  SendInv'
<1>1. PICK n : n = pushed + 1
  OBVIOUS
<1>2. PICK full : full = Put(send_buf, UpBytes(n))
  OBVIOUS
<1>3. PICK D : D = Data(full)
  OBVIOUS
<1>4. /\ n \in 1 .. Len(UpLens) /\ UpLens[n] <= Avaiable(send_buf) /\ k <= Datalen(full)
      /\ wire' = wire \o SubSeq(D, 1, k) /\ send_buf' = Sent(full, k)
      /\ accepted' = accepted \o UpBytes(n) /\ pushed' = n /\ arrived' = arrived
  BY <1>1, <1>2, <1>3, SizesAssumption DEF PushMessage, SendInv
<1>5. UpBytes(n) \in Seq(AnyByte) /\ Len(UpBytes(n)) <= Avaiable(send_buf)
  BY <1>4, PacketBytes
<1>6. full \in Buffers /\ D = Data(send_buf) \o UpBytes(n)
  BY <1>2, <1>3, <1>5, PutAppendsData DEF SendInv
<1>7. D \in Seq(AnyByte) /\ Datalen(full) = Len(D) /\ k \in 0 .. Len(D) /\ k \in 0 .. Datalen(full)
  <2>1. D \in Seq(AnyByte) /\ Datalen(full) = Len(D)
    BY <1>3, <1>6, BufferData DEF Datalen
  <2>2. k \in Nat
    BY SizesAssumption
  <2>3. QED
    BY <1>4, <2>1, <2>2
<1>8. Sent(full, k) \in Buffers /\ Data(Sent(full, k)) = SubSeq(D, k + 1, Len(D))
  <2>1. CASE k = 0
    <3>1. SubSeq(D, k + 1, Len(D)) = D
      BY <1>7, <2>1, SubSeqFull
    <3>2. QED
      BY <1>3, <1>6, <2>1, <3>1 DEF Sent
  <2>2. CASE k # 0
    <3>1. PICK r : r = [full EXCEPT !.begin = @ + k]
      OBVIOUS
    <3>2. r \in Buffers /\ Data(r) = SubSeq(D, k + 1, Len(D))
      BY <1>3, <1>6, <1>7, <3>1, SkipDropsData
    <3>3. Sent(full, k) = Recycle(r)
      BY <2>2, <3>1 DEF Sent
    <3>4. QED
      BY <3>2, <3>3, RecycleKeepsData
  <2>3. QED
    BY <2>1, <2>2
<1>9. PICK x, y : x = SubSeq(D, 1, k) /\ y = SubSeq(D, k + 1, Len(D))
  OBVIOUS
<1>10. x \in Seq(AnyByte) /\ y \in Seq(AnyByte) /\ x \o y = D
  BY <1>7, <1>9, CutAnywhere
<1>11. PICK d \in Seq(AnyByte), u \in Seq(AnyByte) : d = Data(send_buf) /\ u = UpBytes(n)
  BY <1>5, BufferData DEF SendInv
<1>12. Cat(Cat(arrived, Cat(wire, x)), y) = Cat(Cat(Cat(arrived, wire), d), u)
  <2>1. Cat(x, y) = Cat(d, u)
    BY <1>6, <1>10, <1>11 DEF Cat
  <2>2. QED
    BY <1>10, <2>1, StreamMoves, SMTT(30) DEF SendInv
<1>13. SendStreamIntact'
  BY <1>4, <1>8, <1>9, <1>11, <1>12 DEF SendInv, SendStreamIntact, Cat
<1>14. wire' \in Seq(AnyByte) /\ accepted' \in Seq(AnyByte)
  BY <1>4, <1>5, <1>9, <1>10, ConcatProperties DEF SendInv
<1>15. QED
  BY <1>4, <1>8, <1>13, <1>14, SizesAssumption DEF SendInv

(***************************************************************************)
(* A push whose send fails only queues.                                    *)
(***************************************************************************)
LEMMA FailedPushKeepsSendInv ==
    ASSUME SendInv, PushMessageSendFailed
    PROVE  SendInv'
<1>1. PICK n : n = pushed + 1
  OBVIOUS
<1>2. /\ n \in 1 .. Len(UpLens) /\ UpLens[n] <= Avaiable(send_buf)
      /\ send_buf' = Put(send_buf, UpBytes(n))
      /\ accepted' = accepted \o UpBytes(n) /\ pushed' = n /\ UNCHANGED <<wire, arrived>>
  BY <1>1, SizesAssumption DEF PushMessageSendFailed, SendInv
<1>3. UpBytes(n) \in Seq(AnyByte) /\ Len(UpBytes(n)) <= Avaiable(send_buf)
  BY <1>2, PacketBytes
<1>4. send_buf' \in Buffers /\ Data(send_buf') = Data(send_buf) \o UpBytes(n)
  BY <1>2, <1>3, PutAppendsData DEF SendInv
<1>5. Data(send_buf) \in Seq(AnyByte)
  BY BufferData DEF SendInv
<1>6. Cat(Cat(arrived, wire), Cat(Data(send_buf), UpBytes(n)))
         = Cat(Cat(Cat(arrived, wire), Data(send_buf)), UpBytes(n))
  BY <1>3, <1>5, CatFacts DEF SendInv
<1>7. SendStreamIntact'
  BY <1>2, <1>4, <1>6 DEF SendInv, SendStreamIntact, Cat
<1>8. accepted' \in Seq(AnyByte)
  BY <1>2, <1>3, ConcatProperties DEF SendInv
<1>9. QED
  BY <1>2, <1>4, <1>7, <1>8, SizesAssumption DEF SendInv

(***************************************************************************)
(* Every step keeps SendInv.                                               *)
(***************************************************************************)
LEMMA SendStep == SendInv /\ [Next]_vars => SendInv'
<1> SUFFICES ASSUME SendInv, [Next]_vars PROVE SendInv'
  OBVIOUS
<1>1. CASE Resume \/ Terminate \/ CheckNonBlockFailed
  BY <1>1, ResetKeepsSendInv DEF Resume, Terminate, CheckNonBlockFailed, Close
<1>2. ASSUME NEW k \in 0 .. buff_size, PushMessage(k) PROVE SendInv'
  BY <1>2, PushKeepsSendInv
<1>3. CASE PushMessageSendFailed
  BY <1>3, FailedPushKeepsSendInv
<1>4. CASE PushMessageFull
  <2>1. pushed' = pushed + 1 /\ pushed + 1 <= Len(UpLens) /\ Len(UpLens) \in Nat
    BY <1>4, SizesAssumption DEF PushMessageFull
  <2>2. pushed' \in 0 .. Len(UpLens)
    BY <2>1 DEF SendInv
  <2>3. QED
    BY <1>4, <2>2 DEF PushMessageFull, SendInv, SendStreamIntact
<1>5. CASE PeerReads
  <2>1. /\ wire # <<>> /\ arrived' = Append(arrived, Head(wire)) /\ wire' = Tail(wire)
        /\ UNCHANGED <<send_buf, pushed, accepted>>
    BY <1>5 DEF PeerReads
  <2>2. arrived' \in Seq(AnyByte) /\ wire' \in Seq(AnyByte) /\ arrived' \o wire' = arrived \o wire
    BY <2>1, ByteMoves DEF SendInv
  <2>3. QED
    BY <2>1, <2>2 DEF SendInv, SendStreamIntact
<1>6. CASE \/ Start \/ CheckNonBlockAssert \/ CheckNonBlockConnected \/ ConnectEnds
           \/ PeerSends \/ PopTooEarly \/ UNCHANGED vars
           \/ \E k \in 0 .. buff_size : Update(k)
           \/ \E state \in {"NET_RECV_FAILED", "NET_PEER_CLOSED"} : RecvEnds(state)
  <2>1. UNCHANGED upVars
    BY <1>6 DEF Start, CheckNonBlockAssert, CheckNonBlockConnected, ConnectEnds, PeerSends,
                PopTooEarly, vars, Update, RecvEnds
  <2>2. QED
    BY <2>1 DEF upVars, SendInv, SendStreamIntact
<1>7. QED
  BY <1>1, <1>2, <1>3, <1>4, <1>5, <1>6 DEF Next, CheckNonBlock

(***************************************************************************)
(* The stream to the peer, always.                                         *)
(***************************************************************************)
LEMMA SendInvariant == Spec => []SendInv
<1>1. Init => SendInv
  <2> SUFFICES ASSUME Init PROVE SendInv
    OBVIOUS
  <2>1. /\ send_buf = Malloc /\ wire = <<>> /\ arrived = <<>> /\ accepted = <<>> /\ pushed = 0
        /\ Len(UpLens) \in Nat
    BY SizesAssumption DEF Init
  <2>2. send_buf \in Buffers /\ Data(send_buf) = <<>>
    BY <2>1, EmptyBuffers
  <2>3. arrived \o wire \o Data(send_buf) = accepted
    BY <2>1, <2>2
  <2>4. QED
    BY <2>1, <2>2, <2>3 DEF SendInv, SendStreamIntact
<1>2. QED
  BY <1>1, SendStep, PTL DEF Spec

(***************************************************************************)
(* What PushMessage took arrives byte for byte and in order, or is still   *)
(* under way, for any packets, any size of the buffer and wherever the     *)
(* kernel cuts the sends.                                                  *)
(***************************************************************************)
THEOREM SendStreamStaysIntact == Spec => []SendStreamIntact
<1>1. SendInv => SendStreamIntact
  BY DEF SendInv
<1>2. QED
  BY <1>1, SendInvariant, PTL

-----------------------------------------------------------------------------
(***************************************************************************)
(* The stream from the peer.  It consists of whole packets: every byte is  *)
(* one of a packet that begins behind some o bytes.                        *)
(***************************************************************************)
PacketAt(s, o, p) ==
    /\ o + DownLens[p] <= Len(s)
    /\ \A j \in 1 .. DownLens[p] : s[o + j] = DownBytes(p)[j]

Framed(s) ==
    \A i \in 1 .. Len(s) : \E o \in Nat, p \in 1 .. Len(DownLens) :
        /\ o < i /\ i <= o + DownLens[p]
        /\ PacketAt(s, o, p)

(***************************************************************************)
(* The peer sends one more packet.                                         *)
(***************************************************************************)
LEMMA FramedAppend ==
    ASSUME NEW s \in Seq(AnyByte), NEW n \in 1 .. Len(DownLens), Framed(s)
    PROVE  Framed(Cat(s, DownBytes(n)))
<1>1. PICK t : t = Cat(s, DownBytes(n))
  OBVIOUS
<1>2. PICK m \in Nat : m = Len(s)
  OBVIOUS
<1>3. PICK k \in Nat : k = DownLens[n]
  BY PacketBytes
<1>4. DownBytes(n) \in Seq(AnyByte) /\ Len(DownBytes(n)) = k
  BY <1>3, PacketBytes
<1>5. /\ Len(t) = m + k
      /\ \A i \in 1 .. m + k : t[i] = IF i <= m THEN s[i] ELSE DownBytes(n)[i - m]
  BY <1>1, <1>2, <1>4, ConcatProperties DEF Cat
<1>6. PacketAt(t, m, n)
  <2>1. ASSUME NEW j \in 1 .. k PROVE t[m + j] = DownBytes(n)[j]
    <3>1. PICK q \in 1 .. m + k : q = m + j
      OBVIOUS
    <3>2. ~(q <= m) /\ q - m = j
      BY <3>1
    <3>3. QED
      BY <1>5, <3>1, <3>2
  <2>2. QED
    BY <1>3, <1>5, <2>1 DEF PacketAt
<1>7. ASSUME NEW i \in 1 .. m + k
      PROVE  \E o \in Nat, p \in 1 .. Len(DownLens) :
                 o < i /\ i <= o + DownLens[p] /\ PacketAt(t, o, p)
  <2>1. CASE i <= m
    <3>1. PICK o \in Nat, p \in 1 .. Len(DownLens) :
             o < i /\ i <= o + DownLens[p] /\ PacketAt(s, o, p)
      BY <1>2, <2>1 DEF Framed
    <3>2. PICK l \in Nat : l = DownLens[p]
      BY PacketBytes
    <3>3. o + l <= m /\ \A j \in 1 .. l : s[o + j] = DownBytes(p)[j]
      BY <1>2, <3>1, <3>2 DEF PacketAt
    <3>4. ASSUME NEW j \in 1 .. l PROVE t[o + j] = s[o + j]
      <4>1. PICK q \in 1 .. m + k : q = o + j
        BY <3>3
      <4>2. q <= m
        BY <3>3, <4>1
      <4>3. QED
        BY <1>5, <4>1, <4>2
    <3>5. o + l <= m + k
      BY <3>3
    <3>6. PacketAt(t, o, p)
      BY <1>5, <3>2, <3>3, <3>4, <3>5 DEF PacketAt
    <3>7. QED
      BY <3>1, <3>6
  <2>2. CASE i > m
    <3>1. m < i /\ i <= m + DownLens[n]
      BY <1>3, <2>2
    <3>2. QED
      BY <1>6, <3>1
  <2>3. QED
    BY <2>1, <2>2
<1>8. QED
  BY <1>1, <1>5, <1>7 DEF Framed

(***************************************************************************)
(* The byte in front is the first one of a packet; as many bytes as its    *)
(* length says are that packet, and what follows is whole packets again.   *)
(***************************************************************************)
LEMMA FramedFirst ==
    ASSUME NEW s \in Seq(AnyByte), s # <<>>, Framed(s)
    PROVE  \E p \in 1 .. Len(DownLens) : PacketAt(s, 0, p) /\ s[1] = DownBytes(p)[1]
<1>1. Len(s) \in Nat \ {0}
  BY EmptySeq
<1>2. PICK o \in Nat, p \in 1 .. Len(DownLens) :
         o < 1 /\ 1 <= o + DownLens[p] /\ PacketAt(s, o, p)
  BY <1>1 DEF Framed
<1>3. o = 0
  BY <1>2
<1>4. DownLens[p] \in Nat /\ 1 \in 1 .. DownLens[p]
  BY <1>2, <1>3, PacketBytes
<1>5. s[0 + 1] = DownBytes(p)[1]
  BY <1>2, <1>3, <1>4 DEF PacketAt
<1>6. QED
  BY <1>2, <1>3, <1>5

(***************************************************************************)
(* A framed stream that begins with packet p loses exactly that packet and *)
(* stays framed.                                                           *)
(***************************************************************************)
LEMMA FramedDrop ==
    ASSUME NEW h \in Seq(AnyByte), NEW r \in Seq(AnyByte), NEW p \in 1 .. Len(DownLens),
           Framed(Cat(h, r)), PacketAt(Cat(h, r), 0, p), Len(h) = DownLens[p]
    PROVE  h = DownBytes(p) /\ Framed(r)
<1>1. PICK s : s = Cat(h, r)
  OBVIOUS
<1>2. PICK L \in Nat \ {0} : L = DownLens[p]
  BY PacketBytes
<1>3. PICK m \in Nat : m = Len(r)
  OBVIOUS
<1>4. /\ Len(s) = L + m
      /\ \A i \in 1 .. L + m : s[i] = IF i <= L THEN h[i] ELSE r[i - L]
  BY <1>1, <1>2, <1>3, ConcatProperties DEF Cat
<1>5. \A j \in 1 .. L : s[j] = DownBytes(p)[j]
  BY <1>1, <1>2 DEF PacketAt
<1>6. h = DownBytes(p)
  <2>1. \A j \in 1 .. L : s[j] = h[j]
    BY <1>4
  <2>2. DownBytes(p) \in Seq(AnyByte) /\ Len(DownBytes(p)) = L
    BY <1>2, PacketBytes
  <2>3. QED
    BY <1>2, <1>5, <2>1, <2>2, SeqEqual
<1>7. ASSUME NEW i \in 1 .. m
      PROVE  \E o \in Nat, q \in 1 .. Len(DownLens) :
                 o < i /\ i <= o + DownLens[q] /\ PacketAt(r, o, q)
  <2>1. PICK e \in 1 .. L + m : e = L + i
    OBVIOUS
  <2>2. PICK o \in Nat, q \in 1 .. Len(DownLens) :
           o < e /\ e <= o + DownLens[q] /\ PacketAt(s, o, q)
    BY <1>1, <1>4, <2>1 DEF Framed
  <2>3. PICK l \in Nat \ {0} : l = DownLens[q]
    BY PacketBytes
  <2>4. o + l <= L + m /\ \A j \in 1 .. l : s[o + j] = DownBytes(q)[j]
    BY <1>4, <2>2, <2>3 DEF PacketAt
  <2>5. o >= L
    <3>1. SUFFICES ASSUME o < L PROVE FALSE
      BY <1>2
    <3>2. s[o + 1] = DownBytes(p)[o + 1] /\ s[o + 1] = DownBytes(q)[1]
      <4>1. o + 1 \in 1 .. L
        BY <3>1, SMTT(30)
      <4>2. 1 \in 1 .. l
        BY SMTT(30)
      <4>3. QED
        BY <1>5, <2>4, <4>1, <4>2
    <3>3. DownBytes(p)[o + 1].at = o /\ DownBytes(p)[o + 1].pkg = p
      <4>1. PICK x \in 1 .. DownLens[p] : x = o + 1
        BY <1>2, <3>1
      <4>2. DownBytes(p)[x] = [dir |-> "down", pkg |-> p, at |-> x - 1]
        BY PacketBytes
      <4>3. x - 1 = o
        BY <1>2, <4>1
      <4>4. QED
        BY <4>1, <4>2, <4>3
    <3>4. DownBytes(q)[1].at = 0 /\ DownBytes(q)[1].pkg = q
      <4>1. 1 \in 1 .. DownLens[q]
        BY <2>3
      <4>2. DownBytes(q)[1] = [dir |-> "down", pkg |-> q, at |-> 1 - 1]
        BY <4>1, PacketBytes
      <4>3. QED
        BY <4>2
    <3>5. o = 0 /\ p = q
      BY <3>2, <3>3, <3>4
    <3>6. L + i <= L
      BY <1>2, <2>1, <2>2, <2>3, <3>5
    <3>7. QED
      BY <3>6
  <2>6. PICK u \in Nat : o = L + u
    BY <2>5
  <2>7. u < i /\ i <= u + l /\ u + l <= m
    BY <2>1, <2>2, <2>3, <2>4, <2>6, SMTT(30)
  <2>8. ASSUME NEW j \in 1 .. l PROVE r[u + j] = DownBytes(q)[j]
    <3>1. PICK x \in 1 .. L + m : x = o + j
      <4>1. o + j \in Nat /\ 1 <= o + j /\ o + j <= o + l
        BY <2>3
      <4>2. QED
        BY <2>4, <4>1
    <3>2. ~(x <= L) /\ x - L = u + j
      <4>1. x = L + u + j /\ L \in Nat /\ j \in Nat \ {0}
        BY <1>2, <2>3, <2>6, <3>1
      <4>2. QED
        BY <4>1
    <3>3. s[x] = r[u + j]
      BY <1>4, <3>2
    <3>4. QED
      BY <2>4, <3>1, <3>3
  <2>9. PacketAt(r, u, q)
    BY <1>3, <2>3, <2>7, <2>8 DEF PacketAt
  <2>10. QED
    BY <2>3, <2>7, <2>9
<1>8. QED
  BY <1>3, <1>6, <1>7 DEF Framed

(***************************************************************************)
(* What the client has not taken yet is whole packets.                     *)
(***************************************************************************)
RecvInv ==
    /\ recv_buf \in Buffers
    /\ inbox \in Seq(AnyByte) /\ taken \in Seq(AnyByte) /\ expected \in Seq(AnyByte)
    /\ peer_sent \in 0 .. Len(DownLens)
    /\ RecvStreamIntact
    /\ Framed(Cat(Data(recv_buf), inbox))

(***************************************************************************)
(* The two parts of RecvInv that are about bytes, from the next values.    *)
(***************************************************************************)
LEMMA RecvInvNext ==
    ASSUME recv_buf' \in Buffers, inbox' \in Seq(AnyByte), taken' \in Seq(AnyByte),
           expected' \in Seq(AnyByte), peer_sent' \in 0 .. Len(DownLens),
           NEW d, d = Data(recv_buf'),
           Cat(Cat(taken', d), inbox') = expected', Framed(Cat(d, inbox'))
    PROVE  RecvInv'
BY DEF RecvInv, RecvStreamIntact, Cat

(***************************************************************************)
(* After Reset there is nothing anywhere.                                  *)
(***************************************************************************)
LEMMA NothingIsFramed == Framed(Cat(<<>>, <<>>)) /\ Cat(Cat(<<>>, <<>>), <<>>) = <<>>
BY DEF Framed, Cat

(***************************************************************************)
(* Reset empties both buffers and begins a new stream.                     *)
(***************************************************************************)
LEMMA ResetKeepsRecvInv ==
    ASSUME RecvInv, Reset
    PROVE  RecvInv'
<1>1. /\ recv_buf' = Rewind(recv_buf) /\ inbox' = <<>> /\ taken' = <<>> /\ expected' = <<>>
      /\ UNCHANGED peer_sent
  BY DEF Reset
<1>2. recv_buf' \in Buffers /\ Data(recv_buf') = <<>>
  BY <1>1, EmptyBuffers DEF RecvInv
<1>3. <<>> \in Seq(AnyByte) /\ peer_sent' \in 0 .. Len(DownLens)
  BY <1>1 DEF RecvInv
<1>4. QED
  BY <1>1, <1>2, <1>3, NothingIsFramed, RecvInvNext

(***************************************************************************)
(* The buffer is compacted and nothing else happens.                       *)
(***************************************************************************)
LEMMA SameDataKeepsRecvInv ==
    ASSUME RecvInv, recv_buf' \in Buffers, Data(recv_buf') = Data(recv_buf),
           UNCHANGED <<inbox, taken, expected, peer_sent>>
    PROVE  RecvInv'
BY DEF RecvInv, RecvStreamIntact

(***************************************************************************)
(* Making room moves the data of a buffer to its front and keeps it.       *)
(***************************************************************************)
LEMMA RoomKeepsData ==
    ASSUME NEW b \in Buffers
    PROVE  Room(b) \in Buffers /\ Data(Room(b)) = Data(b)
BY RecycleKeepsData DEF Room

(***************************************************************************)
(* The peer sends a packet.                                                *)
(***************************************************************************)
LEMMA PeerSendsKeepsRecvInv ==
    ASSUME RecvInv, PeerSends
    PROVE  RecvInv'
<1>1. PICK n : n = peer_sent + 1
  OBVIOUS
<1>2. /\ n \in 1 .. Len(DownLens) /\ inbox' = inbox \o DownBytes(n) /\ peer_sent' = n
      /\ expected' = expected \o DownBytes(n) /\ UNCHANGED <<recv_buf, taken>>
  BY <1>1, SizesAssumption DEF PeerSends, RecvInv
<1>3. PICK d \in Seq(AnyByte), u \in Seq(AnyByte) : d = Data(recv_buf) /\ u = DownBytes(n)
  BY <1>2, PacketBytes, BufferData DEF RecvInv
<1>4. inbox' = Cat(inbox, u) /\ expected' = Cat(expected, u)
  BY <1>2, <1>3 DEF Cat
<1>5. Cat(Cat(taken, d), inbox) = expected
  BY <1>3 DEF RecvInv, RecvStreamIntact, Cat
<1>6. /\ inbox \in Seq(AnyByte) /\ taken \in Seq(AnyByte) /\ expected \in Seq(AnyByte)
      /\ Framed(Cat(d, inbox))
  BY <1>3 DEF RecvInv
<1>7. Cat(Cat(taken, d), Cat(inbox, u)) = Cat(Cat(Cat(taken, d), inbox), u)
  BY <1>6, CatFacts
<1>8. Cat(d, Cat(inbox, u)) = Cat(Cat(d, inbox), u) /\ Cat(d, inbox) \in Seq(AnyByte)
  BY <1>6, CatFacts
<1>9. Framed(Cat(Cat(d, inbox), u))
  BY <1>2, <1>3, <1>6, <1>8, FramedAppend
<1>10. inbox' \in Seq(AnyByte) /\ expected' \in Seq(AnyByte)
  BY <1>4, <1>6, CatFacts
<1>11. peer_sent' \in 0 .. Len(DownLens)
  BY <1>2, SizesAssumption
<1>12. recv_buf' \in Buffers /\ d = Data(recv_buf')
  BY <1>2, <1>3 DEF RecvInv
<1>13. Cat(Cat(taken', d), inbox') = expected' /\ Framed(Cat(d, inbox'))
  BY <1>2, <1>4, <1>5, <1>7, <1>8, <1>9
<1>14. QED
  BY <1>2, <1>6, <1>10, <1>11, <1>12, <1>13, RecvInvNext

(***************************************************************************)
(* The packet in front of the buffer is complete: it is handed out whole.  *)
(***************************************************************************)
LEMMA PopTakesAPacket ==
    ASSUME NEW b \in Buffers, NEW rest \in Seq(AnyByte), Framed(Cat(Data(b), rest)), HasNewPkg(b)
    PROVE  /\ PopFromRecvQ(b) \in Buffers
           /\ DownBytes(b.mem[b.begin + 1].pkg) \in Seq(AnyByte)
           /\ Data(b) = Cat(DownBytes(b.mem[b.begin + 1].pkg), Data(PopFromRecvQ(b)))
           /\ Framed(Cat(Data(PopFromRecvQ(b)), rest))
<1>1. PICK D \in Seq(AnyByte) : D = Data(b)
  BY BufferData
<1>2. PICK L : L = GetPkgLen(b)
  OBVIOUS
<1>3. /\ Datalen(b) = Len(D) /\ Len(D) \in Nat
      /\ \A i \in 1 .. Len(D) : D[i] = b.mem[b.begin + i]
  BY <1>1, BufferData DEF Datalen
<1>4. L > 0 /\ L <= Len(D)
  BY <1>2, <1>3 DEF HasNewPkg
<1>5. Datalen(b) > kMsgLenFieldSize /\ L = LenOf(b.mem[b.begin + 1])
  BY <1>2, <1>3, <1>4, SizesAssumption DEF GetPkgLen
<1>6. Len(D) >= 1 /\ D # <<>>
  BY <1>3, <1>5, SizesAssumption
<1>7. D[1] = b.mem[b.begin + 1]
  BY <1>3, <1>6
<1>8. PICK s \in Seq(AnyByte) : s = Cat(D, rest)
  BY CatFacts
<1>9. s # <<>> /\ s[1] = D[1]
  BY <1>3, <1>6, <1>8, ConcatProperties DEF Cat
<1>10. PICK p \in 1 .. Len(DownLens) : PacketAt(s, 0, p) /\ s[1] = DownBytes(p)[1]
  BY <1>1, <1>8, <1>9, FramedFirst
<1>11. DownBytes(p)[1] = [dir |-> "down", pkg |-> p, at |-> 1 - 1] /\ DownLens[p] \in Nat
  <2>1. 1 \in 1 .. DownLens[p]
    BY PacketBytes
  <2>2. QED
    BY <2>1, PacketBytes
<1>12. b.mem[b.begin + 1].pkg = p /\ L = DownLens[p]
  BY <1>5, <1>7, <1>9, <1>10, <1>11 DEF LenOf
<1>13. L \in 0 .. Len(D) /\ L \in 0 .. Datalen(b)
  BY <1>3, <1>4, <1>11, <1>12
<1>14. PICK h, t : h = SubSeq(D, 1, L) /\ t = SubSeq(D, L + 1, Len(D))
  OBVIOUS
<1>15. h \in Seq(AnyByte) /\ t \in Seq(AnyByte) /\ Len(h) = L /\ Cat(h, t) = D
  BY <1>13, <1>14, CutAnywhere DEF Cat
<1>16. Cat(h, Cat(t, rest)) = s /\ Cat(t, rest) \in Seq(AnyByte)
  BY <1>8, <1>15, CatFacts
<1>17. h = DownBytes(p) /\ Framed(Cat(t, rest))
  BY <1>1, <1>8, <1>10, <1>12, <1>15, <1>16, FramedDrop
<1>18. PopFromRecvQ(b) \in Buffers /\ Data(PopFromRecvQ(b)) = t
  <2>1. PopFromRecvQ(b) = [b EXCEPT !.begin = @ + L]
    BY <1>2 DEF PopFromRecvQ
  <2>2. QED
    BY <1>1, <1>13, <1>14, <2>1, SkipDropsData
<1>19. QED
  BY <1>1, <1>12, <1>15, <1>17, <1>18

(***************************************************************************)
(* Update reads k bytes and hands out a packet when one is complete.       *)
(***************************************************************************)
LEMMA UpdateKeepsRecvInv ==
    ASSUME RecvInv, NEW k \in 0 .. buff_size, Update(k)
    PROVE  RecvInv'
<1>1. PICK room : room = IF CanRecv THEN Room(recv_buf) ELSE recv_buf
  OBVIOUS
<1>2. PICK got : got = Put(room, SubSeq(inbox, 1, k))
  OBVIOUS
<1>3. /\ (k <= Len(inbox) /\ k <= Avaiable(room)) \/ k = 0
      /\ inbox' = SubSeq(inbox, k + 1, Len(inbox))
      /\ \/ /\ HasNewPkg(got)
            /\ taken' = taken \o DownBytes(got.mem[got.begin + 1].pkg)
            /\ recv_buf' = PopFromRecvQ(got)
         \/ /\ ~HasNewPkg(got)
            /\ recv_buf' = got
            /\ UNCHANGED taken
      /\ UNCHANGED <<peer_sent, expected>>
  BY <1>1, <1>2 DEF Update
<1>4. room \in Buffers /\ Data(room) = Data(recv_buf)
  BY <1>1, RoomKeepsData DEF RecvInv
<1>5. /\ inbox \in Seq(AnyByte) /\ taken \in Seq(AnyByte) /\ expected \in Seq(AnyByte)
      /\ Framed(Cat(Data(recv_buf), inbox)) /\ peer_sent' \in 0 .. Len(DownLens)
  BY <1>3 DEF RecvInv
<1>6. k \in 0 .. Len(inbox) /\ k <= Avaiable(room)
  <2>1. Len(inbox) \in Nat /\ Avaiable(room) >= 0 /\ k \in Nat
    <3>1. buff_size \in Nat /\ k \in Nat
      BY SizesAssumption
    <3>2. room.end \in Nat /\ room.end <= buff_size
      BY <1>4, BufferData
    <3>3. QED
      BY <1>5, <3>1, <3>2 DEF Avaiable
  <2>2. QED
    BY <1>3, <2>1
<1>7. PICK x, y : x = SubSeq(inbox, 1, k) /\ y = SubSeq(inbox, k + 1, Len(inbox))
  OBVIOUS
<1>8. x \in Seq(AnyByte) /\ y \in Seq(AnyByte) /\ Len(x) = k /\ Cat(x, y) = inbox /\ inbox' = y
  BY <1>3, <1>5, <1>6, <1>7, CutAnywhere DEF Cat
<1>9. got \in Buffers /\ Data(got) = Cat(Data(recv_buf), x)
  BY <1>2, <1>4, <1>6, <1>7, <1>8, PutAppendsData DEF Cat
<1>10. PICK d \in Seq(AnyByte), g \in Seq(AnyByte) : d = Data(recv_buf) /\ g = Data(got)
  BY <1>9, BufferData DEF RecvInv
<1>11. Cat(g, y) = Cat(d, inbox)
  BY <1>8, <1>9, <1>10, CatFacts
<1>12. Cat(Cat(taken, d), inbox) = expected
  BY <1>10 DEF RecvInv, RecvStreamIntact, Cat
<1>13. Cat(Cat(taken, g), y) = expected
  BY <1>5, <1>8, <1>11, <1>12, CatFacts
<1>14. Framed(Cat(g, y))
  BY <1>5, <1>10, <1>11
<1>15. CASE ~HasNewPkg(got)
  <2>1. recv_buf' = got /\ taken' = taken /\ expected' = expected
    BY <1>3, <1>15
  <2>2. QED
    BY <1>5, <1>8, <1>9, <1>10, <1>13, <1>14, <2>1, RecvInvNext
<1>16. CASE HasNewPkg(got)
  <2>1. PICK u : u = DownBytes(got.mem[got.begin + 1].pkg)
    OBVIOUS
  <2>2. PICK e : e = Data(PopFromRecvQ(got))
    OBVIOUS
  <2>3. /\ PopFromRecvQ(got) \in Buffers /\ u \in Seq(AnyByte) /\ g = Cat(u, e)
        /\ Framed(Cat(e, y))
    BY <1>8, <1>9, <1>10, <1>14, <1>16, <2>1, <2>2, PopTakesAPacket
  <2>4. e \in Seq(AnyByte)
    BY <2>2, <2>3, BufferData
  <2>5. recv_buf' = PopFromRecvQ(got) /\ taken' = Cat(taken, u) /\ expected' = expected
    BY <1>3, <1>16, <2>1 DEF Cat
  <2>6. Cat(taken, g) = Cat(Cat(taken, u), e) /\ Cat(taken, u) \in Seq(AnyByte)
    BY <1>5, <2>3, <2>4, CatFacts
  <2>7. Cat(Cat(taken', e), y) = expected'
    BY <1>13, <2>5, <2>6
  <2>8. QED
    BY <1>5, <1>8, <2>2, <2>3, <2>5, <2>6, <2>7, RecvInvNext
<1>17. QED
  BY <1>15, <1>16

(***************************************************************************)
(* Every step keeps RecvInv.                                               *)
(***************************************************************************)
LEMMA RecvStep == RecvInv /\ [Next]_vars => RecvInv'
<1> SUFFICES ASSUME RecvInv, [Next]_vars PROVE RecvInv'
  OBVIOUS
<1>1. CASE Resume \/ Terminate \/ CheckNonBlockFailed
  BY <1>1, ResetKeepsRecvInv DEF Resume, Terminate, CheckNonBlockFailed, Close
<1>2. ASSUME NEW k \in 0 .. buff_size, Update(k) PROVE RecvInv'
  BY <1>2, UpdateKeepsRecvInv
<1>3. CASE PeerSends
  BY <1>3, PeerSendsKeepsRecvInv
<1>4. CASE PopTooEarly
  <2>1. recv_buf' = Recycle(recv_buf) /\ UNCHANGED <<inbox, taken, expected, peer_sent>>
    BY <1>4 DEF PopTooEarly, PopFromRecvQ
  <2>2. QED
    BY <2>1, RecycleKeepsData, SameDataKeepsRecvInv DEF RecvInv
<1>5. ASSUME NEW state \in {"NET_RECV_FAILED", "NET_PEER_CLOSED"}, RecvEnds(state)
      PROVE  RecvInv'
  <2>1. recv_buf' = Room(recv_buf) /\ UNCHANGED <<inbox, taken, expected, peer_sent>>
    BY <1>5 DEF RecvEnds
  <2>2. QED
    BY <2>1, RoomKeepsData, SameDataKeepsRecvInv DEF RecvInv
<1>6. CASE \/ Start \/ CheckNonBlockAssert \/ CheckNonBlockConnected \/ ConnectEnds
           \/ PushMessageSendFailed \/ PushMessageFull \/ PeerReads \/ UNCHANGED vars
           \/ \E k \in 0 .. buff_size : PushMessage(k)
  <2>1. UNCHANGED downVars
    BY <1>6 DEF Start, CheckNonBlockAssert, CheckNonBlockConnected, ConnectEnds, PushMessage,
                PushMessageSendFailed, PushMessageFull, PeerReads, vars
  <2>2. QED
    BY <2>1 DEF downVars, RecvInv, RecvStreamIntact
<1>7. QED
  BY <1>1, <1>2, <1>3, <1>4, <1>5, <1>6 DEF Next, CheckNonBlock

(***************************************************************************)
(* The stream from the peer, always.                                       *)
(***************************************************************************)
LEMMA RecvInvariant == Spec => []RecvInv
<1>1. Init => RecvInv
  <2> SUFFICES ASSUME Init PROVE RecvInv
    OBVIOUS
  <2>1. /\ recv_buf = Malloc /\ inbox = <<>> /\ taken = <<>> /\ expected = <<>> /\ peer_sent = 0
        /\ Len(DownLens) \in Nat
    BY SizesAssumption DEF Init
  <2>2. recv_buf \in Buffers /\ Data(recv_buf) = <<>>
    BY <2>1, EmptyBuffers
  <2>3. RecvStreamIntact /\ Framed(Cat(Data(recv_buf), inbox))
    BY <2>1, <2>2, NothingIsFramed DEF RecvStreamIntact
  <2>4. QED
    BY <2>1, <2>2, <2>3 DEF RecvInv
<1>2. QED
  BY <1>1, RecvStep, PTL DEF Spec

(***************************************************************************)
(* What the peer sends is taken in whole packets, byte for byte and in     *)
(* order, or is still in the buffer or in the kernel, for any packets, any *)
(* size of the buffer and wherever the kernel cuts the reads.              *)
(***************************************************************************)
THEOREM RecvStreamStaysIntact == Spec => []RecvStreamIntact
<1>1. RecvInv => RecvStreamIntact
  BY DEF RecvInv
<1>2. QED
  BY <1>1, RecvInvariant, PTL

-----------------------------------------------------------------------------
(***************************************************************************)
(* The states of the socket, of the session and of the connection.         *)
(***************************************************************************)
StatesOK ==
    /\ socket_state \in {"NET_INITED", "NET_CONNECTING", "NET_ASSERT_FAIL"} \cup Connected
    /\ session_state \in {"SESSION_STATE_INITED", "SESSION_STATE_TCP_SYNING",
                          "SESSION_STATE_DONE", "SESSION_STATE_FINI"}
    /\ link \in {"none", "pending", "up", "refused"}

(***************************************************************************)
(* Every step leads to states of these sets; most do not touch them.       *)
(***************************************************************************)
LEMMA StatesStep == StatesOK /\ [Next]_vars => StatesOK'
<1> SUFFICES ASSUME StatesOK, [Next]_vars PROVE StatesOK'
  OBVIOUS
<1> USE DEF StatesOK, Connected
<1>1. CASE Start \/ Resume
  BY <1>1 DEF Start, Resume, Connect
<1>2. CASE Terminate \/ CheckNonBlock \/ ConnectEnds
  BY <1>2 DEF Terminate, CheckNonBlock, CheckNonBlockAssert, CheckNonBlockConnected,
              CheckNonBlockFailed, Close, ConnectEnds
<1>3. CASE PushMessageSendFailed
  BY <1>3 DEF PushMessageSendFailed
<1>4. CASE \E state \in {"NET_RECV_FAILED", "NET_PEER_CLOSED"} : RecvEnds(state)
  BY <1>4 DEF RecvEnds
<1>5. CASE UNCHANGED connVars
  BY <1>5 DEF connVars
<1>6. (\E k \in 0 .. buff_size : PushMessage(k)) \/ PushMessageFull \/ PeerReads => UNCHANGED connVars
  BY DEF PushMessage, PushMessageFull, PeerReads
<1>7. PeerSends \/ (\E k \in 0 .. buff_size : Update(k)) \/ PopTooEarly => UNCHANGED connVars
  BY DEF PeerSends, Update, PopTooEarly
<1>8. UNCHANGED vars => UNCHANGED connVars
  BY DEF vars
<1>9. QED
  BY <1>1, <1>2, <1>3, <1>4, <1>5, <1>6, <1>7, <1>8 DEF Next

(***************************************************************************)
(* Type correctness of the socket.  What is more than a type in it: begin  *)
(* and end stay in order and inside the memory of both buffers, for any    *)
(* sizes, packets and cuts of send and recv, and the descriptor is one that *)
(* a connect has returned.                                                 *)
(***************************************************************************)
THEOREM TSocketTypes == Spec => []TypeOK
<1>1. Init => StatesOK
  BY DEF Init, StatesOK
<1>2. Spec => []StatesOK
  BY <1>1, StatesStep, PTL DEF Spec
<1>3. FdInv /\ SendInv /\ RecvInv /\ StatesOK => TypeOK
  <2> SUFFICES ASSUME FdInv, SendInv, RecvInv, StatesOK PROVE TypeOK
    OBVIOUS
  <2>1. {wire, arrived, inbox, accepted, taken, expected} \subseteq Seq(AnyByte)
    BY DEF SendInv, RecvInv
  <2>2. QED
    BY <2>1 DEF TypeOK, FdInv, SendInv, RecvInv, StatesOK
<1>4. QED
  BY FdInvariant, SendInvariant, RecvInvariant, <1>2, <1>3, PTL
=============================================================================
