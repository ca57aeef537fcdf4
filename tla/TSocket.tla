------------------------------- MODULE TSocket -------------------------------
(***************************************************************************)
(* The client's socket: class TcpSocketUtil with its two RingBuffers       *)
(* (utils/tsocket_util.h, utils/tsocket_util.cpp) on the non-blocking      *)
(* connect of utils/tcp_socket.c, driven by one thread as                  *)
(* ConnectorClientProtocolImp drives it                                    *)
(* (client_api/connector_client_api_imp.cpp).  The messages of the         *)
(* handshake are left out (see Connector): a session is DONE as soon as    *)
(* the connection stands.                                                  *)
(*                                                                         *)
(* A byte is named by the packet it belongs to and its offset there, so    *)
(* that a byte that is lost, repeated, torn or out of place can be told.   *)
(* The kernel takes and hands out any number of bytes at a time.           *)
(***************************************************************************)
EXTENDS Naturals, Sequences

CONSTANTS
    buff_size,         \* size of each ring buffer
    kMsgLenFieldSize,  \* length of the length field in front of a packet
    UpLens,            \* lengths of the packets the client pushes, in order
    DownLens,          \* lengths of the packets the peer sends, in order
    KernelRoom,        \* bytes the kernel buffers in each direction
    MayFail,           \* TRUE: send and recv may fail, the peer may close
    MaxConnects        \* bound: calls of Connect

ASSUME SizesAssumption ==
    /\ {buff_size, kMsgLenFieldSize, KernelRoom, MaxConnects} \subseteq Nat
    /\ MayFail \in BOOLEAN
    /\ UpLens \in Seq(kMsgLenFieldSize + 1 .. buff_size)
    /\ DownLens \in Seq(kMsgLenFieldSize + 1 .. buff_size)

VARIABLES
    socket_state,  \* socket_state_
    session_state, \* session_state_ of ConnectorClientProtocolImp
    fd,            \* fd_: the number of its connection, NoFd for -1
    link,          \* what the kernel says of fd
    conns,         \* the connections this client holds in the kernel
    send_buf,      \* send_buf_
    recv_buf,      \* recv_buf_
    wire,          \* bytes in the kernel on their way to the peer
    arrived,       \* bytes the peer has read on this connection
    inbox,         \* bytes in the kernel that the client has not read
    pushed,        \* packets pushed so far (accepted or not)
    accepted,      \* history: bytes PushvToSendQ took on this connection
    peer_sent,     \* packets the peer has sent so far
    taken,         \* the packets the user has taken, in order, byte by byte
    expected,      \* history: bytes the peer has sent on this connection
    connects       \* calls of Connect so far

connVars == <<socket_state, session_state, fd, link, conns, connects>>
upVars == <<send_buf, wire, arrived, pushed, accepted>>
downVars == <<recv_buf, inbox, peer_sent, taken, expected>>
vars == <<connVars, upVars, downVars>>

Bytes(dir, n, len) == [i \in 1 .. len |-> [dir |-> dir, pkg |-> n, at |-> i - 1]]
UpBytes(n) == Bytes("up", n, UpLens[n])
DownBytes(n) == Bytes("down", n, DownLens[n])
LenOf(byte) == IF byte.dir = "up" THEN UpLens[byte.pkg] ELSE DownLens[byte.pkg]

-----------------------------------------------------------------------------
(***************************************************************************)
(* RingBuffer.  mem[i] is the byte at buff + i - 1.                        *)
(***************************************************************************)
Zero == [dir |-> "none", pkg |-> 0, at |-> 0]
Malloc == [mem |-> [i \in 1 .. buff_size |-> Zero], begin |-> 0, end |-> 0]
Avaiable(b) == buff_size - b.end
Datalen(b) == b.end - b.begin
Data(b) == SubSeq(b.mem, b.begin + 1, b.end)

\* Mutant: the data is not moved to the front.
Recycle_NoMove(b) ==
    [b EXCEPT !.begin = 0, !.end = b.end - b.begin]

(***************************************************************************)
(* Recycle_ATOMIC: memmove what is left to the front.                      *)
(***************************************************************************)
Recycle(b) ==
    [mem |-> [i \in 1 .. buff_size |->
                IF i <= Datalen(b) THEN b.mem[i + b.begin] ELSE b.mem[i]],
     begin |-> 0,
     end |-> b.end - b.begin]

Put(b, bytes) ==
    [b EXCEPT !.mem = [i \in 1 .. buff_size |->
                         IF i \in b.end + 1 .. b.end + Len(bytes) THEN bytes[i - b.end] ELSE @[i]],
              !.end = @ + Len(bytes)]

Rewind(b) == [mem |-> b.mem, begin |-> 0, end |-> 0]

-----------------------------------------------------------------------------
(***************************************************************************)
(* After TcpSocketUtil::Init, in Start, and before Connect.                *)
(***************************************************************************)
NoFd == 0

Init ==
    /\ socket_state = "NET_INITED"
    /\ session_state = "SESSION_STATE_INITED"
    /\ fd = NoFd /\ link = "none" /\ conns = {} /\ connects = 0
    /\ send_buf = Malloc
    /\ recv_buf = Malloc
    /\ wire = <<>> /\ arrived = <<>> /\ inbox = <<>>
    /\ pushed = 0 /\ accepted = <<>>
    /\ peer_sent = 0 /\ taken = <<>> /\ expected = <<>>

-----------------------------------------------------------------------------
(***************************************************************************)
(* Connect -> ConnectNonBlock, when the connections in open are not        *)
(* closed: connect is in progress, or has succeeded (at once, or           *)
(* blockingly for a descriptor that select cannot take), or fails.         *)
(***************************************************************************)
Connect(open) ==
    LET new == connects + 1
    IN  /\ connects < MaxConnects
        /\ connects' = new
        /\ \/ /\ link' \in {"pending", "up"}
              /\ fd' = new
              /\ conns' = open \cup {new}
              /\ socket_state' = "NET_CONNECTING"
              /\ session_state' = "SESSION_STATE_TCP_SYNING"
           \/ /\ link' = "none"
              /\ fd' = NoFd
              /\ conns' = open
              /\ socket_state' = "NET_INITED"
              /\ UNCHANGED session_state

(***************************************************************************)
(* TcpSocketUtil::Close as far as the buffers are concerned, which are     *)
(* reset; the connection's bytes are gone, in the kernel too.              *)
(***************************************************************************)
Reset ==
    /\ send_buf' = Rewind(send_buf) /\ recv_buf' = Rewind(recv_buf)
    /\ wire' = <<>> /\ arrived' = <<>> /\ inbox' = <<>>
    /\ accepted' = <<>>
    /\ expected' = <<>> /\ taken' = <<>>
    /\ UNCHANGED <<pushed, peer_sent>>

(***************************************************************************)
(* Connect in Start, or in Update when that has failed.                    *)
(***************************************************************************)
Start ==
    /\ session_state = "SESSION_STATE_INITED"
    /\ Connect(conns)
    /\ UNCHANGED <<upVars, downVars>>

\* Mutant: Resume connects without having closed.
Resume_StaysOpen ==
    /\ session_state # "SESSION_STATE_INITED"
    /\ Connect(conns)
    /\ Reset

(***************************************************************************)
(* Resume: Close, Reset and a new connection, on which nothing of the old  *)
(* one may appear.                                                         *)
(***************************************************************************)
Resume ==
    /\ session_state # "SESSION_STATE_INITED"
    /\ Connect(conns \ {fd})
    /\ Reset

(***************************************************************************)
(* Close, in Terminate or after a failed connect.                          *)
(***************************************************************************)
Close(session) ==
    /\ socket_state' = "NET_INITED"
    /\ session_state' = session
    /\ conns' = conns \ {fd} /\ fd' = NoFd /\ link' = "none"
    /\ Reset
    /\ UNCHANGED connects

Terminate ==
    /\ session_state # "SESSION_STATE_FINI"
    /\ Close("SESSION_STATE_FINI")

(***************************************************************************)
(* Update in SESSION_STATE_TCP_SYNING: CheckNonBlock.  After it has failed *)
(* once there is no descriptor any more.                                   *)
(***************************************************************************)
Syning == session_state = "SESSION_STATE_TCP_SYNING"

CheckNonBlockAssert ==
    /\ Syning /\ fd = NoFd
    /\ socket_state' = "NET_ASSERT_FAIL"
    /\ UNCHANGED <<session_state, fd, link, conns, connects, upVars, downVars>>

CheckNonBlockConnected ==
    /\ Syning /\ link = "up"
    /\ socket_state' = "NET_CONNECTED"
    /\ session_state' = "SESSION_STATE_DONE"
    /\ UNCHANGED <<fd, link, conns, connects, upVars, downVars>>

CheckNonBlockFailed ==
    /\ Syning /\ link = "refused"
    /\ Close(session_state)

(***************************************************************************)
(* The kernel: the connect in progress ends.                               *)
(***************************************************************************)
ConnectEnds ==
    /\ link = "pending"
    /\ link' \in {"up", "refused"}
    /\ UNCHANGED <<socket_state, session_state, fd, conns, connects, upVars, downVars>>

-----------------------------------------------------------------------------
\* Mutant: a partial send is taken for a complete one.
Sent_DropsRest(b, k) == IF k = 0 THEN b ELSE Rewind(b)

(***************************************************************************)
(* Send, when the kernel takes k bytes; k = 0 stands for EWOULDBLOCK.      *)
(***************************************************************************)
Sent(b, k) == IF k = 0 THEN b ELSE Recycle([b EXCEPT !.begin = @ + k])

CanSend == socket_state \in {"NET_CONNECTED", "NET_RECV_FAILED", "NET_PEER_CLOSED"}

(***************************************************************************)
(* PushMessage -> SerializeAndSendToPeer: PushvToSendQ, then one Send.     *)
(* When the connection does not stand, or after a failed send, the packet  *)
(* is only queued.                                                         *)
(***************************************************************************)
PushMessage(k) ==
    LET n == pushed + 1
        full == Put(send_buf, UpBytes(n))
    IN  /\ n <= Len(UpLens)
        /\ UpLens[n] <= Avaiable(send_buf)
        /\ k <= Datalen(full) /\ k <= KernelRoom - Len(wire)
        /\ CanSend \/ k = 0
        /\ wire' = wire \o SubSeq(Data(full), 1, k)
        /\ send_buf' = Sent(full, k)
        /\ accepted' = accepted \o UpBytes(n)
        /\ pushed' = n
        /\ UNCHANGED <<connVars, arrived, downVars>>

(***************************************************************************)
(* The same call when send() fails: the packet stays queued.               *)
(***************************************************************************)
PushMessageSendFailed ==
    LET n == pushed + 1
    IN  /\ MayFail
        /\ CanSend
        /\ n <= Len(UpLens)
        /\ UpLens[n] <= Avaiable(send_buf)
        /\ send_buf' = Put(send_buf, UpBytes(n))
        /\ accepted' = accepted \o UpBytes(n)
        /\ pushed' = n
        /\ socket_state' = "NET_SEND_FAILED"
        /\ UNCHANGED <<session_state, fd, link, conns, connects, wire, arrived, downVars>>

(***************************************************************************)
(* SEND_BUFF_FULL: the packet is refused, and nothing is sent.             *)
(***************************************************************************)
PushMessageFull ==
    LET n == pushed + 1
    IN  /\ n <= Len(UpLens)
        /\ UpLens[n] > Avaiable(send_buf)
        /\ pushed' = n
        /\ UNCHANGED <<connVars, send_buf, wire, arrived, accepted, downVars>>

PeerReads ==
    /\ wire # <<>>
    /\ arrived' = Append(arrived, Head(wire))
    /\ wire' = Tail(wire)
    /\ UNCHANGED <<connVars, send_buf, pushed, accepted, downVars>>

-----------------------------------------------------------------------------
(***************************************************************************)
(* The peer sends its next packet.                                         *)
(***************************************************************************)
PeerSends ==
    LET n == peer_sent + 1
    IN  /\ socket_state \in {"NET_CONNECTED", "NET_SEND_FAILED"}
        /\ n <= Len(DownLens)
        /\ Len(inbox) + DownLens[n] <= KernelRoom
        /\ inbox' = inbox \o DownBytes(n)
        /\ peer_sent' = n
        /\ expected' = expected \o DownBytes(n)
        /\ UNCHANGED <<connVars, upVars, recv_buf, taken>>

(***************************************************************************)
(* The ConnectorPkgParser: the length field names the packet the byte at   *)
(* begin belongs to.  0 while the field is not followed by anything.       *)
(***************************************************************************)
GetPkgLen(b) ==
    IF Datalen(b) <= kMsgLenFieldSize THEN 0 ELSE LenOf(b.mem[b.begin + 1])

HasNewPkg(b) == GetPkgLen(b) > 0 /\ GetPkgLen(b) <= Datalen(b)

\* Mutant: a full buffer is not recycled.
Room_NoRecycle(b) == b

(***************************************************************************)
(* Recv first makes room when the buffer is full up to its end.            *)
(***************************************************************************)
Room(b) == IF Avaiable(b) = 0 THEN Recycle(b) ELSE b

CanRecv == socket_state \in {"NET_CONNECTED", "NET_SEND_FAILED"}

(***************************************************************************)
(* PopFromRecvQ, together with PeekMessage, which has just looked at the   *)
(* packet that begins at begin.                                            *)
(***************************************************************************)
PopFromRecvQ(b) ==
    IF HasNewPkg(b) THEN [b EXCEPT !.begin = @ + GetPkgLen(b)] ELSE Recycle(b)

(***************************************************************************)
(* Update when k bytes can be read (0: EWOULDBLOCK or no room): Recv, then *)
(* OnIncoming if a packet is complete.  OnIncoming takes one packet, as    *)
(* client_main.cpp does.  After a failure or the peer's close Recv reads   *)
(* nothing, and packets that are complete are still announced.             *)
(***************************************************************************)
Update(k) ==
    LET room == IF CanRecv THEN Room(recv_buf) ELSE recv_buf
        got == Put(room, SubSeq(inbox, 1, k))
    IN  /\ session_state = "SESSION_STATE_DONE"
        /\ \/ CanRecv /\ k <= Len(inbox) /\ k <= Avaiable(room)
           \/ socket_state \in {"NET_RECV_FAILED", "NET_PEER_CLOSED"} /\ k = 0
        /\ inbox' = SubSeq(inbox, k + 1, Len(inbox))
        /\ \/ /\ HasNewPkg(got)
              /\ taken' = taken \o DownBytes(got.mem[got.begin + 1].pkg)
              /\ recv_buf' = PopFromRecvQ(got)
           \/ /\ ~HasNewPkg(got)
              /\ recv_buf' = got
              /\ UNCHANGED taken
        /\ UNCHANGED <<connVars, upVars, peer_sent, expected>>

(***************************************************************************)
(* The user calls PopMessage when no packet is complete.                   *)
(***************************************************************************)
PopTooEarly ==
    /\ ~HasNewPkg(recv_buf)
    /\ recv_buf.begin > 0
    /\ recv_buf' = PopFromRecvQ(recv_buf)
    /\ UNCHANGED <<connVars, upVars, inbox, peer_sent, taken, expected>>

(***************************************************************************)
(* Recv fails or finds the end of the stream; what is in the receive       *)
(* buffer stays there.                                                     *)
(***************************************************************************)
RecvEnds(state) ==
    /\ MayFail
    /\ session_state = "SESSION_STATE_DONE"
    /\ CanRecv
    /\ state = "NET_PEER_CLOSED" => inbox = <<>>
    /\ Avaiable(Room(recv_buf)) > 0
    /\ recv_buf' = Room(recv_buf)
    /\ socket_state' = state
    /\ UNCHANGED <<session_state, fd, link, conns, connects, upVars, inbox, peer_sent, taken,
                   expected>>

CheckNonBlock == CheckNonBlockAssert \/ CheckNonBlockConnected \/ CheckNonBlockFailed

Next ==
    \/ Start
    \/ Resume
    \/ Terminate
    \/ CheckNonBlock
    \/ ConnectEnds
    \/ \E k \in 0 .. buff_size : PushMessage(k)
    \/ PushMessageSendFailed
    \/ PushMessageFull
    \/ PeerReads
    \/ PeerSends
    \/ \E k \in 0 .. buff_size : Update(k)
    \/ PopTooEarly
    \/ \E state \in {"NET_RECV_FAILED", "NET_PEER_CLOSED"} : RecvEnds(state)

Spec == Init /\ [][Next]_vars

(***************************************************************************)
(* The user keeps calling Update, which does something when there are      *)
(* bytes to read or a packet to take; the peer reads.  Nobody has to push. *)
(***************************************************************************)
Receive == \E k \in 0 .. buff_size : Update(k) /\ <<recv_buf, inbox>>' # <<recv_buf, inbox>>

FairSpec == Spec /\ WF_vars(Receive) /\ WF_vars(PeerReads)

-----------------------------------------------------------------------------
AnyByte == [dir : {"none", "up", "down"}, pkg : Nat, at : Nat]

Buffers == {b \in [mem : [1 .. buff_size -> AnyByte], begin : Nat, end : Nat] :
              b.begin <= b.end /\ b.end <= buff_size}

Connected == {"NET_CONNECTED", "NET_SEND_FAILED", "NET_RECV_FAILED", "NET_PEER_CLOSED"}

TypeOK ==
    /\ socket_state \in {"NET_INITED", "NET_CONNECTING", "NET_ASSERT_FAIL"} \cup Connected
    /\ session_state \in {"SESSION_STATE_INITED", "SESSION_STATE_TCP_SYNING",
                          "SESSION_STATE_DONE", "SESSION_STATE_FINI"}
    /\ link \in {"none", "pending", "up", "refused"}
    /\ connects \in Nat /\ fd \in 0 .. connects /\ conns \subseteq 1 .. connects
    /\ send_buf \in Buffers /\ recv_buf \in Buffers
    /\ {wire, arrived, inbox, accepted, taken, expected} \subseteq Seq(AnyByte)
    /\ pushed \in 0 .. Len(UpLens) /\ peer_sent \in 0 .. Len(DownLens)

(***************************************************************************)
(* What the peer has read, what the kernel holds and what is still queued  *)
(* is, byte for byte, the packets PushMessage took, in order, however the  *)
(* sends were cut (PushvToSendQ, Send, Recycle_ATOMIC) and whatever the    *)
(* previous connection left unsent (Resume).                               *)
(***************************************************************************)
SendStreamIntact == arrived \o wire \o Data(send_buf) = accepted

(***************************************************************************)
(* What the user has taken, what is in the receive buffer and what the     *)
(* kernel holds is what the peer has sent; so packets are taken whole and  *)
(* in order, wherever the reads cut them (Recv, PopFromRecvQ).             *)
(***************************************************************************)
RecvStreamIntact == taken \o Data(recv_buf) \o inbox = expected

Packets(stream) == {stream[i].pkg : i \in 1 .. Len(stream)}

(***************************************************************************)
(* Every packet the peer sends is taken, unless the connection ends: the   *)
(* receive buffer never fills up with a packet that cannot be completed    *)
(* (Recv, Recycle_ATOMIC).                                                 *)
(***************************************************************************)
SentIsTaken ==
    \A n \in 1 .. Len(DownLens) :
        n \in Packets(expected)
            ~> n \in Packets(taken) \/ n \notin Packets(expected) \/ ~CanRecv

(***************************************************************************)
(* The only connection this client holds is the one it knows the           *)
(* descriptor of, so Terminate leaves none; and while the socket's state   *)
(* lets Send and Recv use the descriptor it is that of a connection that   *)
(* was established (ConnectNonBlock, CheckNonBlock, Close, Resume).        *)
(***************************************************************************)
DescriptorIsConnection ==
    /\ conns \subseteq {fd}
    /\ socket_state \in Connected => fd \in conns /\ link = "up"
=============================================================================
