----------------------------- MODULE Connector -----------------------------
(***************************************************************************)
(* The connector (server/connector): clients that use the client API,      *)
(* the connector process with its front-end sessions, and the back ends    *)
(* that use the server API, over TCP connections that may break.           *)
(*                                                                         *)
(*   connector_app.cpp, connector_session.cpp   the connector              *)
(*   client_api/connector_client_api_imp.cpp    the clients                *)
(*   server_api/connector_server_api.cpp,                                  *)
(*   server_api/connector_server_demo.cpp       the back ends              *)
(*                                                                         *)
(* A handler of the event loop runs to completion, so each is one action;  *)
(* a read event with several packets is several of these actions in a row. *)
(* TCP connection number c (in order of acceptance) gets net id Nid(c);    *)
(* clients and channels are named by c, sessions by the server's fd.       *)
(***************************************************************************)
EXTENDS NetHandlerMgr, Sequences

CONSTANTS
    NumBackEnds,   \* back ends in the configuration
    MaxPush,       \* bound: messages a client pushes
    StartSeqs,     \* seqno_ of a client when it connects: 1, or more after Resume
    DebugBuild,    \* TRUE: built with _DEBUG (no state and sid check on DATA)
    Stateful,      \* TRUE: back ends assign a session id; FALSE: -1, as the demo does
    Eager,         \* TRUE: clients may push before OnHandShakeSucceed
    MayStop,       \* TRUE: back ends may stop a connection (StopConn)
    MayFail,       \* TRUE: back ends may be unreachable or crash
    MayIdle,       \* TRUE: --max_idle is set, a walk may close idle connections
    MayPushFail    \* TRUE: the client's send queue may be full

ASSUME ConnectorAssumption ==
    /\ NumBackEnds \in Nat \ {0}     \* SetUpAndCheckConfig insists on one
    /\ MaxPush \in Nat
    /\ StartSeqs \subseteq Nat \ {0}
    /\ {DebugBuild, Stateful, Eager, MayStop, MayFail, MayIdle, MayPushFail} \subseteq BOOLEAN

VARIABLES
    session,       \* per fd: the ConnectorSession in the user context of the net
    backend_pos,   \* BackEndSet::backend_pos_
    back_net,      \* per back end: NetState of the connector's EasyNet
    back_up,       \* per back end: the peer is alive
    to_back,       \* per back end: SSMsg on their way to it
    from_back,     \* per back end: SSMsg on their way from it
    known,         \* connections whose SYN or DATA a back end has handled
    conn_fd,       \* per connection: the server's descriptor, or EndFd
    up,            \* per connection: CSMsg on their way to the connector
    down,          \* per connection: CSMsg on their way to the client
    client,        \* per connection: session_state_ of the client
    seqno,         \* per connection: seqno_ of the client
    pushed,        \* per connection: messages pushed so far
    got,           \* per connection: the data the client has taken, in order
    freed_access   \* history: the handlers that used a net or session after deleting it

sessionVars == <<session, backend_pos, freed_access>>
backVars == <<back_net, back_up, to_back, from_back, known>>
clientVars == <<client, seqno, pushed, got>>
linkVars == <<conn_fd, up, down>>
vars == <<poolVars, sessionVars, backVars, clientVars, linkVars>>

BackEnds == 0 .. NumBackEnds - 1
Conns == 1 .. MaxNid - 1 - NumBackEnds
Nid(c) == NumBackEnds + c        \* the back ends' EasyNets come first
ConnOf(nid) == nid - NumBackEnds

NoSid == 0                       \* (uint32_t)-1, the sid_ of a new session
SidFor(nid) == IF Stateful THEN nid ELSE NoSid

NewSession == [state |-> "INIT", sid |-> NoSid, last_seq |-> 0]

(***************************************************************************)
(* Messages.  The payload of DATA is [conn, n]: the n-th push of conn.     *)
(***************************************************************************)
Payload == [conn : Conns, n : 1 .. MaxPush]
NoData == [conn |-> 0, n |-> 0]
CSMsg(id, seq, data) == [id |-> id, seq |-> seq, data |-> data]
SSMsg(id, fd, nid, sid, data) ==
    [id |-> id, fd |-> fd, nid |-> nid, sid |-> sid, data |-> data]

(***************************************************************************)
(* Connection c is in the front-end pool.                                  *)
(***************************************************************************)
Serving(c) == conn_fd[c] # EndFd /\ pool[conn_fd[c]] = Nid(c)
Session(c) == session[conn_fd[c]]
ClientOpen(c) == client[c] \notin {"NONE", "FAILED", "FINI"}

(***************************************************************************)
(* EasyNet::Connect: every back-end connection is being established.       *)
(***************************************************************************)
Connect ==
    /\ back_net = [b \in BackEnds |-> "CONNECTING"]
    /\ back_up = [b \in BackEnds |-> TRUE]
    /\ to_back = [b \in BackEnds |-> <<>>]
    /\ from_back = [b \in BackEnds |-> <<>>]
    /\ known = {}

(***************************************************************************)
(* ConnectorApp::OnInit has created the back-end connections, which are    *)
(* still being established.                                                *)
(***************************************************************************)
Init ==
    /\ PoolInit(NumBackEnds + 1)
    /\ session = [fd \in Fds |-> NewSession]
    /\ backend_pos = 0
    /\ freed_access = {}
    /\ Connect
    /\ conn_fd = [c \in Conns |-> EndFd]
    /\ up = [c \in Conns |-> <<>>]
    /\ down = [c \in Conns |-> <<>>]
    /\ client = [c \in Conns |-> "NONE"]
    /\ seqno = [c \in Conns |-> 0]
    /\ pushed = [c \in Conns |-> 0]
    /\ got = [c \in Conns |-> <<>>]

-----------------------------------------------------------------------------
(***************************************************************************)
(* Clients.                                                                *)
(***************************************************************************)

(***************************************************************************)
(* The listener accepts a connection and ConnectorApp::OnFrontEndConnect   *)
(* constructs the session.                                                 *)
(***************************************************************************)
OnFrontEndConnect(fd) ==
    /\ pool[fd] = NoNet
    /\ AddHandlerBySocket(fd)
    /\ session' = [session EXCEPT ![fd] = NewSession]

(***************************************************************************)
(* Start or Resume: a TCP connect.                                         *)
(***************************************************************************)
ClientConnect(fd) ==
    LET c == ConnOf(nid_seed)
    IN  /\ OnFrontEndConnect(fd)
        /\ conn_fd' = [conn_fd EXCEPT ![c] = fd]
        /\ client' = [client EXCEPT ![c] = "TCP_SYNING"]
        /\ \E s \in StartSeqs : seqno' = [seqno EXCEPT ![c] = s]
        /\ UNCHANGED <<backend_pos, freed_access, backVars, pushed, got, up, down>>

\* Mutant: every message carries the first sequence number.
SendUp_SameSeqno(c, id, data) ==
    /\ up' = IF Serving(c) THEN [up EXCEPT ![c] = Append(@, CSMsg(id, seqno[c], data))]
                           ELSE up
    /\ UNCHANGED seqno

(***************************************************************************)
(* SerializeAndSendToPeer; what is sent to a connection that the connector *)
(* has closed is lost.                                                     *)
(***************************************************************************)
SendUp(c, id, data) ==
    /\ up' = IF Serving(c) THEN [up EXCEPT ![c] = Append(@, CSMsg(id, seqno[c], data))]
                           ELSE up
    /\ seqno' = [seqno EXCEPT ![c] = @ + 1]

HandShake_SYN(c) ==
    /\ client[c] = "TCP_SYNING"
    /\ SendUp(c, "SYN", NoData)
    /\ client' = [client EXCEPT ![c] = "KEY_SYNING"]
    /\ UNCHANGED <<poolVars, sessionVars, backVars, pushed, got, conn_fd, down>>

(***************************************************************************)
(* Update during the handshake, when a packet has arrived.  A packet with  *)
(* another body id is an error, which KEY_SYNING takes for "no packet yet" *)
(* (both are -1) and the later states report by OnHandShakeFailed.  FAILED *)
(* stands for a client whose user has been told and closes the connection. *)
(***************************************************************************)
TryAck(c) ==
    /\ client[c] = "KEY_SYNING"
    /\ down[c] # <<>>
    /\ down' = [down EXCEPT ![c] = Tail(@)]
    /\ IF Head(down[c]).id = "SYNACK"
         THEN /\ SendUp(c, "AUTH", NoData)
              /\ client' = [client EXCEPT ![c] = "AUTHING"]
         ELSE UNCHANGED <<client, seqno, up>>
    /\ UNCHANGED <<poolVars, sessionVars, backVars, pushed, got, conn_fd>>

TryNext(c, here, expected, next) ==
    /\ client[c] = here
    /\ down[c] # <<>>
    /\ down' = [down EXCEPT ![c] = Tail(@)]
    /\ client' = [client EXCEPT ![c] = IF Head(down[c]).id = expected THEN next ELSE "FAILED"]
    /\ UNCHANGED <<poolVars, sessionVars, backVars, seqno, pushed, got, conn_fd, up>>

TryReady(c) == TryNext(c, "AUTHING", "PASSPORT", "READY")
TryDone(c) == TryNext(c, "READY", "START_APP", "DONE")

(***************************************************************************)
(* PushMessage has no check of the session state.  It takes the next       *)
(* sequence number before it knows whether the send queue has room.        *)
(***************************************************************************)
MayPush(c) ==
    /\ ClientOpen(c)
    /\ client[c] = "DONE" \/ Eager

PushMessage(c) ==
    /\ MayPush(c)
    /\ pushed[c] < MaxPush
    /\ pushed' = [pushed EXCEPT ![c] = @ + 1]
    /\ SendUp(c, "DATA", [conn |-> c, n |-> pushed[c] + 1])
    /\ UNCHANGED <<poolVars, sessionVars, backVars, client, got, conn_fd, down>>

PushMessageFailed(c) ==
    /\ MayPushFail
    /\ MayPush(c)
    /\ pushed[c] < MaxPush
    /\ pushed' = [pushed EXCEPT ![c] = @ + 1]
    /\ seqno' = [seqno EXCEPT ![c] = @ + 1]
    /\ UNCHANGED <<poolVars, sessionVars, backVars, client, got, linkVars>>

\* Mutant: the message is delivered and stays in the receive buffer.
PopMessage_PeekOnly(c) ==
    /\ client[c] = "DONE"
    /\ down[c] # <<>>
    /\ got' = IF Head(down[c]).id = "DATA"
                THEN [got EXCEPT ![c] = Append(@, Head(down[c]).data)] ELSE got
    /\ UNCHANGED <<poolVars, sessionVars, backVars, client, seqno, pushed, linkVars>>

(***************************************************************************)
(* OnIncoming, PeekMessage and PopMessage: the client takes a message.     *)
(***************************************************************************)
PopMessage(c) ==
    /\ client[c] = "DONE"
    /\ down[c] # <<>>
    /\ down' = [down EXCEPT ![c] = Tail(@)]
    /\ got' = IF Head(down[c]).id = "DATA"
                THEN [got EXCEPT ![c] = Append(@, Head(down[c]).data)] ELSE got
    /\ UNCHANGED <<poolVars, sessionVars, backVars, client, seqno, pushed, conn_fd, up>>

(***************************************************************************)
(* Recv returns PEER_CLOSED once the connector has closed the connection,  *)
(* even while packets wait in the receive buffer.                          *)
(***************************************************************************)
OnServerClose(c) ==
    /\ ClientOpen(c)
    /\ ~Serving(c)
    /\ client' = [client EXCEPT ![c] = "FAILED"]
    /\ down' = [down EXCEPT ![c] = <<>>]
    /\ UNCHANGED <<poolVars, sessionVars, backVars, seqno, pushed, got, conn_fd, up>>

(***************************************************************************)
(* Terminate.                                                              *)
(***************************************************************************)
Terminate(c) ==
    /\ ClientOpen(c)
    /\ client' = [client EXCEPT ![c] = "FINI"]
    /\ down' = [down EXCEPT ![c] = <<>>]
    /\ UNCHANGED <<poolVars, sessionVars, backVars, seqno, pushed, got, conn_fd, up>>

-----------------------------------------------------------------------------
(***************************************************************************)
(* The connector: front end.                                               *)
(***************************************************************************)

(***************************************************************************)
(* SendToFrontEnd; bufferevent_write only fails when memory runs out.      *)
(***************************************************************************)
SendDown(c, id, data) ==
    down' = IF ClientOpen(c) THEN [down EXCEPT ![c] = Append(@, CSMsg(id, 0, data))]
                             ELSE down

(***************************************************************************)
(* DestroyFrontEnd: net and session are deleted; bufferevent_free drops    *)
(* what has not left the output buffer yet, and unread input with it.      *)
(***************************************************************************)
DeleteSession(c) ==
    /\ session' = [session EXCEPT ![conn_fd[c]] = NewSession]
    /\ up' = [up EXCEPT ![c] = <<>>]
    /\ \E k \in 0 .. Len(down[c]) : down' = [down EXCEPT ![c] = SubSeq(@, 1, k)]

DestroyFrontEnd(c) ==
    /\ RemoveHandlerByEvent(conn_fd[c])
    /\ DeleteSession(c)

(***************************************************************************)
(* CheckUpSideMessage.                                                     *)
(***************************************************************************)
InSequence(s, m) == s.last_seq = 0 \/ m.seq = s.last_seq + 1

UpSideMessage(c) ==
    /\ Serving(c)
    /\ up[c] # <<>>

SetSession(c, m, next) ==
    session' = [session EXCEPT ![conn_fd[c]].state = next,
                               ![conn_fd[c]].last_seq = m.seq]

(***************************************************************************)
(* OnRecvFrontEnd: a message out of sequence is dropped, and so is one     *)
(* that is not DATA once the session is ready.                             *)
(***************************************************************************)
UpSideRejected(c) ==
    LET m == Head(up[c]) IN
        /\ UpSideMessage(c)
        /\ \/ ~InSequence(Session(c), m) /\ UNCHANGED session
           \/ /\ InSequence(Session(c), m)
              /\ Session(c).state = "OK" /\ m.id # "DATA"
              /\ SetSession(c, m, "OK")
        /\ up' = [up EXCEPT ![c] = Tail(@)]
        /\ UNCHANGED <<poolVars, backend_pos, freed_access, backVars, clientVars, conn_fd, down>>

(***************************************************************************)
(* OnRecvFrontEnd -> DriveStateMachine -> HandleKeyMaking, or              *)
(* HandShake_OnStartAcked when the client speaks before the back end does. *)
(* The body id of the message is not looked at.                            *)
(***************************************************************************)
UpSideAnswered(c, here, id, next) ==
    LET m == Head(up[c]) IN
        /\ UpSideMessage(c)
        /\ InSequence(Session(c), m)
        /\ Session(c).state = here
        /\ SendDown(c, id, NoData)
        /\ SetSession(c, m, next)
        /\ up' = [up EXCEPT ![c] = Tail(@)]
        /\ UNCHANGED <<poolVars, backend_pos, freed_access, backVars, clientVars, conn_fd>>

\* Mutant: the state does not advance with the answer.
HandleKeyMaking_StateStays(c) == UpSideAnswered(c, "INIT", "SYNACK", "INIT")

HandleKeyMaking(c) == UpSideAnswered(c, "INIT", "SYNACK", "AUTH")
ClientStartsApp(c) == UpSideAnswered(c, "SYNACK", "START_APP", "OK")

(***************************************************************************)
(* The round robin over the back ends, and SendToBackEnd: it succeeds when *)
(* the EasyNet is ESTABLISHED, whether or not the peer still lives.        *)
(***************************************************************************)
PickBackEnd == IF backend_pos >= NumBackEnds THEN 0 ELSE backend_pos
CanSend(b) == back_net[b] = "ESTABLISHED"
\* Mutant: the newest message overtakes the queue.
SendToBackEnd_Overtakes(b, msg) ==
    to_back' = IF CanSend(b) /\ back_up[b]
                 THEN [to_back EXCEPT ![b] = <<msg>> \o @] ELSE to_back

\* Mutant: a message that is still in the output buffer is written again.
SendToBackEnd_Twice(b, msg) ==
    to_back' = IF CanSend(b) /\ back_up[b]
                 THEN [to_back EXCEPT ![b] = @ \o <<msg, msg>>] ELSE to_back

SendToBackEnd(b, msg) ==
    to_back' = IF CanSend(b) /\ back_up[b]
                 THEN [to_back EXCEPT ![b] = Append(@, msg)] ELSE to_back

(***************************************************************************)
(* What goes to a back end: the start of a session, and data.  Each is     *)
(* sent to the next one in turn.                                           *)
(***************************************************************************)
StartToBackEnd(b, c) ==
    SendToBackEnd(b, SSMsg("SYN", conn_fd[c], Nid(c), Session(c).sid, NoData))

HandShake_StartSession(c) ==
    /\ backend_pos' = PickBackEnd + 1
    /\ StartToBackEnd(PickBackEnd, c)

SendDataToBackEnd(c, data) ==
    /\ backend_pos' = PickBackEnd + 1
    /\ SendToBackEnd(PickBackEnd, SSMsg("DATA", conn_fd[c], Nid(c), Session(c).sid, data))

\* Mutant: the session is ready as soon as the start has been sent.
HandleAuthRequest_ReadyAtOnce(c) ==
    LET m == Head(up[c]) IN
        /\ UpSideMessage(c)
        /\ InSequence(Session(c), m)
        /\ Session(c).state = "AUTH"
        /\ CanSend(PickBackEnd)
        /\ HandShake_StartSession(c)
        /\ SendDown(c, "PASSPORT", NoData)
        /\ SetSession(c, m, "OK")
        /\ up' = [up EXCEPT ![c] = Tail(@)]
        /\ UNCHANGED <<poolVars, freed_access, back_net, back_up, from_back, known,
                       clientVars, conn_fd>>

(***************************************************************************)
(* HandleAuthRequest and, in the same call of OnRecvFrontEnd, the start of *)
(* the session on a back end (HandShake_StartSession).  If that cannot be sent,    *)
(* the connection is closed; OnFrontEndMsg goes on to count the packet on  *)
(* the deleted net.                                                        *)
(***************************************************************************)
HandleAuthRequest(c) ==
    LET m == Head(up[c]) IN
        /\ UpSideMessage(c)
        /\ InSequence(Session(c), m)
        /\ Session(c).state = "AUTH"
        /\ HandShake_StartSession(c)
        /\ \/ /\ CanSend(PickBackEnd)
              /\ SendDown(c, "PASSPORT", NoData)
              /\ SetSession(c, m, "SYNACK")
              /\ up' = [up EXCEPT ![c] = Tail(@)]
              /\ UNCHANGED <<poolVars, freed_access>>
           \/ /\ ~CanSend(PickBackEnd)
              /\ DestroyFrontEnd(c)
              /\ freed_access' = freed_access \cup {"OnRecvFrontEnd"}
        /\ UNCHANGED <<back_net, back_up, from_back, known, clientVars, conn_fd>>

(***************************************************************************)
(* ForwardUpSideMessage: the message goes to the next back end in turn; it *)
(* is lost when that one is not connected.                                 *)
(***************************************************************************)
ForwardUpSideMessage(c) ==
    LET m == Head(up[c]) IN
        /\ UpSideMessage(c)
        /\ InSequence(Session(c), m)
        /\ Session(c).state = "OK" /\ m.id = "DATA"
        /\ SetSession(c, m, "OK")
        /\ SendDataToBackEnd(c, m.data)
        /\ up' = [up EXCEPT ![c] = Tail(@)]
        /\ UNCHANGED <<poolVars, freed_access, back_net, back_up, from_back, known,
                       clientVars, conn_fd, down>>

(***************************************************************************)
(* OnFrontEndSocketEvent: the client has closed (end of file after its     *)
(* last message, or a reset at once).  OnFrontEndClose tells no back end.  *)
(***************************************************************************)
OnFrontEndClose(c) ==
    /\ Serving(c)
    /\ ~ClientOpen(c)
    /\ DestroyFrontEnd(c)
    /\ UNCHANGED <<backend_pos, freed_access, backVars, clientVars, conn_fd>>

(***************************************************************************)
(* Tick -> WalkThrough with --max_idle: a walk that closes nothing, or one *)
(* connection (more than one is the same walk again).  The application is  *)
(* not told.                                                               *)
(***************************************************************************)
CloseNone ==
    /\ MayIdle
    /\ WalkThrough({})
    /\ UNCHANGED <<sessionVars, backVars, clientVars, linkVars>>

CloseIdle(c) ==
    /\ MayIdle
    /\ Serving(c) /\ conn_fd[c] \in Visited
    /\ WalkThrough({conn_fd[c]})
    /\ DeleteSession(c)
    /\ UNCHANGED <<backend_pos, freed_access, backVars, clientVars, conn_fd>>

-----------------------------------------------------------------------------
(***************************************************************************)
(* The connector: back end.                                                *)
(***************************************************************************)

(***************************************************************************)
(* OnRecvBackEnd: the next message of back end b, whether its ids name a   *)
(* connection, and the connection they lead to.                            *)
(***************************************************************************)
DownSideMessage(b) ==
    /\ from_back[b] # <<>>
    /\ from_back' = [from_back EXCEPT ![b] = Tail(@)]
    /\ UNCHANGED <<back_net, back_up, to_back, known, clientVars, conn_fd, backend_pos>>

Found(msg) == GetHandlerByAsyncIds(msg.fd, msg.nid)
FrontNet(msg) == ConnOf(pool[msg.fd])

(***************************************************************************)
(* The three ways in which a message is used up without effect.            *)
(***************************************************************************)
DownSideIgnored(b) ==
    LET msg == Head(from_back[b]) IN
        /\ DownSideMessage(b)
        /\ \/ ~Found(msg)
           \/ Found(msg) /\ msg.id = "ACK" /\ session[msg.fd].state = "OK"
        /\ UNCHANGED <<poolVars, session, freed_access, up, down>>

\* Mutant: the client is not told.
HandShake_OnStartAcked_Silent(b) ==
    LET msg == Head(from_back[b]) IN
        /\ DownSideMessage(b)
        /\ Found(msg) /\ msg.id \in {"ACK", "FIN"}
        /\ session[msg.fd].state = "SYNACK"
        /\ session' = [session EXCEPT ![msg.fd].state = "OK", ![msg.fd].sid = msg.sid]
        /\ UNCHANGED <<poolVars, freed_access, up, down>>

(***************************************************************************)
(* ACK, or FIN before the session is ready: HandShake_OnStartAcked, then   *)
(* set_sid.                                                                *)
(***************************************************************************)
HandShake_OnStartAcked(b) ==
    LET msg == Head(from_back[b]) IN
        /\ DownSideMessage(b)
        /\ Found(msg) /\ msg.id \in {"ACK", "FIN"}
        /\ session[msg.fd].state = "SYNACK"
        /\ SendDown(FrontNet(msg), "START_APP", NoData)
        /\ session' = [session EXCEPT ![msg.fd].state = "OK", ![msg.fd].sid = msg.sid]
        /\ UNCHANGED <<poolVars, freed_access, up>>

(***************************************************************************)
(* FIN in state OK: HandShake_OnStopNotify deletes net and session, and    *)
(* OnRecvBackEnd then calls set_sid on the deleted session.                *)
(***************************************************************************)
HandShake_OnStopNotify(b) ==
    LET msg == Head(from_back[b]) IN
        /\ DownSideMessage(b)
        /\ Found(msg) /\ msg.id = "FIN"
        /\ session[msg.fd].state = "OK"
        /\ DestroyFrontEnd(FrontNet(msg))
        /\ freed_access' = freed_access \cup {"OnRecvBackEnd"}

\* Mutant: the test of the session id is inverted.
Acceptable_WrongTest(msg) ==
    DebugBuild \/ (session[msg.fd].state = "OK" /\ session[msg.fd].sid # msg.sid)

(***************************************************************************)
(* DATA: the release build checks the state and the session id.            *)
(***************************************************************************)
Acceptable(msg) ==
    DebugBuild \/ (session[msg.fd].state = "OK" /\ session[msg.fd].sid = msg.sid)

ForwardDownSideMessage(b) ==
    LET msg == Head(from_back[b]) IN
        /\ DownSideMessage(b)
        /\ Found(msg) /\ msg.id = "DATA" /\ Acceptable(msg)
        /\ SendDown(FrontNet(msg), "DATA", msg.data)
        /\ UNCHANGED <<poolVars, session, freed_access, up>>

DownSideRefused(b) ==
    LET msg == Head(from_back[b]) IN
        /\ DownSideMessage(b)
        /\ Found(msg) /\ msg.id = "DATA" /\ ~Acceptable(msg)
        /\ DestroyFrontEnd(FrontNet(msg))
        /\ UNCHANGED freed_access

(***************************************************************************)
(* OnBackEndSocketEvent.                                                   *)
(***************************************************************************)
BackNetEvent(b, state) ==
    /\ back_net' = [back_net EXCEPT ![b] = state]
    /\ UNCHANGED <<poolVars, sessionVars, to_back, known, clientVars, linkVars>>

OnBackEndConnected(b) ==
    /\ back_net[b] = "CONNECTING" /\ back_up[b]
    /\ BackNetEvent(b, "ESTABLISHED")
    /\ UNCHANGED <<back_up, from_back>>

(***************************************************************************)
(* A refused connection: the event ERROR, after which libevent may still   *)
(* report CONNECTED (the comment in OnBackEndSocketEvent).                 *)
(***************************************************************************)
OnBackEndRefused(b) ==
    /\ MayFail
    /\ back_net[b] = "CONNECTING"
    /\ \E state \in {"FAILED", "ESTABLISHED"} : BackNetEvent(b, state)
    /\ back_up' = [back_up EXCEPT ![b] = FALSE]
    /\ UNCHANGED from_back

OnBackEndLost(b) ==
    /\ back_net[b] = "ESTABLISHED" /\ ~back_up[b]
    /\ \/ from_back[b] = <<>> /\ BackNetEvent(b, "BEEN_CLOSED")
       \/ BackNetEvent(b, "FAILED")
    /\ from_back' = [from_back EXCEPT ![b] = <<>>]
    /\ UNCHANGED back_up

-----------------------------------------------------------------------------
(***************************************************************************)
(* The back ends.                                                          *)
(***************************************************************************)
Crash(b) ==
    /\ MayFail
    /\ back_up[b] /\ back_net[b] = "ESTABLISHED"
    /\ back_up' = [back_up EXCEPT ![b] = FALSE]
    /\ to_back' = [to_back EXCEPT ![b] = <<>>]
    /\ UNCHANGED <<poolVars, sessionVars, back_net, from_back, known, clientVars, linkVars>>

(***************************************************************************)
(* What a back end answers: a stateful service answers with the session id *)
(* it assigned, the demo with the one it was sent.                         *)
(***************************************************************************)
HandshakeToConn(msg) == SSMsg("ACK", msg.fd, msg.nid, SidFor(msg.nid), NoData)
SendDataToConn(msg) ==
    SSMsg("DATA", msg.fd, msg.nid, IF Stateful THEN SidFor(msg.nid) ELSE msg.sid, msg.data)

Knows(b, msg) ==
    known' = known \cup {[back |-> b, fd |-> msg.fd, nid |-> msg.nid, on |-> msg.id]}

\* Mutant: DATA is read and not handed to OnData.
Dispatch_SynOnly(b) ==
    LET msg == Head(to_back[b]) IN
        /\ to_back[b] # <<>>
        /\ to_back' = [to_back EXCEPT ![b] = Tail(@)]
        /\ from_back' = IF msg.id # "SYN" THEN from_back ELSE
              [from_back EXCEPT ![b] = Append(@, HandshakeToConn(msg))]
        /\ Knows(b, msg)
        /\ UNCHANGED <<poolVars, sessionVars, back_net, back_up, clientVars, linkVars>>

(***************************************************************************)
(* ConnectorServerApi::Dispatch: SYN -> OnConnStart -> HandshakeToConn,    *)
(* DATA -> OnData -> SendDataToConn, which echoes the message.             *)
(***************************************************************************)
Dispatch(b) ==
    LET msg == Head(to_back[b]) IN
        /\ to_back[b] # <<>>
        /\ to_back' = [to_back EXCEPT ![b] = Tail(@)]
        /\ from_back' = [from_back EXCEPT ![b] = Append(@,
              IF msg.id = "SYN" THEN HandshakeToConn(msg) ELSE SendDataToConn(msg))]
        /\ Knows(b, msg)
        /\ UNCHANGED <<poolVars, sessionVars, back_net, back_up, clientVars, linkVars>>

(***************************************************************************)
(* Dispatch with a listener that answers with StopConn: OnConnStart        *)
(* refuses the connection, or OnData ends it and drops the message.        *)
(***************************************************************************)
Fin(k) == SSMsg("FIN", k.fd, k.nid, SidFor(k.nid), NoData)

DispatchStops(b) ==
    LET msg == Head(to_back[b]) IN
        /\ MayStop
        /\ to_back[b] # <<>>
        /\ to_back' = [to_back EXCEPT ![b] = Tail(@)]
        /\ from_back' = [from_back EXCEPT ![b] = Append(@, Fin(msg))]
        /\ Knows(b, msg)
        /\ UNCHANGED <<poolVars, sessionVars, back_net, back_up, clientVars, linkVars>>

(***************************************************************************)
(* ConnectorServerApi::StopConn at any later time, for any connection b    *)
(* has heard of, gone or not; then with one FIN under way at a time.       *)
(***************************************************************************)
StopConn(b, k) ==
    /\ MayStop
    /\ back_up[b] /\ k.back = b
    /\ \A i \in 1 .. Len(from_back[b]) : from_back[b][i].id # "FIN"   \* bound
    /\ from_back' = [from_back EXCEPT ![b] = Append(@, Fin(k))]
    /\ UNCHANGED <<poolVars, sessionVars, back_net, back_up, to_back, known,
                   clientVars, linkVars>>

-----------------------------------------------------------------------------
ClientStep(c) ==
    \/ HandShake_SYN(c) \/ TryAck(c) \/ TryReady(c) \/ TryDone(c)
    \/ PopMessage(c) \/ OnServerClose(c)

FrontStep(c) ==
    \/ UpSideRejected(c) \/ HandleKeyMaking(c) \/ HandleAuthRequest(c)
    \/ ClientStartsApp(c) \/ ForwardUpSideMessage(c) \/ OnFrontEndClose(c)

BackStep(b) ==
    \/ DownSideIgnored(b) \/ HandShake_OnStartAcked(b) \/ HandShake_OnStopNotify(b)
    \/ ForwardDownSideMessage(b) \/ DownSideRefused(b)
    \/ OnBackEndConnected(b) \/ OnBackEndLost(b)

Next ==
    \/ \E fd \in Fds : ClientConnect(fd)
    \/ \E c \in Conns : ClientStep(c) \/ PushMessage(c) \/ PushMessageFailed(c) \/ Terminate(c)
    \/ \E c \in Conns : FrontStep(c) \/ CloseIdle(c)
    \/ CloseNone
    \/ \E b \in BackEnds : BackStep(b) \/ OnBackEndRefused(b) \/ Crash(b)
    \/ \E b \in BackEnds : Dispatch(b) \/ DispatchStops(b)
    \/ \E b \in BackEnds, k \in known : StopConn(b, k)

Spec == Init /\ [][Next]_vars

(***************************************************************************)
(* The event loops of connector and back ends serve every ready socket,    *)
(* TCP delivers, and a client keeps calling Update.  Nobody has to         *)
(* connect, push, close or fail.                                           *)
(***************************************************************************)
Fairness ==
    /\ \A c \in Conns : WF_vars(ClientStep(c)) /\ WF_vars(FrontStep(c))
    /\ \A b \in BackEnds : WF_vars(BackStep(b)) /\ WF_vars(Dispatch(b) \/ DispatchStops(b))

FairSpec == Spec /\ Fairness

-----------------------------------------------------------------------------
CSMsgs == [id : {"SYN", "AUTH", "DATA", "SYNACK", "PASSPORT", "START_APP"},
           seq : Nat, data : Payload \cup {NoData}]
SSMsgs == [id : {"SYN", "ACK", "FIN", "DATA"}, fd : Fds, nid : Nat, sid : Nat,
           data : Payload \cup {NoData}]

Sessions == [state : {"INIT", "AUTH", "SYNACK", "OK"}, sid : Nat, last_seq : Nat]

PathTypeOK ==
    /\ pool \in [Fds -> Nat] /\ nid_seed \in Nat
    /\ session \in [Fds -> Sessions]
    /\ backend_pos \in 0 .. NumBackEnds
    /\ to_back \in [BackEnds -> Seq(SSMsgs)]
    /\ from_back \in [BackEnds -> Seq(SSMsgs)]
    /\ known \subseteq [back : BackEnds, fd : Fds, nid : Nat, on : {"SYN", "DATA"}]
    /\ conn_fd \in [Conns -> Fds \cup {EndFd}]
    /\ up \in [Conns -> Seq(CSMsgs)]
    /\ down \in [Conns -> Seq(CSMsgs)]
    /\ client \in [Conns -> {"NONE", "TCP_SYNING", "KEY_SYNING", "AUTHING", "READY",
                             "DONE", "FAILED", "FINI"}]
    /\ seqno \in [Conns -> Nat]
    /\ pushed \in [Conns -> 0 .. MaxPush]
    /\ got \in [Conns -> Seq(Payload)]

TypeOK ==
    /\ PathTypeOK
    /\ it_cursor \in Fds \cup {EndFd}
    /\ back_net \in [BackEnds -> {"CONNECTING", "ESTABLISHED", "FAILED", "BEEN_CLOSED"}]
    /\ back_up \in [BackEnds -> BOOLEAN]
    /\ freed_access \subseteq {"OnRecvFrontEnd", "OnRecvBackEnd"}

(***************************************************************************)
(* Data that reaches a client is an answer to a message of that very       *)
(* connection, although descriptors are reused while answers are under     *)
(* way (OnRecvBackEnd, GetFrontEndByAsyncIds).                             *)
(***************************************************************************)
NoCrossTalk ==
    \A c \in Conns :
        /\ \A i \in 1 .. Len(down[c]) : down[c][i].id = "DATA" => down[c][i].data.conn = c
        /\ \A i \in 1 .. Len(got[c]) : got[c][i].conn = c

(***************************************************************************)
(* A pushed message exists at most once between the client that pushed it  *)
(* and the client that takes the answer: it is neither duplicated by a     *)
(* hop nor answered twice (ForwardUpSideMessage, Dispatch,                 *)
(* ForwardDownSideMessage).                                                *)
(***************************************************************************)
At(seq, p) == {i \in 1 .. Len(seq) : seq[i].data = p}

Sightings(p) ==
    LET c == p.conn
    IN  ({"up"} \X {c} \X At(up[c], p))
        \cup ({"down"} \X {c} \X At(down[c], p))
        \cup ({"got"} \X {c} \X {i \in 1 .. Len(got[c]) : got[c][i] = p})
        \cup (UNION {{"to"} \X {b} \X At(to_back[b], p) : b \in BackEnds})
        \cup (UNION {{"from"} \X {b} \X At(from_back[b], p) : b \in BackEnds})

AtMostOnce == \A p \in Payload : \A x, y \in Sightings(p) : x = y

(***************************************************************************)
(* A message that can still find its connection finds a session that has   *)
(* been started on a back end: the handshake states of the client side are *)
(* never driven by a back end (OnRecvBackEnd -> DriveStateMachine), which  *)
(* is why the actions above need no case for them.                         *)
(***************************************************************************)
BackEndFindsStarted ==
    \A b \in BackEnds : \A i \in 1 .. Len(from_back[b]) :
        Found(from_back[b][i]) => session[from_back[b][i].fd].state \in {"SYNACK", "OK"}

(***************************************************************************)
(* The session is ready only after a back end has handled its start and    *)
(* answered it, with ACK or with a FIN that refuses it, and then has the   *)
(* session id of that answer (HandShake_OnStartAcked, set_sid).  Holds for *)
(* clients that wait for OnHandShakeSucceed.                               *)
(***************************************************************************)
ReadyAfterAnswer ==
    \A c \in Conns : Serving(c) /\ Session(c).state = "OK" =>
        /\ \E k \in known : k.on = "SYN" /\ k.fd = conn_fd[c] /\ k.nid = Nid(c)
        /\ Session(c).sid = SidFor(Nid(c))

(***************************************************************************)
(* The client's view of the handshake never runs ahead of the connector's. *)
(***************************************************************************)
ClientNotAhead ==
    \A c \in Conns : Serving(c) =>
        /\ client[c] = "AUTHING" => Session(c).state \in {"AUTH", "SYNACK", "OK"}
        /\ client[c] = "READY" => Session(c).state \in {"SYNACK", "OK"}
        /\ client[c] = "DONE" => Session(c).state = "OK"

(***************************************************************************)
(* Every message that a client reports as sent passes the sequence check   *)
(* of the connector when its turn comes (PushMessage, CheckUpSideMessage). *)
(***************************************************************************)
SentIsInSequence ==
    \A c \in Conns : Serving(c) /\ up[c] # <<>> => InSequence(Session(c), Head(up[c]))

(***************************************************************************)
(* With one back end the answers come in the order of the requests.        *)
(***************************************************************************)
AnswersInOrder ==
    \A c \in Conns : \A i, j \in 1 .. Len(got[c]) : i < j => got[c][i].n < got[c][j].n

(***************************************************************************)
(* The connector closes a connection only if its client has closed, a back *)
(* end has sent FIN for it, the back end that was to start it was not      *)
(* connected, or it was idle.                                              *)
(***************************************************************************)
ClosedForAReason ==
    [][\A c \in Conns : Serving(c) /\ ~Serving(c)' =>
         \/ ~ClientOpen(c)
         \/ MayIdle
         \/ Session(c).state = "AUTH" /\ ~CanSend(PickBackEnd)
         \/ \E b \in BackEnds :
               /\ from_back[b] # <<>> /\ from_back'[b] = Tail(from_back[b])
               /\ Head(from_back[b]).id = "FIN" /\ Head(from_back[b]).nid = Nid(c)]_vars

(***************************************************************************)
(* A handshake that a client has begun ends: the client is told it may     *)
(* start, or that it failed.                                               *)
(***************************************************************************)
HandshakeEnds ==
    \A c \in Conns : client[c] = "TCP_SYNING" ~> client[c] \in {"DONE", "FAILED", "FINI"}

(***************************************************************************)
(* Once every back end is connected, a message that waits in a connection  *)
(* is answered, unless the connection ends.                                *)
(***************************************************************************)
PushIsAnswered ==
    \A p \in Payload :
        (/\ \A b \in BackEnds : CanSend(b)
         /\ \E i \in 1 .. Len(up[p.conn]) : up[p.conn][i].data = p)
        ~> \/ ~ClientOpen(p.conn)
           \/ \E i \in 1 .. Len(got[p.conn]) : got[p.conn][i] = p

(***************************************************************************)
(* OnRecvBackEnd does not use the session of a connection after FIN has    *)
(* deleted it.  Its comment says that deleting the net releases the        *)
(* session.                                                                *)
(***************************************************************************)
StoppedSessionUnused == "OnRecvBackEnd" \notin freed_access

-----------------------------------------------------------------------------
(***************************************************************************)
(* The refinement mapping: what the client's state machine tells its user. *)
(***************************************************************************)
PhaseOf(state) ==
    CASE state = "NONE" -> "idle"
      [] state \in {"TCP_SYNING", "KEY_SYNING", "AUTHING", "READY"} -> "handshake"
      [] state = "DONE" -> "open"
      [] state \in {"FAILED", "FINI"} -> "closed"

Echo == INSTANCE EchoService WITH
            Connections <- Conns,
            MaxAsked    <- MaxPush,
            phase       <- [c \in Conns |-> PhaseOf(client[c])],
            asked       <- pushed,
            answers     <- got

(***************************************************************************)
(* The connector with its clients and back ends implements EchoService,    *)
(* whatever fails and however early the clients push.                      *)
(***************************************************************************)
ImplementsEcho == Echo!EchoSpec
=============================================================================
