---------------------------- MODULE ClientThread ----------------------------
(***************************************************************************)
(* The threaded client: class ConnectorClientProtocolThreadImp             *)
(* (client_api/connector_client_api_imp.cpp).  A worker thread runs        *)
(* MainLoop, which drives one ConnectorClientProtocolImp by Update; the    *)
(* main thread calls PushMessageToSendQ and TerminateThread on the same    *)
(* object.  PopMessageFromRecvQ is called by the main thread               *)
(* (sdk/cocos_connector.cpp) or by the worker, inside OnIncoming           *)
(* (client_main.cpp).  There is no lock: TSOCKET_UTIL_ATOMIC is defined    *)
(* nowhere.                                                                *)
(*                                                                         *)
(* A step of a thread is one access to what the threads share, and steps   *)
(* interleave (sequentially consistent memory).  Packets have length one,  *)
(* so begin and end count packets; TSocket looks at cut packets, Connector *)
(* at the handshake.                                                       *)
(***************************************************************************)
EXTENDS Integers, Sequences, SequencesExt

CONSTANTS
    Slots,       \* size of recv_buf_ in packets
    Downs,       \* packets the server sends
    Pushes,      \* bound: calls of PushMessageToSendQ
    EarlyCalls,  \* whether the main thread calls before the worker is ready for it
    PopsInCallback  \* TRUE: client_main.cpp, FALSE: cocos_connector.cpp

ASSUME ThreadAssumption ==
    /\ Slots \in Nat \ {0}
    /\ Downs \in Nat /\ Pushes \in Nat
    /\ EarlyCalls \in BOOLEAN /\ PopsInCallback \in BOOLEAN

VARIABLES
    w,              \* where the worker is
    m,              \* where the main thread is in PushMessageToSendQ
    p,              \* where PopMessageFromRecvQ is, in whichever thread
    exit,           \* exit_
    session_state,  \* session_state_
    handshake_done, \* the static handshake_done of Update
    told,           \* the calls of the listener so far, without OnIncoming
    has_pkg,        \* has_pkg_: OnIncoming has been called
    mem, begin, end,  \* recv_buf_
    down_sent,      \* packets the server has sent
    down_read,      \* packets recv has handed out, numbered from 1 as they were sent
    conn,           \* "up", "closed" by the server, "reset", or "failed" (NET_RECV_FAILED)
    got,            \* the packet PeekMessage has copied
    reg,            \* begin, as PopFromRecvQ has loaded it
    popped,         \* history: what PopMessageFromRecvQ has returned
    seqno,          \* seqno_
    up_msg,         \* up_msg_
    offered,        \* history: the messages offered to send_buf_, in order, and whether it took them
    pushes          \* calls of PushMessageToSendQ so far

workerVars == <<w, handshake_done, session_state>>
listenerVars == <<told, has_pkg>>
recvVars == <<mem, begin, end>>
kernelVars == <<down_sent, down_read, conn>>
popVars == <<p, got, reg, popped>>
sendVars == <<seqno, up_msg, offered>>
vars == <<workerVars, m, exit, listenerVars, recvVars, kernelVars, popVars, sendVars, pushes>>

Garbage == 0
Cells == 0 .. Slots - 1

At(i) == IF i \in Cells THEN mem[i] ELSE Garbage
Avaiable == Slots - end
Datalen == end - begin
HasNewPkg == Datalen > 0

NoMessage == [seq |-> 0, body |-> "NONE"]

\* state_ok_ of the listener.
ok == Contains(told, "SUCCEED")

(***************************************************************************)
(* Before StartThread.                                                     *)
(***************************************************************************)
Init ==
    /\ w = "NONE" /\ m = "IDLE" /\ p = "IDLE"
    /\ exit = FALSE
    /\ session_state = "INITED" /\ handshake_done = FALSE
    /\ told = <<>> /\ has_pkg = FALSE
    /\ mem = [i \in Cells |-> Garbage] /\ begin = 0 /\ end = 0
    /\ down_sent = 0 /\ down_read = 0 /\ conn = "up"
    /\ got = Garbage /\ reg = 0 /\ popped = <<>>
    /\ seqno = 1 /\ up_msg = NoMessage /\ offered = <<>> /\ pushes = 0
-----------------------------------------------------------------------------
(***************************************************************************)
(* The worker thread.                                                      *)
(***************************************************************************)
WorkerGoes(from, to) == w = from /\ w' = to

(***************************************************************************)
(* Both threads make a message in two steps: seqno_ and up_msg_ are filled *)
(* in, and what up_msg_ then holds is serialised and offered to send_buf_  *)
(* (SerializeAndSendToPeer), which takes it unless it is full.  The number *)
(* is used up either way.                                                  *)
(***************************************************************************)
Fill(body) ==
    /\ up_msg' = [seq |-> seqno, body |-> body]
    /\ seqno' = seqno + 1
    /\ UNCHANGED offered

Queue(taken) ==
    /\ offered' = Append(offered, [seq |-> up_msg.seq, body |-> up_msg.body, queued |-> taken])
    /\ UNCHANGED <<seqno, up_msg>>

(***************************************************************************)
(* MainLoop begins with assert(!exit_).                                    *)
(***************************************************************************)
MainLoopBegins ==
    /\ WorkerGoes("CREATED", IF exit THEN "ABORTED" ELSE "STARTED")
    /\ UNCHANGED <<m, exit, handshake_done, session_state, listenerVars, recvVars,
                   kernelVars, popVars, sendVars, pushes>>

(***************************************************************************)
(* ConnectorClientProtocolImp::Start: Connect begins, or fails at once.    *)
(***************************************************************************)
Start ==
    /\ \/ /\ WorkerGoes("STARTED", "CHECK")
          /\ session_state' = "TCP_SYNING"
          /\ UNCHANGED told
       \/ /\ WorkerGoes("STARTED", "EXITED")
          /\ told' = Append(told, "EXIT")
          /\ UNCHANGED session_state
    /\ UNCHANGED <<m, exit, handshake_done, has_pkg, recvVars,
                   kernelVars, popVars, sendVars, pushes>>

\* Mutant: the loop does not look at exit_.
CheckExit_Ignored ==
    /\ WorkerGoes("CHECK", "UPDATE")
    /\ UNCHANGED <<m, exit, handshake_done, session_state, listenerVars, recvVars,
                   kernelVars, popVars, sendVars, pushes>>

(***************************************************************************)
(* while (!exit_).                                                         *)
(***************************************************************************)
CheckExit ==
    /\ \/ ~exit /\ WorkerGoes("CHECK", "UPDATE") /\ UNCHANGED told
       \/ exit /\ WorkerGoes("CHECK", "EXITED") /\ told' = Append(told, "EXIT")
    /\ UNCHANGED <<m, exit, handshake_done, session_state, has_pkg, recvVars,
                   kernelVars, popVars, sendVars, pushes>>

(***************************************************************************)
(* Update while the session is not DONE.  What it waits for is not there,  *)
(* is there, or is wrong.                                                  *)
(***************************************************************************)
Waits ==
    /\ session_state # "DONE"
    /\ WorkerGoes("UPDATE", "CHECK")
    /\ UNCHANGED <<m, exit, handshake_done, session_state, listenerVars, recvVars,
                   kernelVars, popVars, sendVars, pushes>>

\* The connection stands: SYN.  The key is there: AUTHENTICATION.
FillsHandShake ==
    /\ \/ session_state = "TCP_SYNING" /\ Fill("SYN")
       \/ session_state = "KEY_SYNING" /\ Fill("AUTHENTICATION")
    /\ WorkerGoes("UPDATE", "FILLED")
    /\ UNCHANGED <<m, exit, handshake_done, session_state, listenerVars, recvVars,
                   kernelVars, popVars, pushes>>

QueuesHandShake ==
    /\ WorkerGoes("FILLED", "CHECK")
    /\ Queue(TRUE)
    /\ session_state' = IF session_state = "TCP_SYNING" THEN "KEY_SYNING" ELSE "AUTHING"
    /\ UNCHANGED <<m, exit, handshake_done, listenerVars, recvVars,
                   kernelVars, popVars, pushes>>

\* send_buf_ is full, or it has taken the message and send fails: OnHandShakeFailed.
HandShakeUnsent ==
    /\ WorkerGoes("FILLED", "EXITED")
    /\ \E taken \in BOOLEAN : Queue(taken)
    /\ told' = told \o <<"FAILED", "EXIT">>
    /\ UNCHANGED <<m, exit, handshake_done, session_state, has_pkg, recvVars,
                   kernelVars, popVars, pushes>>

\* PASSPORT has come, START_APP has come.
HandShakeAdvances ==
    /\ \/ session_state = "AUTHING" /\ session_state' = "READY"
       \/ session_state = "READY" /\ session_state' = "DONE"
    /\ WorkerGoes("UPDATE", "CHECK")
    /\ UNCHANGED <<m, exit, handshake_done, listenerVars, recvVars,
                   kernelVars, popVars, sendVars, pushes>>

\* Mutant: Update reports the failure and MainLoop goes on.
HandShakeFails_GoesOn ==
    /\ session_state # "DONE"
    /\ WorkerGoes("UPDATE", "CHECK")
    /\ told' = Append(told, "FAILED")
    /\ UNCHANGED <<m, exit, handshake_done, session_state, has_pkg, recvVars,
                   kernelVars, popVars, sendVars, pushes>>

HandShakeFails ==
    /\ session_state # "DONE"
    /\ WorkerGoes("UPDATE", "EXITED")
    /\ told' = told \o <<"FAILED", "EXIT">>
    /\ UNCHANGED <<m, exit, handshake_done, session_state, has_pkg, recvVars,
                   kernelVars, popVars, sendVars, pushes>>

\* Mutant: success is reported when the key has been asked for.
ReportsSuccess_Early ==
    /\ session_state # "TCP_SYNING" /\ ~handshake_done
    /\ WorkerGoes("UPDATE", "CHECK")
    /\ told' = Append(told, "SUCCEED")
    /\ handshake_done' = TRUE
    /\ UNCHANGED <<m, exit, session_state, has_pkg, recvVars,
                   kernelVars, popVars, sendVars, pushes>>

ReportsSuccess ==
    /\ session_state = "DONE" /\ ~handshake_done
    /\ WorkerGoes("UPDATE", "CHECK")
    /\ told' = Append(told, "SUCCEED")
    /\ handshake_done' = TRUE
    /\ UNCHANGED <<m, exit, session_state, has_pkg, recvVars,
                   kernelVars, popVars, sendVars, pushes>>
-----------------------------------------------------------------------------
(***************************************************************************)
(* Update in the state DONE: TcpSocketUtil::Recv, one access at a time.    *)
(***************************************************************************)
Receiving == <<m, exit, handshake_done, session_state, kernelVars, popVars, sendVars, pushes>>

\* Mutant: a full buffer is never recycled.
RecvBegins_NeverRecycles ==
    /\ session_state = "DONE" /\ handshake_done
    /\ \/ conn # "failed" /\ Avaiable # 0 /\ WorkerGoes("UPDATE", "RECV")
       \/ /\ conn = "failed" \/ Avaiable = 0
          /\ WorkerGoes("UPDATE", "LOOK")
    /\ UNCHANGED <<Receiving, listenerVars, recvVars>>

(***************************************************************************)
(* Recv looks for room at the end; Recycle_ATOMIC does nothing when begin  *)
(* is 0, and then there is no room.  After a failure it does not read.     *)
(***************************************************************************)
RecvBegins ==
    /\ session_state = "DONE" /\ handshake_done
    /\ \/ conn # "failed" /\ Avaiable # 0 /\ WorkerGoes("UPDATE", "RECV")
       \/ conn # "failed" /\ Avaiable = 0 /\ begin > 0 /\ WorkerGoes("UPDATE", "MOVE")
       \/ /\ conn = "failed" \/ (Avaiable = 0 /\ begin = 0)
          /\ WorkerGoes("UPDATE", "LOOK")
    /\ UNCHANGED <<Receiving, listenerVars, recvVars>>

(***************************************************************************)
(* Recycle_ATOMIC: memmove, end -= begin, begin = 0.                       *)
(***************************************************************************)
RecycleMoves ==
    /\ WorkerGoes("MOVE", "CUT")
    /\ mem' = [i \in Cells |-> IF i < end - begin THEN At(i + begin) ELSE mem[i]]
    /\ UNCHANGED <<Receiving, listenerVars, begin, end>>

RecycleCuts ==
    /\ WorkerGoes("CUT", "ZERO")
    /\ end' = end - begin
    /\ UNCHANGED <<Receiving, listenerVars, mem, begin>>

RecycleEnds ==
    /\ WorkerGoes("ZERO", IF Avaiable = 0 THEN "LOOK" ELSE "RECV")
    /\ begin' = 0
    /\ UNCHANGED <<Receiving, listenerVars, mem, end>>

(***************************************************************************)
(* recv hands out k of the packets in the kernel (0: EWOULDBLOCK), which   *)
(* are numbered in the order they were sent, then end += k.                *)
(***************************************************************************)
RecvReads(k) ==
    /\ conn \in {"up", "closed"}
    /\ k <= down_sent - down_read /\ k <= Avaiable
    /\ WorkerGoes("RECV", "LOOK")
    /\ mem' = [i \in Cells |-> IF i \in end .. end + k - 1
                               THEN down_read + 1 + (i - end) ELSE mem[i]]
    /\ end' = end + k
    /\ down_read' = down_read + k
    /\ UNCHANGED <<m, exit, handshake_done, session_state, down_sent, conn, popVars, sendVars,
                   pushes, listenerVars, begin>>

\* Mutant: MainLoop goes on when the server has closed.
RecvClosed_GoesOn ==
    /\ conn = "closed" /\ down_read = down_sent
    /\ WorkerGoes("RECV", "CHECK")
    /\ UNCHANGED <<Receiving, listenerVars, recvVars>>

(***************************************************************************)
(* The end of the stream: OnServerClose, and Update returns -1; what is    *)
(* still in the buffer is not announced.                                   *)
(***************************************************************************)
RecvClosed ==
    /\ conn = "closed" /\ down_read = down_sent
    /\ WorkerGoes("RECV", "EXITED")
    /\ told' = told \o <<"CLOSE", "EXIT">>
    /\ UNCHANGED <<Receiving, has_pkg, recvVars>>

(***************************************************************************)
(* recv fails (a reset): the socket is NET_RECV_FAILED from now on, where  *)
(* Recv returns NORMAL without reading; nobody is told.                    *)
(***************************************************************************)
RecvFails ==
    /\ conn = "reset"
    /\ WorkerGoes("RECV", "CHECK")
    /\ conn' = "failed"
    /\ UNCHANGED <<m, exit, handshake_done, session_state, down_sent, down_read, popVars,
                   sendVars, pushes, listenerVars, recvVars>>

\* HasNewPkg, and then OnIncoming: it pops, or leaves that to the main thread.
LooksForPackets ==
    /\ WorkerGoes("LOOK", IF HasNewPkg /\ PopsInCallback THEN "INCOMING" ELSE "CHECK")
    /\ has_pkg' = (has_pkg \/ HasNewPkg)
    /\ UNCHANGED <<Receiving, told, recvVars>>
-----------------------------------------------------------------------------
(***************************************************************************)
(* The main thread.                                                        *)
(***************************************************************************)
MainGoes(from, to) == m = from /\ m' = to

StartThread ==
    /\ MainGoes("IDLE", "IDLE")
    /\ w = "NONE" /\ w' = "CREATED"
    /\ UNCHANGED <<exit, handshake_done, session_state, listenerVars, recvVars,
                   kernelVars, popVars, sendVars, pushes>>

TerminateThread ==
    /\ w # "NONE" /\ (w # "CREATED" \/ EarlyCalls)
    /\ MainGoes("IDLE", "IDLE")
    /\ exit' = TRUE
    /\ UNCHANGED <<workerVars, listenerVars, recvVars, kernelVars, popVars, sendVars, pushes>>

(***************************************************************************)
(* PushMessageToSendQ -> PushMessage.                                      *)
(***************************************************************************)
PushFills ==
    /\ w # "NONE" /\ (ok \/ EarlyCalls)
    /\ pushes < Pushes
    /\ PopsInCallback \/ p = "IDLE"
    /\ MainGoes("IDLE", "FILLED")
    /\ Fill("DATA")
    /\ pushes' = pushes + 1
    /\ UNCHANGED <<workerVars, exit, listenerVars, recvVars, kernelVars, popVars>>

\* The message is queued, or send_buf_ is full.  If send fails, NET_SEND_FAILED takes
\* the place of NET_RECV_FAILED, and Recv reads once more.
PushQueues ==
    /\ MainGoes("FILLED", "IDLE")
    /\ \/ \E taken \in BOOLEAN : Queue(taken) /\ UNCHANGED conn
       \/ Queue(TRUE) /\ conn = "failed" /\ conn' \in {"reset", "closed"}
    /\ UNCHANGED <<workerVars, exit, listenerVars, recvVars, down_sent, down_read, popVars,
                   pushes>>

(***************************************************************************)
(* PopMessageFromRecvQ, by the worker in OnIncoming or by the main thread  *)
(* once OnIncoming was called.  PeekMessage finds a packet and copies it,  *)
(* or the call ends here.                                                  *)
(***************************************************************************)
PopGoes(from, to) == p = from /\ p' = to

Popping == <<exit, m, handshake_done, session_state, listenerVars, kernelVars, sendVars,
             pushes, mem>>

PopReturns == w' = IF PopsInCallback THEN "CHECK" ELSE w

PopPeeks ==
    /\ IF PopsInCallback THEN w = "INCOMING" ELSE m = "IDLE" /\ has_pkg
    /\ HasNewPkg
    /\ PopGoes("IDLE", "PEEKED")
    /\ got' = At(begin)
    /\ UNCHANGED <<Popping, w, begin, end, reg, popped>>

(***************************************************************************)
(* PopFromRecvQ looks for the packet again.  If it is not there any more   *)
(* it recycles; otherwise begin += len, a load and a store.                *)
(***************************************************************************)
PopLoads ==
    /\ PopGoes("PEEKED", IF HasNewPkg THEN "LOADED" ELSE "IDLE")
    /\ reg' = begin
    /\ begin' = IF HasNewPkg THEN begin ELSE 0
    /\ end' = IF HasNewPkg \/ begin = 0 THEN end ELSE end - begin
    /\ popped' = IF HasNewPkg THEN popped ELSE Append(popped, got)
    /\ UNCHANGED <<Popping, w, got>>

\* Mutant: the packet is not removed from the buffer.
PopStores_Stays ==
    /\ PopGoes("LOADED", "IDLE")
    /\ popped' = Append(popped, got)
    /\ PopReturns
    /\ UNCHANGED <<Popping, begin, end, got, reg>>

PopStores ==
    /\ PopGoes("LOADED", "IDLE")
    /\ begin' = reg + 1
    /\ popped' = Append(popped, got)
    /\ PopReturns
    /\ UNCHANGED <<Popping, end, got, reg>>
-----------------------------------------------------------------------------
(***************************************************************************)
(* The server sends a packet, closes the connection, or it is reset.       *)
(***************************************************************************)
Serving == <<workerVars, m, exit, listenerVars, recvVars, down_read, popVars, sendVars, pushes>>

ServerSends ==
    /\ session_state = "DONE" /\ conn = "up"
    /\ down_sent < Downs
    /\ down_sent' = down_sent + 1
    /\ UNCHANGED <<Serving, conn>>

ConnectionEnds(how) ==
    /\ session_state = "DONE" /\ conn = "up"
    /\ conn' = how
    /\ UNCHANGED <<Serving, down_sent>>
-----------------------------------------------------------------------------
HandShake == \/ FillsHandShake \/ QueuesHandShake \/ HandShakeUnsent
             \/ HandShakeAdvances \/ HandShakeFails
Recv == \/ RecvBegins \/ RecycleMoves \/ RecycleCuts \/ RecycleEnds
        \/ \E k \in 0 .. Slots : RecvReads(k)
        \/ RecvClosed \/ RecvFails \/ LooksForPackets
Worker == MainLoopBegins \/ Start \/ CheckExit \/ Waits \/ HandShake \/ ReportsSuccess \/ Recv

Push == PushFills \/ PushQueues
Pop == PopPeeks \/ PopLoads \/ PopStores
Main == StartThread \/ TerminateThread \/ Push

Next ==
    \/ Worker
    \/ Main
    \/ Pop
    \/ ServerSends
    \/ \E how \in {"closed", "reset"} : ConnectionEnds(how)

(***************************************************************************)
(* The system schedules the worker, recv does not withhold for ever what   *)
(* has arrived, the end of the stream included, and the main thread polls  *)
(* and ends the calls it has begun.                                        *)
(***************************************************************************)
Reads == RecvClosed \/ \E k \in 1 .. Slots : RecvReads(k)

Spec ==
    /\ Init /\ [][Next]_vars
    /\ WF_vars(Worker) /\ SF_vars(Reads)
    /\ WF_vars(Pop) /\ WF_vars(PushQueues)
-----------------------------------------------------------------------------
Bodies == {"NONE", "SYN", "AUTHENTICATION", "DATA"}
Messages == [seq : Nat, body : Bodies]
Offers == [seq : Nat, body : Bodies, queued : BOOLEAN]
Events == {"SUCCEED", "FAILED", "CLOSE", "EXIT"}

FlagsOK == exit \in BOOLEAN /\ handshake_done \in BOOLEAN /\ has_pkg \in BOOLEAN

ValuesOK ==
    /\ w \in {"NONE", "CREATED", "ABORTED", "STARTED", "CHECK", "UPDATE", "FILLED",
              "MOVE", "CUT", "ZERO", "RECV", "LOOK", "INCOMING", "EXITED"}
    /\ m \in {"IDLE", "FILLED"} /\ p \in {"IDLE", "PEEKED", "LOADED"}
    /\ session_state \in {"INITED", "TCP_SYNING", "KEY_SYNING", "AUTHING", "READY", "DONE"}
    /\ conn \in {"up", "closed", "reset", "failed"}
    /\ mem \in [Cells -> Nat] /\ begin \in Int /\ end \in Int
    /\ down_read \in Nat /\ down_sent \in Nat
    /\ got \in Nat /\ reg \in Int /\ popped \in Seq(Nat)
    /\ seqno \in Nat /\ up_msg \in Messages /\ offered \in Seq(Offers)
    /\ pushes \in Nat

TypeOK == FlagsOK /\ ValuesOK /\ told \in Seq(Events)

(***************************************************************************)
(* What the main thread pops is what the server sent, in order and without *)
(* a gap, a repetition or garbage, while the worker fills the same buffer. *)
(***************************************************************************)
PoppedInOrder == popped = [i \in 1 .. Len(popped) |-> i]

(***************************************************************************)
(* The two threads share seqno_, up_msg_ and send_buf_, and yet the n-th   *)
(* message made has number n, and they are SYN, AUTHENTICATION and then    *)
(* data: the worker has stopped sending when the main thread begins.  So   *)
(* the server gets every number at most once, in rising order, and misses  *)
(* one only where PushMessage found send_buf_ full; when anything follows  *)
(* a message of the handshake, that message was queued.                    *)
(***************************************************************************)
HandShakeThenData ==
    \A i \in 1 .. Len(offered) :
        /\ offered[i].seq = i
        /\ offered[i].body = IF i = 1 THEN "SYN" ELSE IF i = 2 THEN "AUTHENTICATION" ELSE "DATA"
        /\ i <= 2 /\ i < Len(offered) => offered[i].queued

(***************************************************************************)
(* What the listener is told: success, then at most the close; or failure; *)
(* and the exit of the worker last, once, whichever way MainLoop ends.     *)
(* Packets are announced only after success.                               *)
(***************************************************************************)
ListenerProtocol ==
    /\ \E whole \in {<<"SUCCEED", "CLOSE", "EXIT">>, <<"SUCCEED", "EXIT">>,
                      <<"FAILED", "EXIT">>, <<"EXIT">>} : IsPrefix(told, whole)
    /\ has_pkg => ok
    /\ (w = "EXITED") = Contains(told, "EXIT")

(***************************************************************************)
(* TerminateThread ends the worker, wherever it is.                        *)
(***************************************************************************)
TerminateEnds == exit ~> w = "EXITED"

(***************************************************************************)
(* Every packet that was sent is popped in the end, for as long as the     *)
(* worker is not told to exit and the connection stands, however often the *)
(* buffer fills up.                                                        *)
(***************************************************************************)
ArrivedIsPopped ==
    \A n \in 1 .. Downs :
        down_sent >= n ~> Len(popped) >= n \/ exit \/ conn # "up"

(***************************************************************************)
(* When the server closes the connection the application is told           *)
(* (OnServerClose), or it had told the worker to exit; the worker ends.    *)
(***************************************************************************)
CloseIsReported == conn = "closed" ~> (Contains(told, "CLOSE") \/ exit) /\ w = "EXITED"
=============================================================================
