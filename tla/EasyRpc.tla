------------------------------ MODULE EasyRpc ------------------------------
(***************************************************************************)
(* Remote calls: class EasyRpc (framework/rapidapp_easy_rpc.cpp) on the    *)
(* side of the caller, which runs every call in a coroutine, and           *)
(* AppFrameWork::OnFrontEndRpcMsg with class EasyRpcClosure on the side of *)
(* the service, with MessageGenerator (rapidapp_message_reflection.cpp)    *)
(* and the connections of the framework between them.                      *)
(*                                                                         *)
(* An action is what one context (the event loop or a coroutine) does up   *)
(* to the next switch of contexts; see CoroutineScheduler.  A message is a *)
(* record: its type, the asyncid and, standing for its contents, the call  *)
(* whose request it is or answers.  Each instance in Rpcs is created and   *)
(* destroyed once, and each call in Calls is made once.                    *)
(***************************************************************************)
EXTENDS CoroutineScheduler, Sequences, SequencesExt

CONSTANTS
    Rpcs,           \* EasyRpc objects, each with a back end of its own
    Calls,          \* calls of the application
    Requested,      \* what the calls may ask for: functions from Calls to Kinds
    NoMsg,          \* an empty buffer
    CallbackCalls,  \* whether callbacks make calls themselves
    Deferred        \* whether services may keep the closure for later

(***************************************************************************)
(* What becomes of a request.  A service completes it by Done or by        *)
(* Cancel; none does (nothing is registered for its name, NewResponse      *)
(* fails, or the name of the answer is too long); the server's descriptor  *)
(* pool lacks its type; the back end is another program, which answers     *)
(* with something else than an RpcMessage; or the name of the request has  *)
(* MAX_MESSAGE_NAME characters or more.                                    *)
(***************************************************************************)
Kinds == {"done", "cancelled", "unserved", "unknown", "foreign", "longnamed"}

ASSUME RpcAssumption ==
    /\ Requested \subseteq [Calls -> Kinds]
    /\ NoMsg \notin Calls
    /\ CallbackCalls \in BOOLEAN /\ Deferred \in BOOLEAN

VARIABLES
    net,           \* state_ of the EasyNet of each instance
    crid_list,     \* crid_list_ of each instance: [crid, asyncid]
    asyncid_seed,  \* asyncid_seed
    ctx,           \* per coroutine: its RPC_CONTEXT and how far it has come
    buf,           \* the static buffer of RpcFunction
    rpc_msg,       \* MessageGenerator::rpc_msg_ of the calling process
    to_server,     \* requests on the way, per connection
    to_client,     \* answers on the way, per connection
    conn,          \* the server's EasyNet of each connection
    closures,      \* EasyRpcClosure objects the services have kept
    kind,          \* the kind of each call's request, which never changes
    call,          \* history: what RpcCall returned for each call
    replies        \* history: what the callback of each call was given

rpcVars == <<net, crid_list, asyncid_seed, ctx, buf, rpc_msg>>
wireVars == <<to_server, to_client>>
serverVars == <<conn, closures>>
histVars == <<call, replies>>
vars == <<schedVars, rpcVars, wireVars, serverVars, histVars, kind>>

Places == {"START", "YIELDED", "CALLBACK", "OVER"}
NetStates == {"NONE", "CONNECTING", "ESTABLISHED", "FAILED", "BEEN_CLOSED", "DESTROYED"}
Requests == [call : Calls, asyncid : Cids]
Answers == [type : {"RESPONSE", "ERROR"}, call : Calls, asyncid : Cids]
Junk == [type |-> "JUNK"]
NoCtx == [call |-> NoMsg, rpc |-> NoMsg, at |-> "OVER"]

Exists(r) == net[r] \notin {"NONE", "DESTROYED"}
InLoop == cpu = Loop

Init ==
    /\ SchedulerInit
    /\ net = [r \in Rpcs |-> "NONE"]
    /\ crid_list = [r \in Rpcs |-> {}]
    /\ asyncid_seed = 0
    /\ ctx = [c \in Cids |-> NoCtx]
    /\ buf = NoMsg /\ rpc_msg = NoMsg
    /\ to_server = [r \in Rpcs |-> <<>>] /\ to_client = [r \in Rpcs |-> <<>>]
    /\ conn = [r \in Rpcs |-> "none"]
    /\ closures = <<>>
    /\ call = [k \in Calls |-> "unmade"]
    /\ replies = [k \in Calls |-> <<>>]
    /\ kind \in Requested
-----------------------------------------------------------------------------
(***************************************************************************)
(* The life of an instance and of its connection, in the event loop.       *)
(***************************************************************************)

(***************************************************************************)
(* CreateRpc -> CreateBackEnd -> EasyNet::Connect, and CreateRpcByEasyNet. *)
(***************************************************************************)
CreateRpc(r) ==
    /\ InLoop
    /\ net[r] = "NONE"
    /\ net' = [net EXCEPT ![r] = "CONNECTING"]
    /\ UNCHANGED <<schedVars, crid_list, asyncid_seed, ctx, buf, rpc_msg,
                   wireVars, serverVars, histVars, kind>>

(***************************************************************************)
(* OnBackEndSocketEvent.  CONNECTED comes when the connection stands (the  *)
(* server has accepted it), and, as a comment in the code says of          *)
(* libevent, also after the ERROR of a connect that failed.  EOF comes     *)
(* after everything the server had sent.                                   *)
(***************************************************************************)
SocketEvent(r, event, state) ==
    /\ InLoop
    /\ \/ event = "CONNECTED" /\ state = "ESTABLISHED"
          /\ \/ net[r] = "CONNECTING" /\ conn' = [conn EXCEPT ![r] = "open"]
             \/ net[r] = "FAILED" /\ conn[r] = "none" /\ UNCHANGED conn
       \/ event = "ERROR" /\ state = "FAILED"
          /\ net[r] \in {"CONNECTING", "ESTABLISHED"} /\ UNCHANGED conn
       \/ event = "EOF" /\ state = "BEEN_CLOSED"
          /\ net[r] = "ESTABLISHED" /\ conn[r] = "freed" /\ to_client[r] = <<>>
          /\ UNCHANGED conn
    /\ net' = [net EXCEPT ![r] = state]
    /\ UNCHANGED <<schedVars, crid_list, asyncid_seed, ctx, buf, rpc_msg,
                   wireVars, closures, histVars, kind>>

\* Mutant: the destructor of EasyRpc forgets its coroutines.
DestroyRpc_Forgets(r) ==
    /\ InLoop
    /\ Exists(r)
    /\ net' = [net EXCEPT ![r] = "DESTROYED"]
    /\ crid_list' = [crid_list EXCEPT ![r] = {}]
    /\ to_client' = [to_client EXCEPT ![r] = <<>>]
    /\ UNCHANGED <<schedVars, asyncid_seed, ctx, buf, rpc_msg, to_server,
                   serverVars, histVars, kind>>

(***************************************************************************)
(* DestroyRpc: the back end is removed, then ~EasyRpc destroys the         *)
(* coroutines in its list, yielded as they are.                            *)
(***************************************************************************)
DestroyRpc(r) ==
    /\ InLoop
    /\ Exists(r)
    /\ net' = [net EXCEPT ![r] = "DESTROYED"]
    /\ DestroyCoroutines({p.crid : p \in crid_list[r]})
    /\ crid_list' = [crid_list EXCEPT ![r] = {}]
    /\ to_client' = [to_client EXCEPT ![r] = <<>>]
    /\ UNCHANGED <<asyncid_seed, ctx, buf, rpc_msg, to_server,
                   serverVars, histVars, kind>>
-----------------------------------------------------------------------------
(***************************************************************************)
(* A call, from RpcCall to the end of its coroutine.                       *)
(***************************************************************************)

(***************************************************************************)
(* Who may make a call: the loop (OnUpdate, OnTimer, a message handler)    *)
(* and, with CallbackCalls, a callback.                                    *)
(***************************************************************************)
AppHasControl ==
    \/ InLoop
    \/ CallbackCalls /\ cpu # Loop /\ ctx[cpu].at = "CALLBACK"

\* Mutant: the pair is stored with the number after the one that is sent.
RpcCall_NextId(r, k) ==
    /\ AppHasControl /\ Exists(r)
    /\ call[k] = "unmade"
    /\ CreateAndResume
    /\ crid_list' = [crid_list EXCEPT ![r] =
                       @ \cup {[crid |-> cid_seed, asyncid |-> asyncid_seed + 1]}]
    /\ ctx' = [ctx EXCEPT ![cid_seed] = [call |-> k, rpc |-> r, at |-> "START"]]
    /\ call' = [call EXCEPT ![k] = "made"]
    /\ UNCHANGED <<net, asyncid_seed, buf, rpc_msg, wireVars, serverVars,
                   replies, kind>>

(***************************************************************************)
(* RpcCall: a coroutine is created and started.                            *)
(***************************************************************************)
RpcCall(r, k) ==
    /\ AppHasControl /\ Exists(r)
    /\ call[k] = "unmade"
    /\ CreateAndResume
    /\ crid_list' = [crid_list EXCEPT ![r] =
                       @ \cup {[crid |-> cid_seed, asyncid |-> asyncid_seed]}]
    /\ ctx' = [ctx EXCEPT ![cid_seed] = [call |-> k, rpc |-> r, at |-> "START"]]
    /\ call' = [call EXCEPT ![k] = "made"]
    /\ UNCHANGED <<net, asyncid_seed, buf, rpc_msg, wireVars, serverVars,
                   replies, kind>>

(***************************************************************************)
(* RpcCall returns -1: there are coroutine_max_ coroutines already.        *)
(***************************************************************************)
RpcCallRefused(r, k) ==
    /\ AppHasControl /\ Exists(r)
    /\ call[k] = "unmade"
    /\ CreateCoroutineFails
    /\ call' = [call EXCEPT ![k] = "refused"]
    /\ UNCHANGED <<schedVars, rpcVars, wireVars, serverVars, replies, kind>>

(***************************************************************************)
(* MessageToBinary(RPC_TYPE_REQUEST, ...): a name that is too long leaves  *)
(* the static buffer as the last call filled it, and nobody asks.          *)
(***************************************************************************)
MessageToBinary(k, id) == IF kind[k] = "longnamed" THEN buf ELSE [call |-> k, asyncid |-> id]

(***************************************************************************)
(* EasyNet::Send: only an established connection takes a message; the      *)
(* failure is logged and nothing else.                                     *)
(***************************************************************************)
Send(r, m) ==
    to_server' = IF net[r] = "ESTABLISHED" /\ m # NoMsg
                   THEN [to_server EXCEPT ![r] = Append(@, m)]
                   ELSE to_server

(***************************************************************************)
(* RpcFunction up to YieldCoroutine: the request is sent, or not.          *)
(***************************************************************************)
SendsRequest ==
    /\ cpu # Loop
    /\ LET x == ctx[cpu]
       IN  /\ x.at = "START"
           /\ buf' = MessageToBinary(x.call, asyncid_seed)
           /\ asyncid_seed' = asyncid_seed + 1
           /\ Send(x.rpc, buf')
           /\ ctx' = [ctx EXCEPT ![cpu].at = "YIELDED"]
    /\ YieldCoroutine
    /\ UNCHANGED <<net, crid_list, rpc_msg, to_client, serverVars, histVars, kind>>

\* Mutant: the first coroutine in the list is resumed, whatever the asyncid.
OnBackEndMsg_FirstInLine(r) ==
    /\ InLoop
    /\ net[r] = "ESTABLISHED"
    /\ to_client[r] # <<>>
    /\ LET m == Head(to_client[r])
       IN  /\ rpc_msg' = IF crid_list[r] # {} THEN m ELSE rpc_msg
           /\ IF crid_list[r] # {} /\ m # Junk
              THEN /\ \E p \in crid_list[r] :
                         /\ \A q \in crid_list[r] : p.crid <= q.crid
                         /\ ResumeCoroutine(p.crid)
              ELSE UNCHANGED schedVars
    /\ to_client' = [to_client EXCEPT ![r] = Tail(@)]
    /\ UNCHANGED <<net, crid_list, asyncid_seed, ctx, buf, to_server, serverVars,
                   call, replies, kind>>

(***************************************************************************)
(* OnBackEndMsg for one message.  With a call outstanding it goes to       *)
(* EasyRpc::Resume, which resumes the coroutine listed with its asyncid;   *)
(* without one it goes to the application's OnRecvBackEnd.  A message that *)
(* does not unpack, or whose asyncid is not listed, resumes nobody.        *)
(***************************************************************************)
OnBackEndMsg(r) ==
    /\ InLoop
    /\ net[r] = "ESTABLISHED"
    /\ to_client[r] # <<>>
    /\ LET m == Head(to_client[r])
           pairs == IF m = Junk THEN {} ELSE {p \in crid_list[r] : p.asyncid = m.asyncid}
       IN  /\ rpc_msg' = IF crid_list[r] # {} THEN m ELSE rpc_msg
           /\ \/ \E p \in pairs : ResumeCoroutine(p.crid)
              \/ pairs = {} /\ UNCHANGED schedVars
    /\ to_client' = [to_client EXCEPT ![r] = Tail(@)]
    /\ UNCHANGED <<net, crid_list, asyncid_seed, ctx, buf, to_server, serverVars,
                   call, replies, kind>>

(***************************************************************************)
(* RpcFunction after YieldCoroutine: the answer is taken from rpc_msg_ and *)
(* the callback is called with it; status is -1 for an ERROR and for an    *)
(* answer that does not parse.                                             *)
(***************************************************************************)
CallsBack ==
    /\ cpu # Loop
    /\ LET x == ctx[cpu]
       IN  /\ x.at = "YIELDED"
           /\ replies' = [replies EXCEPT ![x.call] =
                            Append(@, [status |-> IF rpc_msg.type = "RESPONSE" THEN 0 ELSE -1,
                                       of |-> rpc_msg.call])]
           /\ ctx' = [ctx EXCEPT ![cpu].at = "CALLBACK"]
    /\ UNCHANGED <<schedVars, net, crid_list, asyncid_seed, buf, rpc_msg, wireVars,
                   serverVars, call, kind>>

\* Mutant: Resume does not remove the pair of a coroutine that is done.
Returns_KeepsPair ==
    /\ cpu # Loop
    /\ ctx[cpu].at = "CALLBACK"
    /\ ctx' = [ctx EXCEPT ![cpu].at = "OVER"]
    /\ ScheduleFunctionEnds
    /\ UNCHANGED <<net, crid_list, asyncid_seed, buf, rpc_msg, wireVars, serverVars,
                   histVars, kind>>

(***************************************************************************)
(* The callback returns and the coroutine ends.  Back in the loop,         *)
(* EasyRpc::Resume finds it gone and removes its pair.                     *)
(***************************************************************************)
Returns ==
    /\ cpu # Loop
    /\ ctx[cpu].at = "CALLBACK"
    /\ ctx' = [ctx EXCEPT ![cpu].at = "OVER"]
    /\ ScheduleFunctionEnds
    /\ crid_list' = IF main_ctx = Loop
                      THEN [crid_list EXCEPT ![ctx[cpu].rpc] = {p \in @ : p.crid # cpu}]
                      ELSE crid_list
    /\ UNCHANGED <<net, asyncid_seed, buf, rpc_msg, wireVars, serverVars, histVars, kind>>
-----------------------------------------------------------------------------
(***************************************************************************)
(* The server, in SVC_MODE_RPC.                                            *)
(***************************************************************************)

(***************************************************************************)
(* EasyRpcClosure::Done sends the response, Cancel an RPC_TYPE_ERROR.      *)
(***************************************************************************)
Answer(q) == [type |-> IF kind[q.call] = "done" THEN "RESPONSE" ELSE "ERROR",
              call |-> q.call, asyncid |-> q.asyncid]

(***************************************************************************)
(* Closure::Done and Cancel send through an EasyNet that is there; what is *)
(* sent reaches a caller that still has its end of the connection.         *)
(***************************************************************************)
SendAnswer(r, a) ==
    to_client' = IF net[r] = "ESTABLISHED" THEN [to_client EXCEPT ![r] = Append(@, a)]
                                           ELSE to_client

(***************************************************************************)
(* OnFrontEndRpcMsg for one request.  A type that is not known closes the  *)
(* connection; a request nobody serves is dropped; otherwise OnRpcCall     *)
(* completes the closure at once or keeps it.                              *)
(***************************************************************************)
OnFrontEndRpcMsg(r) ==
    /\ conn[r] = "open"
    /\ to_server[r] # <<>>
    /\ LET q == Head(to_server[r])
       IN  \/ /\ kind[q.call] = "unknown"
              /\ conn' = [conn EXCEPT ![r] = "freed"]
              /\ UNCHANGED <<closures, to_client>>
           \/ /\ kind[q.call] = "unserved"
              /\ UNCHANGED <<conn, closures, to_client>>
           \/ /\ kind[q.call] = "foreign"
              /\ SendAnswer(r, Junk)
              /\ UNCHANGED <<conn, closures>>
           \/ /\ kind[q.call] \in {"done", "cancelled"}
              /\ SendAnswer(r, Answer(q))
              /\ UNCHANGED <<conn, closures>>
           \/ /\ Deferred
              /\ kind[q.call] \in {"done", "cancelled"}
              /\ closures' = Append(closures, [rpc |-> r, req |-> q])
              /\ UNCHANGED <<conn, to_client>>
    /\ to_server' = [to_server EXCEPT ![r] = Tail(@)]
    /\ UNCHANGED <<schedVars, rpcVars, histVars, kind>>

(***************************************************************************)
(* EasyRpcClosure::Done or Cancel of a closure that was kept: the answer   *)
(* is sent through net_, and the closure deletes itself.  net_ is a plain  *)
(* pointer: when the connection is gone it dangles, and nothing can be     *)
(* said of what is sent but that it does not reach the caller.             *)
(***************************************************************************)
Completes(i) ==
    LET r == closures[i].rpc
    IN  /\ closures' = RemoveAt(closures, i)
        /\ \/ conn[r] = "open" /\ SendAnswer(r, Answer(closures[i].req))
           \/ conn[r] = "freed" /\ UNCHANGED to_client
        /\ UNCHANGED <<schedVars, rpcVars, to_server, conn, histVars, kind>>

(***************************************************************************)
(* The server removes the connection: the peer closed it, it was idle or   *)
(* too fast (FrontEnd describes when).                                     *)
(***************************************************************************)
ServerCloses(r) ==
    /\ conn[r] = "open"
    /\ conn' = [conn EXCEPT ![r] = "freed"]
    /\ UNCHANGED <<schedVars, rpcVars, wireVars, closures, histVars, kind>>

-----------------------------------------------------------------------------
Events == {<<"CONNECTED", "ESTABLISHED">>, <<"ERROR", "FAILED">>, <<"EOF", "BEEN_CLOSED">>}

Coroutine == SendsRequest \/ CallsBack \/ Returns

Next ==
    \/ \E r \in Rpcs : CreateRpc(r) \/ DestroyRpc(r)
    \/ \E r \in Rpcs, e \in Events : SocketEvent(r, e[1], e[2])
    \/ \E r \in Rpcs, k \in Calls : RpcCall(r, k) \/ RpcCallRefused(r, k)
    \/ Coroutine
    \/ \E r \in Rpcs : OnBackEndMsg(r) \/ OnFrontEndRpcMsg(r)
    \/ \E i \in 1 .. Len(closures) : Completes(i)
    \/ \E r \in Rpcs : ServerCloses(r)

(***************************************************************************)
(* A coroutine that was resumed runs on; the event loops of both processes *)
(* handle what has arrived; a service completes what it has kept (the demo *)
(* does so at once).  No call has to be made and no connection has to      *)
(* stand.                                                                  *)
(***************************************************************************)
Fairness ==
    /\ WF_vars(Coroutine)
    /\ \A r \in Rpcs : WF_vars(OnBackEndMsg(r)) /\ WF_vars(OnFrontEndRpcMsg(r))
    /\ WF_vars(closures # <<>> /\ Completes(1))

Spec == Init /\ [][Next]_vars /\ Fairness
-----------------------------------------------------------------------------
Contexts == [call : Calls, rpc : Rpcs, at : Places]
Replies == [status : {0, -1}, of : Calls]

CallsTypeOK ==
    /\ SchedulerTypeOK
    /\ net \in [Rpcs -> NetStates]
    /\ crid_list \in [Rpcs -> SUBSET [crid : Cids, asyncid : Cids]]
    /\ ctx \in [Cids -> Contexts \cup {NoCtx}]
    /\ call \in [Calls -> {"unmade", "refused", "made"}]
    /\ replies \in [Calls -> Seq(Replies)]
    /\ kind \in [Calls -> Kinds]

TypeOK ==
    /\ CallsTypeOK
    /\ asyncid_seed \in 0 .. MaxCid + 1
    /\ buf \in Requests \cup {NoMsg}
    /\ rpc_msg \in Answers \cup {NoMsg, Junk}
    /\ to_server \in [Rpcs -> Seq(Requests)]
    /\ to_client \in [Rpcs -> Seq(Answers \cup {Junk})]
    /\ conn \in [Rpcs -> {"none", "open", "freed"}]
    /\ closures \in Seq([rpc : Rpcs, req : Requests])

(***************************************************************************)
(* The callback of a call is called at most once and with the answer to    *)
(* this very call, although several calls share a connection, a buffer and *)
(* the unpacked message, services answer in any order, and a request may   *)
(* be sent twice (MessageToBinary).                                        *)
(***************************************************************************)
OwnAnswerOnce ==
    \A k \in Calls : /\ Len(replies[k]) <= 1
                     /\ \A i \in 1 .. Len(replies[k]) :
                          replies[k][i] = [of |-> k,
                                           status |-> IF kind[k] = "done" THEN 0 ELSE -1]

(***************************************************************************)
(* When the loop has control, the pairs in crid_list_ and the coroutines   *)
(* in the scheduler's table are the same, all yielded, each listed by the  *)
(* one instance it belongs to: no coroutine leaks and no pair dangles,     *)
(* whichever way calls end.                                                *)
(***************************************************************************)
ListedAreSuspended ==
    InLoop =>
      /\ \A c \in InTable :
            /\ coroutine_table[c] = "SUSPEND"
            /\ Cardinality({p \in crid_list[ctx[c].rpc] : p.crid = c}) = 1
      /\ \A r \in Rpcs : \A p \in crid_list[r] :
            p.crid \in InTable /\ ctx[p.crid].rpc = r

(***************************************************************************)
(* A place in the table is held by exactly the calls that wait for their   *)
(* answer on an instance that has not been destroyed, so RpcCall refuses a *)
(* call only when coroutine_max_ calls really wait.                        *)
(***************************************************************************)
Waits(k) ==
    /\ replies[k] = <<>>
    /\ \E c \in Cids : ctx[c].call = k /\ Exists(ctx[c].rpc)

SlotsAreWaitingCalls ==
    InLoop => /\ Cardinality(InTable) = Cardinality({k \in Calls : Waits(k)})
              /\ \A k \in Calls : Waits(k) <=> \E c \in InTable : ctx[c].call = k

(***************************************************************************)
(* The event loop gets the processor back from every coroutine.            *)
(***************************************************************************)
LoopRegainsControl == cpu # Loop ~> cpu = Loop

(***************************************************************************)
(* A request that has been sent to a service is called back, unless the    *)
(* connection is lost or the instance destroyed.                           *)
(***************************************************************************)
OnOpenConnection(k) ==
    \E c \in Cids : /\ ctx[c].call = k
                    /\ conn[ctx[c].rpc] = "open" /\ net[ctx[c].rpc] = "ESTABLISHED"

Pending(k) ==
    /\ kind[k] \in {"done", "cancelled"}
    /\ \E c \in InTable : /\ ctx[c].call = k
                          /\ \E i \in 1 .. Len(to_server[ctx[c].rpc]) :
                                to_server[ctx[c].rpc][i].call = k

AnswerArrives ==
    \A k \in Calls : Pending(k) ~> replies[k] # <<>> \/ ~OnOpenConnection(k)
=============================================================================
