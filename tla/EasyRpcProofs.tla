--------------------------- MODULE EasyRpcProofs ---------------------------
(***************************************************************************)
(* Proofs about remote calls, for any number of instances, of calls and of *)
(* coroutines, and any mix of requests: first those whose callbacks make   *)
(* no calls themselves, then those whose callbacks do.                     *)
(***************************************************************************)
EXTENDS EasyRpc, SequenceTheorems, FiniteSetTheorems, TLAPS

(***************************************************************************)
(* Callbacks make no calls, so a coroutine is always resumed by the loop   *)
(* and main_ctx_ is the loop's: at most one coroutine runs, and it goes    *)
(* back to the loop.                                                       *)
(***************************************************************************)
SchedInv ==
    /\ main_ctx = Loop
    /\ cpu # Loop => running_cid = cpu /\ coroutine_table[cpu] = "RUNNING"
    /\ \A c \in Cids : c # cpu => coroutine_table[c] \in {"NONE", "SUSPEND"}

(***************************************************************************)
(* cid_seed and asyncid_seed advance together, one call at a time.         *)
(***************************************************************************)
SeedInv ==
    /\ asyncid_seed = IF cpu # Loop /\ ctx[cpu].at = "START" THEN cpu ELSE cid_seed
    /\ cpu # Loop /\ ctx[cpu].at = "START" => cid_seed = cpu + 1
    /\ \A c \in Cids : c < cid_seed <=> ctx[c] # NoCtx
    /\ InTable \subseteq {c \in Cids : c < cid_seed}

(***************************************************************************)
(* What a coroutine in the table is for.                                   *)
(***************************************************************************)
ContextInv ==
    /\ \A c \in InTable : /\ Exists(ctx[c].rpc)
                          /\ c # cpu => ctx[c].at = "YIELDED"
                          /\ ctx[c].at # "CALLBACK" => replies[ctx[c].call] = <<>>
                          /\ ctx[c].at # "OVER"
    /\ \A c, d \in Cids : ctx[c] # NoCtx /\ ctx[c].call = ctx[d].call => c = d
    /\ \A c \in Cids : ctx[c] # NoCtx => call[ctx[c].call] = "made"
    /\ \A k \in Calls : call[k] = "unmade" => replies[k] = <<>>

(***************************************************************************)
(* The pairs of an instance are those of its coroutines; since the seeds   *)
(* advance together both numbers of a pair are the same.                   *)
(***************************************************************************)
Pair(c) == [crid |-> c, asyncid |-> c]

ListInv ==
    \A r \in Rpcs : crid_list[r] =
      {p \in [crid : Cids, asyncid : Cids] :
         p.asyncid = p.crid /\ p.crid \in InTable /\ ctx[p.crid].rpc = r}

(***************************************************************************)
(* A coroutine that has left the table was called back or destroyed with   *)
(* its instance.                                                           *)
(***************************************************************************)
LeftInv ==
    /\ \A c \in Cids : ctx[c].at = "CALLBACK" => replies[ctx[c].call] # <<>>
    /\ \A c \in Cids : ctx[c] # NoCtx /\ c \notin InTable =>
         replies[ctx[c].call] # <<>> \/ net[ctx[c].rpc] = "DESTROYED"

(***************************************************************************)
(* The number a message carries is that of the coroutine which waits for   *)
(* the answer to this call, wherever the message is; and when a coroutine  *)
(* has been resumed, rpc_msg_ is its answer.                               *)
(***************************************************************************)
Asked == {q \in Requests : ctx[q.asyncid].call = q.call}

Answered ==
    {a \in Answers : /\ ctx[a.asyncid].call = a.call
                     /\ a.type = IF kind[a.call] = "done" THEN "RESPONSE" ELSE "ERROR"}

MessageInv ==
    /\ buf \in Asked \cup {NoMsg}
    /\ to_server \in [Rpcs -> Seq(Asked)]
    /\ to_client \in [Rpcs -> Seq(Answered \cup {Junk})]
    /\ closures \in Seq([rpc : Rpcs, req : Asked])
    /\ cpu # Loop /\ ctx[cpu].at = "YIELDED" =>
         rpc_msg \in Answered /\ rpc_msg.call = ctx[cpu].call

CallInv ==
    /\ CallsTypeOK /\ SchedInv /\ SeedInv /\ ContextInv /\ ListInv /\ LeftInv
    /\ OwnAnswerOnce

(***************************************************************************)
(* The inductive invariant: CallInv needs MessageInv when a coroutine is   *)
(* resumed and calls back, MessageInv needs CallInv when a request is sent.*)
(***************************************************************************)
IInv == CallInv /\ MessageInv
-----------------------------------------------------------------------------
(***************************************************************************)
(* Before the first call nothing is suspended, listed or under way.        *)
(***************************************************************************)
LEMMA InitInv == Init => IInv
<1> SUFFICES ASSUME Init PROVE IInv
  OBVIOUS
<1> USE SchedulerAssumption, RpcAssumption DEF Init, SchedulerInit, Cids, Loop, NoCid
<1>1. CallsTypeOK
  BY DEF CallsTypeOK, SchedulerTypeOK, States, NetStates
<1>2. InTable = {}
  BY DEF InTable
<1>3. SchedInv /\ SeedInv
  BY <1>2 DEF SchedInv, SeedInv
<1>4. ContextInv /\ ListInv /\ LeftInv
  BY <1>2 DEF ContextInv, ListInv, LeftInv, NoCtx
<1>5. MessageInv
  BY DEF MessageInv
<1>6. OwnAnswerOnce
  BY DEF OwnAnswerOnce
<1>7. QED
  BY <1>1, <1>3, <1>4, <1>5, <1>6 DEF IInv, CallInv

(***************************************************************************)
(* A step that leaves the calls alone, as the steps of the server do.      *)
(***************************************************************************)
LEMMA CallInvUnchanged ==
    ASSUME CallInv, UNCHANGED <<schedVars, net, crid_list, asyncid_seed, ctx, histVars, kind>>
    PROVE  CallInv'
BY DEF CallInv, schedVars, histVars, CallsTypeOK, SchedulerTypeOK, SchedInv, SeedInv, ContextInv,
       ListInv, LeftInv, OwnAnswerOnce, InTable, Exists

(***************************************************************************)
(* The server forwards the number of the call it answers.                  *)
(***************************************************************************)
LEMMA AnswerIsAnswered ==
    ASSUME CallsTypeOK, NEW q \in Asked PROVE Answer(q) \in Answered
BY DEF CallsTypeOK, Asked, Answered, Answer, Requests, Answers

(***************************************************************************)
(* An answer that is sent, or lost on a closed connection, keeps the queue *)
(* a queue of answers.                                                     *)
(***************************************************************************)
LEMMA SendAnswerKeeps ==
    ASSUME MessageInv, NEW r \in Rpcs, NEW a \in Answered \cup {Junk}, SendAnswer(r, a)
    PROVE  to_client' \in [Rpcs -> Seq(Answered \cup {Junk})]
BY DEF MessageInv, SendAnswer

(***************************************************************************)
(* The server takes a request and answers it (OnFrontEndRpcMsg).           *)
(***************************************************************************)
LEMMA ServerStep ==
    ASSUME IInv, NEW r \in Rpcs, OnFrontEndRpcMsg(r) PROVE IInv'
<1>1. CallInv'
  BY CallInvUnchanged DEF IInv, OnFrontEndRpcMsg, rpcVars
<1>2. Asked' = Asked /\ Answered' = Answered
  BY DEF OnFrontEndRpcMsg, rpcVars, Asked, Answered
<1> DEFINE q == Head(to_server[r])
<1>3. q \in Asked /\ Tail(to_server[r]) \in Seq(Asked)
  BY DEF IInv, MessageInv, OnFrontEndRpcMsg
<1>4. to_client' \in [Rpcs -> Seq(Answered \cup {Junk})]
  <2>1. CASE UNCHANGED to_client
    BY <2>1 DEF IInv, MessageInv
  <2>2. CASE SendAnswer(r, Junk)
    BY <2>2, SendAnswerKeeps DEF IInv
  <2>3. CASE SendAnswer(r, Answer(q))
    BY <1>3, <2>3, SendAnswerKeeps, AnswerIsAnswered DEF IInv, CallInv
  <2>4. QED
    BY <2>1, <2>2, <2>3 DEF OnFrontEndRpcMsg
<1>5. closures' \in Seq([rpc : Rpcs, req : Asked])
  <2>1. CASE UNCHANGED closures
    BY <2>1 DEF IInv, MessageInv
  <2>2. CASE closures' = Append(closures, [rpc |-> r, req |-> q])
    BY <1>3, <2>2 DEF IInv, MessageInv
  <2>3. QED
    BY <2>1, <2>2 DEF OnFrontEndRpcMsg
<1>6. MessageInv'
  BY <1>2, <1>3, <1>4, <1>5 DEF IInv, MessageInv, OnFrontEndRpcMsg, rpcVars, schedVars
<1>7. QED
  BY <1>1, <1>6 DEF IInv

(***************************************************************************)
(* A closure that deletes itself leaves the others as they are.            *)
(***************************************************************************)
LEMMA RemoveAtKeeps ==
    ASSUME NEW S, NEW s \in Seq(S), NEW i \in 1 .. Len(s) PROVE RemoveAt(s, i) \in Seq(S)
<1>1. i - 1 \in Int /\ i + 1 \in Int /\ Len(s) \in Int
  OBVIOUS
<1>2. \A j \in 1 .. i - 1 : s[j] \in S
  OBVIOUS
<1>3. \A j \in i + 1 .. Len(s) : s[j] \in S
  OBVIOUS
<1>4. SubSeq(s, 1, i - 1) \in Seq(S)
  BY <1>1, <1>2, SubSeqProperties
<1>5. SubSeq(s, i + 1, Len(s)) \in Seq(S)
  BY <1>1, <1>3, SubSeqProperties
<1>6. QED
  BY <1>4, <1>5, ConcatProperties DEF RemoveAt

(***************************************************************************)
(* Completes: a closure that was kept answers the call it was made for.    *)
(***************************************************************************)
LEMMA CompletesStep ==
    ASSUME IInv, NEW i \in 1 .. Len(closures), Completes(i) PROVE IInv'
<1>1. CallInv'
  BY CallInvUnchanged DEF IInv, Completes, rpcVars
<1>2. Asked' = Asked /\ Answered' = Answered
  BY DEF Completes, rpcVars, Asked, Answered
<1>3. closures[i].rpc \in Rpcs /\ closures[i].req \in Asked
  <2>1. closures \in Seq([rpc : Rpcs, req : Asked])
    BY DEF IInv, MessageInv
  <2>2. closures[i] \in [rpc : Rpcs, req : Asked]
    BY <2>1, ElementOfSeq
  <2>3. QED
    BY <2>2
<1>4. to_client' \in [Rpcs -> Seq(Answered \cup {Junk})]
  <2>1. CASE UNCHANGED to_client
    BY <2>1 DEF IInv, MessageInv
  <2>2. CASE SendAnswer(closures[i].rpc, Answer(closures[i].req))
    BY <1>3, <2>2, SendAnswerKeeps, AnswerIsAnswered DEF IInv, CallInv
  <2>3. QED
    BY <2>1, <2>2 DEF Completes
<1>5. closures' \in Seq([rpc : Rpcs, req : Asked])
  BY RemoveAtKeeps DEF IInv, MessageInv, Completes
<1>6. MessageInv'
  BY <1>2, <1>4, <1>5 DEF IInv, MessageInv, Completes, rpcVars, schedVars
<1>7. QED
  BY <1>1, <1>6 DEF IInv

(***************************************************************************)
(* The server closes the connection: requests on it are taken no more.     *)
(***************************************************************************)
LEMMA ServerClosesStep ==
    ASSUME IInv, NEW r \in Rpcs, ServerCloses(r) PROVE IInv'
<1>1. CallInv'
  BY CallInvUnchanged DEF IInv, ServerCloses, rpcVars
<1>2. MessageInv'
  BY DEF IInv, MessageInv, ServerCloses, rpcVars, wireVars, schedVars, Asked, Answered
<1>3. QED
  BY <1>1, <1>2 DEF IInv

-----------------------------------------------------------------------------
(***************************************************************************)
(* Facts that the steps of the caller share.                               *)
(***************************************************************************)

(***************************************************************************)
(* A coroutine in the table has a context, that of a call on an instance.  *)
(***************************************************************************)
LEMMA TableHasContexts ==
    ASSUME CallInv, NEW c \in InTable
    PROVE  c \in Cids /\ c < cid_seed /\ ctx[c] # NoCtx /\ ctx[c] \in Contexts
BY DEF CallInv, CallsTypeOK, SeedInv, InTable

(***************************************************************************)
(* The coroutine that executes is in the table.                            *)
(***************************************************************************)
LEMMA RunningIsInTable ==
    ASSUME CallInv, cpu # Loop PROVE cpu \in InTable
BY DEF CallInv, CallsTypeOK, SchedulerTypeOK, SchedInv, InTable

(***************************************************************************)
(* A coroutine that goes on in RpcFunction keeps its call and its          *)
(* instance, and so do the messages.                                       *)
(***************************************************************************)
LEMMA MovesOn ==
    ASSUME CallInv, NEW c \in InTable, NEW p \in Places,
           ctx' = [ctx EXCEPT ![c].at = p], UNCHANGED kind
    PROVE  /\ ctx' \in [Cids -> Contexts \cup {NoCtx}]
           /\ \A d \in Cids : /\ ctx'[d].call = ctx[d].call /\ ctx'[d].rpc = ctx[d].rpc
                              /\ d # c => ctx'[d] = ctx[d]
                              /\ ctx'[d] = NoCtx <=> ctx[d] = NoCtx
           /\ ctx'[c].at = p
           /\ Asked' = Asked /\ Answered' = Answered
<1>1. c \in Cids /\ ctx[c] \in Contexts
  BY TableHasContexts
<1>2. ctx \in [Cids -> Contexts \cup {NoCtx}]
  BY DEF CallInv, CallsTypeOK
<1>3. ctx'[c] = [call |-> ctx[c].call, rpc |-> ctx[c].rpc, at |-> p]
  BY <1>1, <1>2 DEF Contexts
<1>4. \A d \in Cids : d # c => ctx'[d] = ctx[d]
  BY <1>2
<1>5. ctx'[c] \in Contexts
  BY <1>1, <1>3 DEF Contexts
<1>6. ctx' \in [Cids -> Contexts \cup {NoCtx}]
  BY <1>1, <1>2, <1>5
<1>7. NoCtx \notin Contexts
  BY RpcAssumption DEF NoCtx, Contexts
<1>8. \A d \in Cids : ctx'[d].call = ctx[d].call /\ ctx'[d].rpc = ctx[d].rpc
  BY <1>3, <1>4
<1>9. Asked' = Asked /\ Answered' = Answered
  BY <1>8 DEF Asked, Answered, Requests, Answers
<1>10. QED
  BY <1>1, <1>3, <1>4, <1>5, <1>6, <1>7, <1>8, <1>9

(***************************************************************************)
(* The connection of an instance changes its state, and the instance is    *)
(* not destroyed.                                                          *)
(***************************************************************************)
LEMMA NetStep ==
    ASSUME CallInv, net' \in [Rpcs -> NetStates],
           \A r \in Rpcs : Exists(r) => Exists(r)',
           \A r \in Rpcs : net[r] = "DESTROYED" => net'[r] = "DESTROYED",
           UNCHANGED <<schedVars, crid_list, asyncid_seed, ctx, histVars, kind>>
    PROVE  CallInv'
<1> USE DEF schedVars, histVars
<1>1. CallsTypeOK' /\ SchedInv' /\ SeedInv' /\ ListInv' /\ OwnAnswerOnce'
  BY DEF CallInv, CallsTypeOK, SchedulerTypeOK, SchedInv, SeedInv, ListInv, OwnAnswerOnce, InTable
<1>2. InTable' = InTable
  BY DEF InTable
<1>3. ContextInv'
  <2>1. \A c \in InTable : Exists(ctx[c].rpc) /\ ctx[c].rpc \in Rpcs
    BY TableHasContexts DEF CallInv, ContextInv, Contexts
  <2>2. \A c \in InTable : Exists(ctx[c].rpc)'
    BY <2>1
  <2>3. QED
    BY <1>2, <2>2 DEF CallInv, ContextInv
<1>4. LeftInv'
  <2>1. \A c \in Cids : ctx[c] # NoCtx => ctx[c].rpc \in Rpcs
    BY DEF CallInv, CallsTypeOK, Contexts
  <2>2. QED
    BY <1>2, <2>1 DEF CallInv, LeftInv
<1>5. QED
  BY <1>1, <1>3, <1>4 DEF CallInv

-----------------------------------------------------------------------------
(***************************************************************************)
(* The life of an instance and of its connection.                          *)
(***************************************************************************)

(***************************************************************************)
(* CreateRpc starts an instance that no coroutine belongs to.              *)
(***************************************************************************)
LEMMA CreateRpcStep ==
    ASSUME IInv, NEW r \in Rpcs, CreateRpc(r) PROVE IInv'
<1>1. net' \in [Rpcs -> NetStates]
  BY DEF IInv, CallInv, CallsTypeOK, CreateRpc, NetStates
<1>2. CallInv'
  <2>1. \A s \in Rpcs : Exists(s) => Exists(s)'
    BY <1>1 DEF IInv, CallInv, CallsTypeOK, CreateRpc, Exists
  <2>2. \A s \in Rpcs : net[s] = "DESTROYED" => net'[s] = "DESTROYED"
    BY <1>1 DEF IInv, CallInv, CallsTypeOK, CreateRpc
  <2>3. QED
    BY <1>1, <2>1, <2>2, NetStep DEF IInv, CreateRpc
<1>3. MessageInv'
  BY DEF IInv, MessageInv, CreateRpc, wireVars, serverVars, schedVars, Asked, Answered
<1>4. QED
  BY <1>2, <1>3 DEF IInv

(***************************************************************************)
(* OnBackEndSocketEvent keeps the instance, whatever the event.            *)
(***************************************************************************)
LEMMA SocketEventStep ==
    ASSUME IInv, NEW r \in Rpcs, NEW e \in Events, SocketEvent(r, e[1], e[2]) PROVE IInv'
<1>1. e[2] \in {"ESTABLISHED", "FAILED", "BEEN_CLOSED"}
  BY DEF Events
<1>2. net[r] \in {"CONNECTING", "ESTABLISHED", "FAILED"} /\ net' = [net EXCEPT ![r] = e[2]]
  BY DEF SocketEvent
<1>3. net' \in [Rpcs -> NetStates]
  BY <1>1, <1>2 DEF IInv, CallInv, CallsTypeOK, NetStates
<1>4. CallInv'
  <2>1. \A s \in Rpcs : Exists(s) => Exists(s)'
    BY <1>1, <1>2 DEF IInv, CallInv, CallsTypeOK, Exists
  <2>2. \A s \in Rpcs : net[s] = "DESTROYED" => net'[s] = "DESTROYED"
    BY <1>2 DEF IInv, CallInv, CallsTypeOK
  <2>3. QED
    BY <1>3, <2>1, <2>2, NetStep DEF IInv, SocketEvent
<1>5. MessageInv'
  BY DEF IInv, MessageInv, SocketEvent, wireVars, schedVars, Asked, Answered
<1>6. QED
  BY <1>4, <1>5 DEF IInv

(***************************************************************************)
(* DestroyRpc: the list holds exactly the coroutines of the instance, so   *)
(* the destructor takes these out of the table and no others.              *)
(***************************************************************************)
LEMMA DestroyRpcStep ==
    ASSUME IInv, NEW r \in Rpcs, DestroyRpc(r) PROVE IInv'
<1> USE DEF IInv, CallInv
<1>1. /\ cpu = Loop /\ UNCHANGED <<running_cid, main_ctx, cid_seed, cpu>>
      /\ net' = [net EXCEPT ![r] = "DESTROYED"]
      /\ UNCHANGED <<asyncid_seed, ctx, buf, rpc_msg, to_server, conn, closures, call,
                     replies, kind>>
      /\ crid_list' = [crid_list EXCEPT ![r] = {}]
      /\ to_client' = [to_client EXCEPT ![r] = <<>>]
  BY DEF DestroyRpc, DestroyCoroutines, InLoop, serverVars, histVars
<1>2. {p.crid : p \in crid_list[r]} = {c \in InTable : ctx[c].rpc = r}
  <2>1. \A p \in crid_list[r] : p.crid \in InTable /\ ctx[p.crid].rpc = r
    BY DEF ListInv
  <2>2. \A c \in InTable : ctx[c].rpc = r => Pair(c) \in crid_list[r]
    BY TableHasContexts DEF ListInv, Pair
  <2>3. \A c : Pair(c).crid = c
    BY DEF Pair
  <2>4. QED
    BY <2>1, <2>2, <2>3
<1>3. coroutine_table' = [c \in Cids |-> IF c \in InTable /\ ctx[c].rpc = r THEN "NONE"
                                         ELSE coroutine_table[c]]
  BY <1>2 DEF DestroyRpc, DestroyCoroutines
<1>4. InTable' = {c \in InTable : ctx[c].rpc # r}
  BY <1>3 DEF InTable
<1>5. CallsTypeOK'
  <2>1. coroutine_table' \in [Cids -> States]
    BY <1>3 DEF CallsTypeOK, SchedulerTypeOK, States
  <2>2. SchedulerTypeOK'
    BY <1>1, <2>1 DEF CallsTypeOK, SchedulerTypeOK
  <2>3. net' \in [Rpcs -> NetStates]
    BY <1>1 DEF CallsTypeOK, NetStates
  <2>4. crid_list' \in [Rpcs -> SUBSET [crid : Cids, asyncid : Cids]]
    BY <1>1 DEF CallsTypeOK
  <2>5. QED
    BY <1>1, <2>2, <2>3, <2>4 DEF CallsTypeOK
<1>6. SchedInv'
  BY <1>1, <1>3 DEF SchedInv
<1>7. SeedInv'
  BY <1>1, <1>4 DEF SeedInv
<1>8. ContextInv'
  <2>1. \A c \in InTable' : Exists(ctx[c].rpc)'
    BY <1>1, <1>4, TableHasContexts DEF ContextInv, Exists, CallsTypeOK, Contexts
  <2>2. QED
    BY <1>1, <1>4, <2>1 DEF ContextInv
<1>9. ListInv'
  BY <1>1, <1>4 DEF ListInv, CallsTypeOK
<1>10. LeftInv'
  <2>1. \A s \in Rpcs : net[s] = "DESTROYED" => net'[s] = "DESTROYED"
    BY <1>1 DEF CallsTypeOK
  <2>2. net'[r] = "DESTROYED"
    BY <1>1 DEF CallsTypeOK
  <2>3. \A c \in Cids : ctx[c] # NoCtx => ctx[c].rpc \in Rpcs
    BY DEF CallsTypeOK, Contexts
  <2>4. QED
    BY <1>1, <1>4, <2>1, <2>2, <2>3 DEF LeftInv
<1>11. OwnAnswerOnce'
  BY <1>1 DEF OwnAnswerOnce
<1>12. MessageInv'
  <2>1. Asked' = Asked /\ Answered' = Answered
    BY <1>1 DEF Asked, Answered
  <2>2. to_client' \in [Rpcs -> Seq(Answered \cup {Junk})]
    BY <1>1 DEF MessageInv
  <2>3. QED
    BY <1>1, <2>1, <2>2 DEF MessageInv
<1>13. QED
  BY <1>5, <1>6, <1>7, <1>8, <1>9, <1>10, <1>11, <1>12

-----------------------------------------------------------------------------
(***************************************************************************)
(* A call, from RpcCall to the end of its coroutine.                       *)
(***************************************************************************)

(***************************************************************************)
(* RpcCall: the new coroutine gets a number nobody has, and the number its *)
(* request will carry is the same.                                         *)
(***************************************************************************)
LEMMA RpcCallStep ==
    ASSUME IInv, InLoop, NEW r \in Rpcs, NEW k \in Calls, RpcCall(r, k)
    PROVE  IInv'
<1> USE SchedulerAssumption DEF IInv, CallInv, Loop, Cids
<1> DEFINE c0 == cid_seed
<1>1. /\ cpu = Loop /\ Exists(r) /\ call[k] = "unmade" /\ c0 \in Cids
      /\ coroutine_table' = [coroutine_table EXCEPT ![c0] = "RUNNING"]
      /\ running_cid' = c0 /\ main_ctx' = Loop /\ cpu' = c0 /\ cid_seed' = c0 + 1
      /\ ctx' = [ctx EXCEPT ![c0] = [call |-> k, rpc |-> r, at |-> "START"]]
      /\ call' = [call EXCEPT ![k] = "made"]
      /\ UNCHANGED <<net, asyncid_seed, buf, rpc_msg, to_server, to_client, conn, closures,
                     replies, kind>>
  BY DEF RpcCall, InLoop, CreateAndResume, wireVars, serverVars
<1>2. asyncid_seed = c0 /\ ctx[c0] = NoCtx /\ c0 \notin InTable
  BY <1>1 DEF SeedInv
<1>3. crid_list' = [crid_list EXCEPT ![r] = @ \cup {Pair(c0)}]
  BY <1>2 DEF RpcCall, Pair
<1>4. InTable' = InTable \cup {c0}
  BY <1>1 DEF InTable, CallsTypeOK, SchedulerTypeOK
<1>5. /\ \A c \in Cids : c # c0 => ctx'[c] = ctx[c]
      /\ ctx'[c0] = [call |-> k, rpc |-> r, at |-> "START"]
  BY <1>1 DEF CallsTypeOK
<1>6. ctx'[c0] # NoCtx /\ ctx'[c0] \in Contexts
  BY <1>5 DEF NoCtx, Contexts, Places
<1>7. CallsTypeOK'
  <2>1. SchedulerTypeOK'
    BY <1>1 DEF CallsTypeOK, SchedulerTypeOK, States
  <2>2. crid_list' \in [Rpcs -> SUBSET [crid : Cids, asyncid : Cids]]
    BY <1>1, <1>3 DEF CallsTypeOK, Pair
  <2>3. ctx' \in [Cids -> Contexts \cup {NoCtx}]
    BY <1>1, <1>5, <1>6 DEF CallsTypeOK
  <2>4. call' \in [Calls -> {"unmade", "refused", "made"}]
    BY <1>1 DEF CallsTypeOK
  <2>5. QED
    BY <1>1, <2>1, <2>2, <2>3, <2>4 DEF CallsTypeOK
<1>8. SchedInv'
  BY <1>1 DEF SchedInv, CallsTypeOK, SchedulerTypeOK
<1>9. SeedInv'
  <2>1. \A c \in Cids : c < c0 + 1 <=> c < c0 \/ c = c0
    BY <1>1
  <2>2. \A c \in Cids : c < cid_seed' <=> ctx'[c] # NoCtx
    BY <1>1, <1>5, <1>6, <2>1 DEF SeedInv
  <2>3. InTable' \subseteq {c \in Cids : c < cid_seed'}
    BY <1>1, <1>4, <2>1 DEF SeedInv
  <2>4. ctx'[cpu'].at = "START"
    BY <1>1, <1>5
  <2>5. QED
    BY <1>1, <1>2, <2>2, <2>3, <2>4 DEF SeedInv
<1>10. \A c \in Cids : c # c0 => ctx[c].call # k
  BY <1>1, RpcAssumption DEF ContextInv, NoCtx
<1>11. ContextInv'
  <2>1. ASSUME NEW c \in InTable'
        PROVE  /\ Exists(ctx[c].rpc)'
               /\ c # cpu' => ctx'[c].at = "YIELDED"
               /\ ctx'[c].at # "CALLBACK" => replies'[ctx'[c].call] = <<>>
               /\ ctx'[c].at # "OVER"
    <3>1. CASE c = c0
      BY <1>1, <1>5, <3>1 DEF ContextInv, Exists
    <3>2. CASE c # c0
      <4>1. c \in InTable /\ c \in Cids /\ c # cpu
        BY <1>1, <1>4, <3>2 DEF InTable
      <4>2. QED
        BY <1>1, <1>5, <3>2, <4>1 DEF ContextInv, Exists
    <3>3. QED
      BY <3>1, <3>2
  <2>2. \A c, d \in Cids : ctx'[c] # NoCtx /\ ctx'[c].call = ctx'[d].call => c = d
    BY <1>5, <1>10 DEF ContextInv
  <2>3. \A c \in Cids : ctx'[c] # NoCtx => call'[ctx'[c].call] = "made"
    <3>1. \A c \in Cids : ctx[c] # NoCtx => ctx[c].call \in Calls
      BY DEF CallsTypeOK, Contexts
    <3>2. QED
      BY <1>1, <1>5, <1>10, <3>1 DEF ContextInv, CallsTypeOK
  <2>4. \A j \in Calls : call'[j] = "unmade" => replies'[j] = <<>>
    BY <1>1 DEF ContextInv, CallsTypeOK
  <2>5. QED
    BY <2>1, <2>2, <2>3, <2>4 DEF ContextInv
<1>12. ListInv'
  <2> SUFFICES ASSUME NEW s \in Rpcs, NEW p \in [crid : Cids, asyncid : Cids]
               PROVE  p \in crid_list'[s] <=>
                        p.asyncid = p.crid /\ p.crid \in InTable' /\ ctx'[p.crid].rpc = s
    BY <1>7 DEF ListInv, CallsTypeOK
  <2>1. p = Pair(c0) <=> p.crid = c0 /\ p.asyncid = c0
    BY DEF Pair
  <2>2. p \in crid_list[s] <=>
          p.asyncid = p.crid /\ p.crid \in InTable /\ ctx[p.crid].rpc = s
    BY DEF ListInv
  <2>3. p \in crid_list'[s] <=> p \in crid_list[s] \/ (s = r /\ p = Pair(c0))
    BY <1>3 DEF CallsTypeOK
  <2>4. QED
    BY <1>2, <1>4, <1>5, <2>1, <2>2, <2>3
<1>13. LeftInv'
  <2>1. \A c \in Cids : c # c0 => (c \in InTable' <=> c \in InTable)
    BY <1>4
  <2>2. c0 \in InTable'
    BY <1>4
  <2>3. QED
    BY <1>1, <1>5, <2>1, <2>2 DEF LeftInv
<1>14. OwnAnswerOnce'
  BY <1>1 DEF OwnAnswerOnce
<1>15. MessageInv'
  <2>1. NoMsg \notin Calls /\ ctx[c0].call = NoMsg
    BY <1>2, RpcAssumption DEF NoCtx
  <2>2. Asked \subseteq Asked' /\ Answered \subseteq Answered'
    BY <1>1, <1>5, <2>1 DEF Asked, Answered, Requests, Answers
  <2>3. \A S, T : S \subseteq T => Seq(S) \subseteq Seq(T)
    OBVIOUS
  <2>4. Seq(Asked) \subseteq Seq(Asked')
    BY <2>2, <2>3
  <2>5. Seq(Answered \cup {Junk}) \subseteq Seq(Answered' \cup {Junk})
    BY <2>2, <2>3
  <2>6. Seq([rpc : Rpcs, req : Asked]) \subseteq Seq([rpc : Rpcs, req : Asked'])
    <3>1. [rpc : Rpcs, req : Asked] \subseteq [rpc : Rpcs, req : Asked']
      BY <2>2
    <3>2. QED
      BY <3>1, <2>3
  <2>7. buf' \in Asked' \cup {NoMsg}
    BY <1>1, <2>2 DEF MessageInv
  <2>8. to_server' \in [Rpcs -> Seq(Asked')] /\ to_client' \in [Rpcs -> Seq(Answered' \cup {Junk})]
    BY <1>1, <2>4, <2>5 DEF MessageInv
  <2>9. closures' \in Seq([rpc : Rpcs, req : Asked'])
    BY <1>1, <2>6 DEF MessageInv
  <2>10. ctx'[cpu'].at = "START"
    BY <1>1, <1>5
  <2>11. QED
    BY <2>7, <2>8, <2>9, <2>10 DEF MessageInv
<1>16. QED
  BY <1>7, <1>8, <1>9, <1>11, <1>12, <1>13, <1>14, <1>15

(***************************************************************************)
(* RpcCall refuses a call, which no coroutine has.                         *)
(***************************************************************************)
LEMMA RpcCallRefusedStep ==
    ASSUME IInv, NEW r \in Rpcs, NEW k \in Calls, RpcCallRefused(r, k) PROVE IInv'
<1> USE DEF IInv, CallInv
<1>1. /\ call[k] = "unmade" /\ call' = [call EXCEPT ![k] = "refused"]
      /\ UNCHANGED <<coroutine_table, running_cid, main_ctx, cid_seed, cpu, net, crid_list,
                     asyncid_seed, ctx, buf, rpc_msg, to_server, to_client, conn, closures,
                     replies, kind>>
  BY DEF RpcCallRefused, schedVars, rpcVars, wireVars, serverVars
<1>2. CallsTypeOK' /\ SchedInv' /\ SeedInv'
  BY <1>1 DEF CallsTypeOK, SchedulerTypeOK, SchedInv, SeedInv, InTable
<1>3. InTable' = InTable
  BY <1>1 DEF InTable
<1>4. ContextInv'
  BY <1>1, <1>3 DEF ContextInv, CallsTypeOK, Exists
<1>5. ListInv' /\ LeftInv' /\ OwnAnswerOnce'
  BY <1>1, <1>3 DEF ListInv, LeftInv, OwnAnswerOnce
<1>6. MessageInv'
  BY <1>1 DEF MessageInv, Asked, Answered
<1>7. QED
  BY <1>2, <1>4, <1>5, <1>6

(***************************************************************************)
(* RpcFunction sends the request with the number of its own coroutine.     *)
(***************************************************************************)
LEMMA SendsRequestStep ==
    ASSUME IInv, SendsRequest PROVE IInv'
<1> USE SchedulerAssumption DEF IInv, CallInv, Loop
<1>1. cpu # Loop /\ cpu \in InTable /\ cpu \in Cids /\ running_cid = cpu /\ main_ctx = Loop
  BY RunningIsInTable DEF SendsRequest, SchedInv, InTable
<1>2. ctx[cpu].at = "START" /\ asyncid_seed = cpu /\ cid_seed = cpu + 1
  BY <1>1 DEF SendsRequest, SeedInv
<1>3. /\ coroutine_table' = [coroutine_table EXCEPT ![cpu] = "SUSPEND"]
      /\ running_cid' = NoCid /\ cpu' = Loop /\ UNCHANGED <<main_ctx, cid_seed>>
      /\ asyncid_seed' = cpu + 1
      /\ ctx' = [ctx EXCEPT ![cpu].at = "YIELDED"]
      /\ buf' = MessageToBinary(ctx[cpu].call, cpu)
      /\ Send(ctx[cpu].rpc, buf')
      /\ UNCHANGED <<net, crid_list, rpc_msg, to_client, conn, closures, call, replies, kind>>
  BY <1>1, <1>2 DEF SendsRequest, YieldCoroutine, serverVars, histVars
<1>4. /\ ctx' \in [Cids -> Contexts \cup {NoCtx}]
      /\ \A d \in Cids : /\ ctx'[d].call = ctx[d].call /\ ctx'[d].rpc = ctx[d].rpc
                         /\ d # cpu => ctx'[d] = ctx[d]
                         /\ ctx'[d] = NoCtx <=> ctx[d] = NoCtx
      /\ ctx'[cpu].at = "YIELDED"
      /\ Asked' = Asked /\ Answered' = Answered
  <2>1. "YIELDED" \in Places
    BY DEF Places
  <2>2. QED
    BY <1>1, <1>3, <2>1, MovesOn
<1>5. InTable' = InTable
  BY <1>1, <1>3 DEF InTable, CallsTypeOK, SchedulerTypeOK
<1>6. CallsTypeOK'
  <2>1. SchedulerTypeOK'
    BY <1>1, <1>3 DEF CallsTypeOK, SchedulerTypeOK, States, NoCid
  <2>2. QED
    BY <1>3, <1>4, <2>1 DEF CallsTypeOK
<1>7. SchedInv'
  BY <1>1, <1>3 DEF SchedInv, CallsTypeOK, SchedulerTypeOK
<1>8. SeedInv'
  BY <1>2, <1>3, <1>4, <1>5 DEF SeedInv
<1>9. ContextInv'
  <2>1. \A c \in InTable : /\ Exists(ctx[c].rpc)'
                           /\ ctx'[c].at = "YIELDED"
                           /\ replies'[ctx'[c].call] = <<>>
    BY <1>1, <1>2, <1>3, <1>4, TableHasContexts DEF ContextInv, Exists
  <2>2. QED
    BY <1>3, <1>4, <1>5, <2>1 DEF ContextInv
<1>10. ListInv'
  BY <1>3, <1>4, <1>5 DEF ListInv, InTable
<1>11. LeftInv'
  <2>1. \A c \in Cids : ctx'[c].at = "CALLBACK" => ctx[c].at = "CALLBACK"
    BY <1>4
  <2>2. QED
    BY <1>3, <1>4, <1>5, <2>1 DEF LeftInv
<1>12. OwnAnswerOnce'
  BY <1>3 DEF OwnAnswerOnce
<1>13. MessageInv'
  <2>1. ctx[cpu] \in Contexts
    BY <1>1, TableHasContexts
  <2>2. [call |-> ctx[cpu].call, asyncid |-> cpu] \in Asked
    BY <1>1, <2>1 DEF Asked, Requests, Contexts
  <2>3. buf' \in Asked \cup {NoMsg}
    BY <1>3, <2>2 DEF MessageInv, MessageToBinary
  <2>4. to_server' \in [Rpcs -> Seq(Asked)]
    BY <1>3, <2>1, <2>3 DEF Send, MessageInv, Contexts
  <2>5. QED
    BY <1>3, <1>4, <2>3, <2>4 DEF MessageInv
<1>14. QED
  BY <1>6, <1>7, <1>8, <1>9, <1>10, <1>11, <1>12, <1>13

(***************************************************************************)
(* OnBackEndMsg resumes the coroutine whose answer has just been unpacked, *)
(* or nobody.                                                              *)
(***************************************************************************)
LEMMA OnBackEndMsgStep ==
    ASSUME IInv, NEW r \in Rpcs, OnBackEndMsg(r) PROVE IInv'
<1> USE DEF IInv, CallInv
<1> DEFINE m == Head(to_client[r])
<1>1. /\ cpu = Loop /\ to_client[r] # <<>>
      /\ rpc_msg' = IF crid_list[r] # {} THEN m ELSE rpc_msg
      /\ to_client' = [to_client EXCEPT ![r] = Tail(@)]
      /\ UNCHANGED <<net, crid_list, asyncid_seed, ctx, buf, to_server, conn, closures,
                     call, replies, kind>>
  BY DEF OnBackEndMsg, InLoop, serverVars
<1>2. Asked' = Asked /\ Answered' = Answered
  BY <1>1 DEF Asked, Answered
<1>3. m \in Answered \cup {Junk} /\ Tail(to_client[r]) \in Seq(Answered \cup {Junk})
  BY <1>1 DEF MessageInv
<1>4. /\ buf' \in Asked' \cup {NoMsg}
      /\ to_server' \in [Rpcs -> Seq(Asked')]
      /\ to_client' \in [Rpcs -> Seq(Answered' \cup {Junk})]
      /\ closures' \in Seq([rpc : Rpcs, req : Asked'])
  BY <1>1, <1>2, <1>3 DEF MessageInv
<1>5. CASE UNCHANGED schedVars
  <2>1. CallInv'
    BY <1>1, <1>5, CallInvUnchanged DEF histVars
  <2>2. cpu' = Loop
    BY <1>1, <1>5 DEF schedVars
  <2>3. MessageInv'
    BY <1>4, <2>2 DEF MessageInv
  <2>4. QED
    BY <2>1, <2>3
<1>6. ASSUME NEW p \in crid_list[r], m # Junk, p.asyncid = m.asyncid, ResumeCoroutine(p.crid)
      PROVE  IInv'
  <2> DEFINE c == p.crid
  <2>1. c \in InTable /\ c \in Cids /\ m.asyncid = c
    BY <1>6 DEF ListInv, InTable
  <2>2. /\ coroutine_table' = [coroutine_table EXCEPT ![c] = "RUNNING"]
        /\ running_cid' = c /\ main_ctx' = Loop /\ cpu' = c /\ UNCHANGED cid_seed
    BY <1>1, <1>6 DEF ResumeCoroutine
  <2>3. c # Loop /\ ctx[c].at = "YIELDED"
    BY <1>1, <2>1, SchedulerAssumption DEF ContextInv, Loop, Cids
  <2>4. InTable' = InTable
    BY <2>1, <2>2 DEF InTable, CallsTypeOK, SchedulerTypeOK
  <2>5. CallsTypeOK'
    <3>1. SchedulerTypeOK'
      BY <2>1, <2>2 DEF CallsTypeOK, SchedulerTypeOK, States
    <3>2. QED
      BY <1>1, <3>1 DEF CallsTypeOK
  <2>6. SchedInv'
    BY <1>1, <2>1, <2>2, <2>3, SchedulerAssumption
       DEF SchedInv, CallsTypeOK, SchedulerTypeOK, Loop, Cids
  <2>7. SeedInv'
    BY <1>1, <2>2, <2>3, <2>4 DEF SeedInv
  <2>8. ContextInv'
    <3>1. \A d \in InTable : ctx[d].at = "YIELDED"
      BY <1>1, SchedulerAssumption DEF ContextInv, InTable, Loop, Cids
    <3>2. QED
      BY <1>1, <2>4, <3>1 DEF ContextInv, Exists
  <2>9. ListInv' /\ LeftInv' /\ OwnAnswerOnce'
    BY <1>1, <2>4 DEF ListInv, LeftInv, OwnAnswerOnce
  <2>10. MessageInv'
    <3>1. m \in Answered /\ rpc_msg' = m
      BY <1>1, <1>3, <1>6
    <3>2. m.call = ctx[c].call
      BY <2>1, <3>1 DEF Answered
    <3>3. QED
      BY <1>1, <1>2, <1>4, <2>2, <3>1, <3>2 DEF MessageInv
  <2>11. QED
    BY <2>5, <2>6, <2>7, <2>8, <2>9, <2>10
<1>7. QED
  BY <1>5, <1>6 DEF OnBackEndMsg

(***************************************************************************)
(* RpcFunction calls back with rpc_msg_, which is the answer to its call.  *)
(***************************************************************************)
LEMMA CallsBackStep ==
    ASSUME IInv, CallsBack PROVE IInv'
<1> USE DEF IInv, CallInv
<1> DEFINE k == ctx[cpu].call
           reply == [status |-> IF rpc_msg.type = "RESPONSE" THEN 0 ELSE -1, of |-> rpc_msg.call]
<1>1. cpu # Loop /\ cpu \in InTable /\ cpu \in Cids /\ ctx[cpu] \in Contexts
  BY RunningIsInTable, TableHasContexts DEF CallsBack
<1>2. /\ ctx[cpu].at = "YIELDED"
      /\ replies' = [replies EXCEPT ![k] = Append(@, reply)]
      /\ ctx' = [ctx EXCEPT ![cpu].at = "CALLBACK"]
      /\ UNCHANGED <<coroutine_table, running_cid, main_ctx, cid_seed, cpu, net, crid_list,
                     asyncid_seed, buf, rpc_msg, to_server, to_client, conn, closures, call,
                     kind>>
  BY DEF CallsBack, schedVars, wireVars, serverVars
<1>3. k \in Calls /\ replies[k] = <<>> /\ call[k] = "made"
  BY <1>1, <1>2, TableHasContexts DEF ContextInv, Contexts
<1>4. reply = [of |-> k, status |-> IF kind[k] = "done" THEN 0 ELSE -1]
  BY <1>1, <1>2 DEF MessageInv, Answered
<1>5. replies'[k] = <<reply>> /\ \A j \in Calls : j # k => replies'[j] = replies[j]
  BY <1>2, <1>3 DEF CallsTypeOK
<1>6. /\ ctx' \in [Cids -> Contexts \cup {NoCtx}]
      /\ \A d \in Cids : /\ ctx'[d].call = ctx[d].call /\ ctx'[d].rpc = ctx[d].rpc
                         /\ d # cpu => ctx'[d] = ctx[d]
                         /\ ctx'[d] = NoCtx <=> ctx[d] = NoCtx
      /\ ctx'[cpu].at = "CALLBACK"
      /\ Asked' = Asked /\ Answered' = Answered
  <2>1. "CALLBACK" \in Places
    BY DEF Places
  <2>2. QED
    BY <1>1, <1>2, <2>1, MovesOn
<1>7. InTable' = InTable
  BY <1>2 DEF InTable
<1>8. CallsTypeOK'
  <2>1. reply \in Replies
    BY <1>3, <1>4 DEF Replies
  <2>2. replies' \in [Calls -> Seq(Replies)]
    <3>1. <<reply>> \in Seq(Replies)
      BY <2>1
    <3>2. replies' = [replies EXCEPT ![k] = <<reply>>]
      BY <1>2, <1>3 DEF CallsTypeOK
    <3>3. QED
      BY <3>1, <3>2 DEF CallsTypeOK
  <2>3. QED
    BY <1>2, <1>6, <2>2 DEF CallsTypeOK, SchedulerTypeOK
<1>9. SchedInv'
  BY <1>2 DEF SchedInv
<1>10. SeedInv'
  BY <1>1, <1>2, <1>6, <1>7 DEF SeedInv
<1>11. \A d \in Cids : d # cpu => ctx[d].call # k
  BY <1>1, <1>3, TableHasContexts DEF ContextInv
<1>12. ContextInv'
  <2>1. ASSUME NEW c \in InTable
        PROVE  /\ Exists(ctx[c].rpc)'
               /\ c # cpu => ctx'[c].at = "YIELDED"
               /\ ctx'[c].at # "CALLBACK" => replies'[ctx'[c].call] = <<>>
               /\ ctx'[c].at # "OVER"
    <3>1. CASE c = cpu
      BY <1>1, <1>2, <1>6, <3>1 DEF ContextInv, Exists
    <3>2. CASE c # cpu
      <4>1. c \in Cids /\ ctx[c].call \in Calls
        BY TableHasContexts DEF Contexts
      <4>2. QED
        BY <1>2, <1>5, <1>6, <1>11, <3>2, <4>1 DEF ContextInv, Exists
    <3>3. QED
      BY <3>1, <3>2
  <2>2. \A j \in Calls : call'[j] = "unmade" => replies'[j] = <<>>
    BY <1>2, <1>3, <1>5 DEF ContextInv
  <2>3. QED
    BY <1>2, <1>6, <1>7, <2>1, <2>2 DEF ContextInv
<1>13. ListInv'
  BY <1>2, <1>6, <1>7 DEF ListInv, InTable
<1>14. LeftInv'
  <2>1. \A j \in Calls : replies[j] # <<>> => replies'[j] # <<>>
    BY <1>3, <1>5
  <2>2. replies'[k] # <<>>
    BY <1>5
  <2>3. \A c \in Cids : ctx[c] # NoCtx => ctx[c].call \in Calls
    BY DEF CallsTypeOK, Contexts
  <2>4. NoCtx.at # "CALLBACK"
    BY DEF NoCtx
  <2>5. QED
    BY <1>2, <1>6, <1>7, <2>1, <2>2, <2>3, <2>4 DEF LeftInv
<1>15. OwnAnswerOnce'
  <2>1. ASSUME NEW j \in Calls
        PROVE  /\ Len(replies'[j]) <= 1
               /\ \A i \in 1 .. Len(replies'[j]) :
                    replies'[j][i] = [of |-> j, status |-> IF kind'[j] = "done" THEN 0 ELSE -1]
    <3>1. CASE j = k
      <4> HIDE DEF reply
      <4>1. Len(replies'[j]) = 1 /\ replies'[j][1] = reply
        BY <1>5, <3>1
      <4>2. kind' = kind
        BY <1>2
      <4>3. \A i \in 1 .. Len(replies'[j]) : replies'[j][i] = reply
        BY <4>1
      <4>4. QED
        BY <1>4, <3>1, <4>1, <4>2, <4>3
    <3>2. CASE j # k
      BY <1>2, <1>5, <3>2 DEF OwnAnswerOnce
    <3>3. QED
      BY <3>1, <3>2
  <2>2. QED
    BY <2>1 DEF OwnAnswerOnce
<1>16. MessageInv'
  BY <1>2, <1>6 DEF MessageInv
<1>17. QED
  BY <1>8, <1>9, <1>10, <1>12, <1>13, <1>14, <1>15, <1>16

(***************************************************************************)
(* The coroutine ends: ResumeCoroutine destroys it and Resume removes its  *)
(* pair.                                                                   *)
(***************************************************************************)
LEMMA ReturnsStep ==
    ASSUME IInv, Returns PROVE IInv'
<1> USE DEF IInv, CallInv
<1>1. cpu # Loop /\ cpu \in InTable /\ cpu \in Cids /\ ctx[cpu] \in Contexts /\ main_ctx = Loop
  BY RunningIsInTable, TableHasContexts DEF Returns, SchedInv
<1>2. /\ ctx[cpu].at = "CALLBACK"
      /\ ctx' = [ctx EXCEPT ![cpu].at = "OVER"]
      /\ coroutine_table' = [coroutine_table EXCEPT ![cpu] = "NONE"]
      /\ running_cid' = NoCid /\ cpu' = Loop
      /\ crid_list' = [crid_list EXCEPT ![ctx[cpu].rpc] = {p \in @ : p.crid # cpu}]
      /\ UNCHANGED <<main_ctx, cid_seed, net, asyncid_seed, buf, rpc_msg, to_server, to_client,
                     conn, closures, call, replies, kind>>
  BY <1>1 DEF Returns, ScheduleFunctionEnds, wireVars, serverVars, histVars
<1>3. /\ ctx' \in [Cids -> Contexts \cup {NoCtx}]
      /\ \A d \in Cids : /\ ctx'[d].call = ctx[d].call /\ ctx'[d].rpc = ctx[d].rpc
                         /\ d # cpu => ctx'[d] = ctx[d]
                         /\ ctx'[d] = NoCtx <=> ctx[d] = NoCtx
      /\ ctx'[cpu].at = "OVER"
      /\ Asked' = Asked /\ Answered' = Answered
  <2>1. "OVER" \in Places
    BY DEF Places
  <2>2. QED
    BY <1>1, <1>2, <2>1, MovesOn
<1>4. InTable' = InTable \ {cpu}
  BY <1>1, <1>2 DEF InTable, CallsTypeOK, SchedulerTypeOK
<1>5. CallsTypeOK'
  <2>1. SchedulerTypeOK'
    BY <1>1, <1>2 DEF CallsTypeOK, SchedulerTypeOK, States, NoCid
  <2>2. crid_list' \in [Rpcs -> SUBSET [crid : Cids, asyncid : Cids]]
    BY <1>1, <1>2 DEF CallsTypeOK, Contexts
  <2>3. QED
    BY <1>2, <1>3, <2>1, <2>2 DEF CallsTypeOK
<1>6. SchedInv'
  BY <1>1, <1>2 DEF SchedInv, CallsTypeOK, SchedulerTypeOK
<1>7. SeedInv'
  <2>1. asyncid_seed = cid_seed
    BY <1>1, <1>2 DEF SeedInv
  <2>2. QED
    BY <1>2, <1>3, <1>4, <2>1 DEF SeedInv
<1>8. ContextInv'
  <2>1. \A c \in InTable' : /\ Exists(ctx[c].rpc)'
                            /\ ctx'[c].at = "YIELDED"
                            /\ ctx'[c].at # "CALLBACK" => replies'[ctx'[c].call] = <<>>
    BY <1>2, <1>3, <1>4, TableHasContexts DEF ContextInv, Exists
  <2>2. QED
    BY <1>2, <1>3, <2>1 DEF ContextInv
<1>9. ListInv'
  <2> SUFFICES ASSUME NEW s \in Rpcs, NEW p \in [crid : Cids, asyncid : Cids]
               PROVE  p \in crid_list'[s] <=>
                        p.asyncid = p.crid /\ p.crid \in InTable' /\ ctx'[p.crid].rpc = s
    BY <1>5 DEF ListInv, CallsTypeOK
  <2>1. p \in crid_list[s] <=>
          p.asyncid = p.crid /\ p.crid \in InTable /\ ctx[p.crid].rpc = s
    BY DEF ListInv
  <2>2. p \in crid_list'[s] <=> p \in crid_list[s] /\ (s = ctx[cpu].rpc => p.crid # cpu)
    BY <1>1, <1>2 DEF CallsTypeOK, Contexts
  <2>3. QED
    BY <1>3, <1>4, <2>1, <2>2
<1>10. LeftInv'
  <2>1. replies[ctx[cpu].call] # <<>>
    BY <1>1, <1>2 DEF LeftInv
  <2>2. QED
    BY <1>2, <1>3, <1>4, <2>1 DEF LeftInv
<1>11. OwnAnswerOnce'
  BY <1>2 DEF OwnAnswerOnce
<1>12. MessageInv'
  BY <1>2, <1>3 DEF MessageInv
<1>13. QED
  BY <1>5, <1>6, <1>7, <1>8, <1>9, <1>10, <1>11, <1>12

-----------------------------------------------------------------------------
(***************************************************************************)
(* The invariant, and what it implies.                                     *)
(***************************************************************************)

(***************************************************************************)
(* Every step keeps the invariant, but a call that a callback makes.       *)
(***************************************************************************)
LEMMA NextStep ==
    ASSUME IInv, [Next]_vars, \A r \in Rpcs, k \in Calls : RpcCall(r, k) => InLoop PROVE IInv'
<1>1. ASSUME NEW r \in Rpcs, CreateRpc(r) PROVE IInv'
  BY <1>1, CreateRpcStep
<1>2. ASSUME NEW r \in Rpcs, DestroyRpc(r) PROVE IInv'
  BY <1>2, DestroyRpcStep
<1>3. ASSUME NEW r \in Rpcs, NEW e \in Events, SocketEvent(r, e[1], e[2]) PROVE IInv'
  BY <1>3, SocketEventStep
<1>4. ASSUME NEW r \in Rpcs, NEW k \in Calls, RpcCall(r, k) PROVE IInv'
  BY <1>4, RpcCallStep
<1>5. ASSUME NEW r \in Rpcs, NEW k \in Calls, RpcCallRefused(r, k) PROVE IInv'
  BY <1>5, RpcCallRefusedStep
<1>6. CASE SendsRequest
  BY <1>6, SendsRequestStep
<1>7. CASE CallsBack
  BY <1>7, CallsBackStep
<1>8. CASE Returns
  BY <1>8, ReturnsStep
<1>9. ASSUME NEW r \in Rpcs, OnBackEndMsg(r) PROVE IInv'
  BY <1>9, OnBackEndMsgStep
<1>10. ASSUME NEW r \in Rpcs, OnFrontEndRpcMsg(r) PROVE IInv'
  BY <1>10, ServerStep
<1>11. ASSUME NEW i \in 1 .. Len(closures), Completes(i) PROVE IInv'
  BY <1>11, CompletesStep
<1>12. ASSUME NEW r \in Rpcs, ServerCloses(r) PROVE IInv'
  BY <1>12, ServerClosesStep
<1>13. CASE UNCHANGED vars
  <2>1. CallInv'
    BY <1>13, CallInvUnchanged DEF IInv, vars, rpcVars
  <2>2. MessageInv'
    BY <1>13 DEF IInv, MessageInv, vars, schedVars, rpcVars, wireVars, serverVars, Asked, Answered
  <2>3. QED
    BY <2>1, <2>2 DEF IInv
<1>14. QED
  BY <1>1, <1>2, <1>3, <1>4, <1>5, <1>6, <1>7, <1>8, <1>9, <1>10, <1>11, <1>12, <1>13
     DEF Next, Coroutine

(***************************************************************************)
(* A pair per coroutine and a coroutine per pair, all of them yielded.     *)
(***************************************************************************)
LEMMA ListedAreSuspendedHolds ==
    ASSUME CallInv PROVE ListedAreSuspended
<1> SUFFICES ASSUME InLoop PROVE ListedAreSuspended
  BY DEF ListedAreSuspended
<1>1. cpu = Loop
  BY DEF InLoop
<1>2. ASSUME NEW c \in InTable
      PROVE  /\ coroutine_table[c] = "SUSPEND"
             /\ Cardinality({p \in crid_list[ctx[c].rpc] : p.crid = c}) = 1
  <2>1. c \in Cids /\ c # cpu /\ coroutine_table[c] # "NONE" /\ ctx[c].rpc \in Rpcs
    BY <1>1, TableHasContexts, SchedulerAssumption DEF InTable, Contexts, Cids, Loop
  <2>2. coroutine_table[c] = "SUSPEND"
    BY <2>1 DEF CallInv, SchedInv
  <2>3. {p \in crid_list[ctx[c].rpc] : p.crid = c} = {Pair(c)}
    BY <2>1 DEF CallInv, ListInv, Pair
  <2>4. QED
    BY <2>2, <2>3, FS_Singleton
<1>3. \A r \in Rpcs : \A p \in crid_list[r] : p.crid \in InTable /\ ctx[p.crid].rpc = r
  BY DEF CallInv, ListInv
<1>4. QED
  BY <1>2, <1>3 DEF ListedAreSuspended

(***************************************************************************)
(* The coroutines in the table and the calls that wait correspond one to   *)
(* one.                                                                    *)
(***************************************************************************)
LEMMA SlotsAreWaitingCallsHolds ==
    ASSUME CallInv PROVE SlotsAreWaitingCalls
<1> SUFFICES ASSUME InLoop PROVE SlotsAreWaitingCalls
  BY DEF SlotsAreWaitingCalls
<1> DEFINE Waiting == {k \in Calls : Waits(k)}
           callOf == [c \in InTable |-> ctx[c].call]
<1>1. \A c \in InTable : c \in Cids /\ c # cpu
  BY SchedulerAssumption DEF InLoop, InTable, Cids, Loop
<1>2. ASSUME NEW c \in InTable PROVE ctx[c].call \in Waiting
  <2>1. ctx[c].call \in Calls /\ Exists(ctx[c].rpc) /\ replies[ctx[c].call] = <<>>
    BY <1>1, TableHasContexts DEF CallInv, ContextInv, Contexts
  <2>2. QED
    BY <1>1, <2>1 DEF Waits
<1>3. ASSUME NEW k \in Waiting PROVE \E c \in InTable : ctx[c].call = k
  <2>1. PICK c \in Cids : ctx[c].call = k /\ Exists(ctx[c].rpc)
    BY DEF Waits
  <2>2. ctx[c] # NoCtx /\ replies[ctx[c].call] = <<>> /\ net[ctx[c].rpc] # "DESTROYED"
    BY <2>1, RpcAssumption DEF Waits, NoCtx, Exists
  <2>3. c \in InTable
    BY <2>1, <2>2 DEF CallInv, LeftInv
  <2>4. QED
    BY <2>1, <2>3
<1>4. \A c, d \in InTable : ctx[c].call = ctx[d].call => c = d
  BY <1>1, TableHasContexts DEF CallInv, ContextInv
<1>5. \A k \in Calls : Waits(k) <=> \E c \in InTable : ctx[c].call = k
  BY <1>2, <1>3
<1>6. callOf \in Bijection(InTable, Waiting)
  <2> HIDE DEF Waiting
  <2>1. callOf \in [InTable -> Waiting]
    BY <1>2
  <2>2. \A c, d \in InTable : callOf[c] = callOf[d] => c = d
    BY <1>4
  <2>3. \A k \in Waiting : \E c \in InTable : callOf[c] = k
    BY <1>3
  <2>4. QED
    BY <2>1, <2>2, <2>3 DEF Bijection, Injection, Surjection, IsInjective
<1>7. IsFiniteSet(InTable)
  <2>1. IsFiniteSet(0 .. MaxCid)
    BY FS_Interval, SchedulerAssumption
  <2>2. InTable \in SUBSET (0 .. MaxCid)
    BY DEF InTable, Cids
  <2>3. QED
    BY <2>1, <2>2, FS_Subset
<1>8. Cardinality(InTable) = Cardinality(Waiting)
  BY <1>6, <1>7, FS_Bijection DEF ExistsBijection
<1>9. QED
  BY <1>5, <1>8 DEF SlotsAreWaitingCalls

(***************************************************************************)
(* The invariant holds of every behaviour in which callbacks make no calls *)
(* themselves (a callback that does is resumed into a context main_ctx_    *)
(* has lost, as CoroutineScheduler describes).                             *)
(***************************************************************************)
LEMMA CallsAreKept ==
    ASSUME ~CallbackCalls PROVE Spec => []IInv
<1>1. Init => IInv
  BY InitInv
<1>2. IInv /\ [Next]_vars => IInv'
  <2>1. \A r \in Rpcs, k \in Calls : RpcCall(r, k) => InLoop
    BY DEF RpcCall, AppHasControl
  <2>2. QED
    BY <2>1, NextStep
<1>3. QED
  BY <1>1, <1>2, PTL DEF Spec

-----------------------------------------------------------------------------
(***************************************************************************)
(* Callbacks that make calls.  The call stores the context of the callback *)
(* in main_ctx_, where that of the loop was; from then on the coroutine of *)
(* the callback and the ones it starts switch between themselves.          *)
(***************************************************************************)
Lost ==
    /\ OwnAnswerOnce
    /\ ctx \in [Cids -> Contexts \cup {NoCtx}]
    /\ main_ctx \in Cids /\ cid_seed \in Nat /\ main_ctx < cid_seed
    /\ ctx[main_ctx].at \in {"CALLBACK", "OVER"}
    /\ cpu \in Cids /\ (cpu # main_ctx => ctx[cpu].at = "START")

(***************************************************************************)
(* The call in the callback: RpcCall with a coroutine as its caller.       *)
(***************************************************************************)
LEMMA CallInCallback ==
    ASSUME IInv, ~InLoop, NEW r \in Rpcs, NEW k \in Calls, RpcCall(r, k) PROVE Lost'
<1>1. /\ cpu # Loop /\ ctx[cpu].at = "CALLBACK"
      /\ cid_seed \in Cids /\ main_ctx' = cpu /\ cpu' = cid_seed /\ cid_seed' = cid_seed + 1
      /\ ctx' = [ctx EXCEPT ![cid_seed] = [call |-> k, rpc |-> r, at |-> "START"]]
      /\ UNCHANGED <<replies, kind>>
  BY DEF RpcCall, AppHasControl, InLoop, CreateAndResume
<1>2. cpu \in InTable
  BY <1>1, RunningIsInTable DEF IInv
<1>3. cpu \in Cids /\ cpu < cid_seed
  BY <1>2, TableHasContexts DEF IInv
<1>4. ctx \in [Cids -> Contexts \cup {NoCtx}]
  BY DEF IInv, CallInv, CallsTypeOK
<1>5. cid_seed \in Nat /\ cpu \in Nat
  BY <1>1, <1>3, SchedulerAssumption DEF Cids
<1>6. ctx' \in [Cids -> Contexts \cup {NoCtx}]
  BY <1>1, <1>4 DEF Contexts, Places
<1>7. ctx'[cpu] = ctx[cpu] /\ ctx'[cid_seed].at = "START"
  BY <1>1, <1>3, <1>4, <1>5
<1>8. OwnAnswerOnce'
  BY <1>1 DEF IInv, CallInv, OwnAnswerOnce
<1>9. QED
  BY <1>1, <1>3, <1>5, <1>6, <1>7, <1>8 DEF Lost

(***************************************************************************)
(* The coroutine that executes goes on: the one main_ctx_ names keeps its  *)
(* place behind the callback.                                              *)
(***************************************************************************)
LEMMA LostGoesOn ==
    ASSUME Lost, NEW p \in Places, ctx' = [ctx EXCEPT ![cpu].at = p],
           ctx[cpu].at \in {"START", "CALLBACK"}, cpu = main_ctx => p = "OVER",
           cpu' = main_ctx, UNCHANGED <<main_ctx, cid_seed, replies, kind>>
    PROVE  Lost'
<1>1. ctx[cpu] \in Contexts /\ cpu \in Cids
  BY DEF Lost, NoCtx
<1>2. ctx'[cpu] = [call |-> ctx[cpu].call, rpc |-> ctx[cpu].rpc, at |-> p]
  BY <1>1 DEF Lost, Contexts
<1>3. ctx' \in [Cids -> Contexts \cup {NoCtx}]
  <2>1. ctx'[cpu] \in Contexts
    BY <1>1, <1>2 DEF Contexts
  <2>2. QED
    BY <1>1, <2>1 DEF Lost
<1>4. ctx'[main_ctx].at \in {"CALLBACK", "OVER"}
  <2>1. CASE cpu = main_ctx
    BY <1>2, <2>1
  <2>2. CASE cpu # main_ctx
    BY <2>2 DEF Lost
  <2>3. QED
    BY <2>1, <2>2
<1>5. OwnAnswerOnce'
  BY DEF Lost, OwnAnswerOnce
<1>6. QED
  BY <1>3, <1>4, <1>5 DEF Lost

(***************************************************************************)
(* Nothing gives the processor back to the loop, and no callback is called *)
(* any more.                                                               *)
(***************************************************************************)
LEMMA LostStep ==
    ASSUME Lost, [Next]_vars PROVE Lost'
<1>1. cpu # Loop /\ ~InLoop
  BY SchedulerAssumption DEF Lost, Cids, Loop, InLoop
<1>2. ASSUME UNCHANGED <<main_ctx, cid_seed, cpu, ctx, replies, kind>> PROVE Lost'
  BY <1>2 DEF Lost, OwnAnswerOnce
<1>3. ASSUME NEW r \in Rpcs, NEW k \in Calls, RpcCall(r, k) PROVE Lost'
  <2>1. /\ ctx[cpu].at = "CALLBACK"
        /\ cid_seed \in Cids /\ main_ctx' = cpu /\ cpu' = cid_seed /\ cid_seed' = cid_seed + 1
        /\ ctx' = [ctx EXCEPT ![cid_seed] = [call |-> k, rpc |-> r, at |-> "START"]]
        /\ UNCHANGED <<replies, kind>>
    BY <1>1, <1>3 DEF RpcCall, AppHasControl, CreateAndResume
  <2>2. cpu = main_ctx
    BY <2>1 DEF Lost
  <2>3. ctx' \in [Cids -> Contexts \cup {NoCtx}]
    BY <2>1 DEF Lost, Contexts, Places
  <2>4. ctx'[cpu] = ctx[cpu] /\ ctx'[cid_seed].at = "START"
    BY <2>1, <2>2, SchedulerAssumption DEF Lost, Cids
  <2>5. OwnAnswerOnce'
    BY <2>1 DEF Lost, OwnAnswerOnce
  <2>6. cid_seed + 1 \in Nat /\ main_ctx < cid_seed + 1
    BY SchedulerAssumption DEF Lost, Cids
  <2>7. QED
    BY <2>1, <2>2, <2>3, <2>4, <2>5, <2>6 DEF Lost
<1>4. CASE SendsRequest
  <2>1. ctx[cpu].at = "START" /\ cpu # main_ctx /\ "YIELDED" \in Places
    BY <1>4 DEF SendsRequest, Lost, Places
  <2>2. /\ ctx' = [ctx EXCEPT ![cpu].at = "YIELDED"] /\ cpu' = main_ctx
        /\ UNCHANGED <<main_ctx, cid_seed, replies, kind>>
    BY <1>4 DEF SendsRequest, YieldCoroutine, histVars
  <2>3. QED
    BY <2>1, <2>2, LostGoesOn
<1>5. CASE CallsBack
  BY <1>5 DEF CallsBack, Lost
<1>6. CASE Returns
  <2>1. ctx[cpu].at = "CALLBACK" /\ "OVER" \in Places
    BY <1>6 DEF Returns, Places
  <2>2. /\ ctx' = [ctx EXCEPT ![cpu].at = "OVER"] /\ cpu' = main_ctx
        /\ UNCHANGED <<main_ctx, cid_seed, replies, kind>>
    BY <1>6 DEF Returns, ScheduleFunctionEnds, histVars
  <2>3. QED
    BY <2>1, <2>2, LostGoesOn
<1>7. ASSUME NEW r \in Rpcs
      PROVE  ~(CreateRpc(r) \/ DestroyRpc(r) \/ OnBackEndMsg(r))
             /\ \A e \in Events : ~SocketEvent(r, e[1], e[2])
  BY <1>1 DEF CreateRpc, DestroyRpc, OnBackEndMsg, SocketEvent
<1>8. ASSUME NEW r \in Rpcs, NEW k \in Calls, RpcCallRefused(r, k) PROVE Lost'
  BY <1>2, <1>8 DEF RpcCallRefused, schedVars, rpcVars
<1>9. ASSUME NEW r \in Rpcs, OnFrontEndRpcMsg(r) \/ ServerCloses(r) PROVE Lost'
  BY <1>2, <1>9 DEF OnFrontEndRpcMsg, ServerCloses, schedVars, rpcVars, histVars
<1>10. ASSUME NEW i \in 1 .. Len(closures), Completes(i) PROVE Lost'
  BY <1>2, <1>10 DEF Completes, schedVars, rpcVars, histVars
<1>11. CASE UNCHANGED vars
  BY <1>2, <1>11 DEF vars, schedVars, rpcVars, histVars
<1>12. QED
  BY <1>3, <1>4, <1>5, <1>6, <1>7, <1>8, <1>9, <1>10, <1>11 DEF Next, Coroutine

(***************************************************************************)
(* Whether or not callbacks make calls, the calls are kept in order, or    *)
(* the loop is lost and they stay as they are.                             *)
(***************************************************************************)
LEMMA KeptOrLost == Spec => [](IInv \/ Lost)
<1>1. Init => IInv
  BY InitInv
<1>2. ASSUME IInv \/ Lost, [Next]_vars PROVE IInv' \/ Lost'
  <2>1. CASE Lost
    BY <1>2, <2>1, LostStep
  <2>2. CASE IInv /\ \A r \in Rpcs, k \in Calls : RpcCall(r, k) => InLoop
    BY <1>2, <2>2, NextStep
  <2>3. CASE IInv /\ \E r \in Rpcs, k \in Calls : RpcCall(r, k) /\ ~InLoop
    BY <2>3, CallInCallback
  <2>4. QED
    BY <1>2, <2>1, <2>2, <2>3
<1>3. QED
  BY <1>1, <1>2, PTL DEF Spec

-----------------------------------------------------------------------------
(***************************************************************************)
(* Every callback of RpcFunction is called at most once, and with the      *)
(* answer to its own call, for any number of instances, calls and          *)
(* coroutines, and also when callbacks make calls themselves: what they    *)
(* lose is the loop, never the answer of another call.                     *)
(***************************************************************************)
THEOREM CalledBackOnce == Spec => []OwnAnswerOnce
<1>1. IInv \/ Lost => OwnAnswerOnce
  BY DEF IInv, CallInv, Lost
<1>2. QED
  BY <1>1, KeptOrLost, PTL

(***************************************************************************)
(* ResumeCoroutine has one main_ctx_ for every caller.  Once a callback    *)
(* has made a call, it is no longer the loop's, and the loop never gets    *)
(* the processor back, whatever else the callback and the coroutines do.   *)
(***************************************************************************)
THEOREM CallInCallbackLosesLoop == Spec => [](main_ctx # Loop => [](cpu # Loop))
<1>1. IInv => ~(main_ctx # Loop)
  BY DEF IInv, CallInv, SchedInv
<1>2. Lost => cpu # Loop
  BY SchedulerAssumption DEF Lost, Cids, Loop
<1>3. Lost /\ [Next]_vars => Lost'
  BY LostStep
<1>4. QED
  BY <1>1, <1>2, <1>3, KeptOrLost, PTL DEF Spec

(***************************************************************************)
(* crid_list_ of the instances and coroutine_table_ of the scheduler never *)
(* drift apart: whenever the loop has control they hold the same           *)
(* coroutines, all of them yielded.                                        *)
(***************************************************************************)
THEOREM NoCoroutineLeaks ==
    ASSUME ~CallbackCalls PROVE Spec => []ListedAreSuspended
<1>1. IInv => ListedAreSuspended
  BY ListedAreSuspendedHolds DEF IInv
<1>2. QED
  BY <1>1, CallsAreKept, PTL

(***************************************************************************)
(* The places of coroutine_table_ are held by the calls that wait and by   *)
(* nobody else, so that CreateCoroutine counts what it means to count.     *)
(***************************************************************************)
THEOREM PlacesAreForWaitingCalls ==
    ASSUME ~CallbackCalls PROVE Spec => []SlotsAreWaitingCalls
<1>1. IInv => SlotsAreWaitingCalls
  BY SlotsAreWaitingCallsHolds DEF IInv
<1>2. QED
  BY <1>1, CallsAreKept, PTL
=============================================================================
