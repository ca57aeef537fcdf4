------------------------- MODULE ClientThreadProofs -------------------------
(***************************************************************************)
(* Proofs about the threaded client, for receive buffers of any size, any  *)
(* number of packets and any number of pushes.                             *)
(***************************************************************************)
EXTENDS ClientThread, SequenceTheorems, TLAPS

(***************************************************************************)
(* A pop in OnIncoming keeps the worker in the callback.                   *)
(***************************************************************************)
PopInv == PopsInCallback /\ p # "IDLE" => w = "INCOMING"

(***************************************************************************)
(* Where the worker only comes once OnHandShakeSucceed was called, and     *)
(* what exactly the listener has been told.                                *)
(***************************************************************************)
ReceivingAt == {"MOVE", "CUT", "ZERO", "RECV", "LOOK", "INCOMING"}

ListenerInv ==
    /\ w \in {"NONE", "CREATED", "STARTED"} => session_state = "INITED"
    /\ w = "FILLED" => session_state \in {"TCP_SYNING", "KEY_SYNING"}
    /\ w \in ReceivingAt => handshake_done
    /\ handshake_done => session_state = "DONE"
    /\ has_pkg => handshake_done
    /\ w # "EXITED" /\ ~handshake_done => told = <<>>
    /\ w # "EXITED" /\ handshake_done => told = <<"SUCCEED">>
    /\ w = "EXITED" /\ ~handshake_done => told \in {<<"EXIT">>, <<"FAILED", "EXIT">>}
    /\ w = "EXITED" /\ handshake_done =>
         told \in {<<"SUCCEED", "EXIT">>, <<"SUCCEED", "CLOSE", "EXIT">>}

(***************************************************************************)
(* recv_buf_ holds the packets that have been read and not popped, in      *)
(* order: from begin on, or, between the memmove of Recycle_ATOMIC and its *)
(* last assignment, from the start of the memory on.                       *)
(***************************************************************************)
Done == Len(popped)

BufferInv ==
    /\ 0 <= begin /\ 0 <= end /\ end <= Slots
    /\ w # "ZERO" => begin <= end /\ down_read = Done + (end - begin)
    /\ w \notin {"CUT", "ZERO"} => \A i \in Cells :
          begin <= i /\ i < end => mem[i] = Done + 1 + (i - begin)
    /\ w = "CUT" => \A i \in Cells : i < end - begin => mem[i] = Done + 1 + i
    /\ w = "ZERO" => /\ down_read = Done + end
                     /\ \A i \in Cells : i < end => mem[i] = Done + 1 + i
    /\ p # "IDLE" => got = Done + 1 /\ begin < end
    /\ p = "LOADED" => reg = begin

(***************************************************************************)
(* How far the numbering has come, and that the messages of a handshake    *)
(* that goes on have been queued.  Only one thread at a time has filled    *)
(* up_msg_ and not offered it.                                             *)
(***************************************************************************)
BodyAt(i) == IF i = 1 THEN "SYN" ELSE IF i = 2 THEN "AUTHENTICATION" ELSE "DATA"

Going == w # "EXITED" \/ handshake_done

SendInv ==
    /\ m = "FILLED" => handshake_done
    /\ Going =>
         /\ session_state \in {"INITED", "TCP_SYNING"} => Len(offered) = 0
         /\ session_state = "KEY_SYNING" => Len(offered) = 1
         /\ session_state \in {"AUTHING", "READY"} => Len(offered) = 2
         /\ session_state = "DONE" => Len(offered) >= 2
         /\ Len(offered) >= 1 => offered[1].queued
         /\ Len(offered) >= 2 => offered[2].queued
    /\ IF w = "FILLED" \/ m = "FILLED"
         THEN /\ seqno = Len(offered) + 2
              /\ up_msg = [seq |-> Len(offered) + 1, body |-> BodyAt(Len(offered) + 1)]
         ELSE seqno = Len(offered) + 1

-----------------------------------------------------------------------------
(***************************************************************************)
(* Types, for every way of calling the API.                                *)
(***************************************************************************)
LEMMA TypeInit == Init => FlagsOK /\ ValuesOK
BY ThreadAssumption
   DEF Init, FlagsOK, ValuesOK, Cells, Garbage, NoMessage, Messages, Bodies

(***************************************************************************)
(* Every step of either thread keeps the flags and states in their sets.   *)
(***************************************************************************)
LEMMA FlagsStep == ASSUME FlagsOK, [Next]_vars PROVE FlagsOK'
<1> USE DEF FlagsOK, workerVars, listenerVars
<1>1. CASE MainLoopBegins
  BY <1>1, Zenon DEF MainLoopBegins
<1>2. CASE Start
  BY <1>2, Zenon DEF Start
<1>3. CASE CheckExit
  BY <1>3, Zenon DEF CheckExit
<1>4. CASE Waits
  BY <1>4, Zenon DEF Waits
<1>5. CASE FillsHandShake
  BY <1>5, Zenon DEF FillsHandShake, Fill
<1>6. CASE QueuesHandShake
  BY <1>6, Zenon DEF QueuesHandShake, Queue
<1>7. CASE HandShakeAdvances
  BY <1>7, Zenon DEF HandShakeAdvances
<1>8. CASE HandShakeFails
  BY <1>8, Zenon DEF HandShakeFails
<1>unsent. CASE HandShakeUnsent
  BY <1>unsent, Zenon DEF HandShakeUnsent, Queue
<1>9. CASE ReportsSuccess
  BY <1>9, Zenon DEF ReportsSuccess
<1>10. CASE RecvBegins
  BY <1>10, Zenon DEF RecvBegins, Receiving
<1>11. CASE RecycleMoves
  BY <1>11, Zenon DEF RecycleMoves, Receiving
<1>12. CASE RecycleCuts
  BY <1>12, Zenon DEF RecycleCuts, Receiving
<1>13. CASE RecycleEnds
  BY <1>13, Zenon DEF RecycleEnds, Receiving
<1>14. ASSUME NEW k \in 0 .. Slots, RecvReads(k) PROVE FlagsOK'
  BY <1>14, Zenon DEF RecvReads
<1>15. CASE RecvClosed
  BY <1>15, Zenon DEF RecvClosed, Receiving
<1>16. CASE RecvFails
  BY <1>16, Zenon DEF RecvFails
<1>17. CASE LooksForPackets
  BY <1>17, Zenon DEF LooksForPackets, Receiving
<1>18. CASE StartThread
  BY <1>18, Zenon DEF StartThread
<1>19. CASE TerminateThread
  BY <1>19, Zenon DEF TerminateThread
<1>20. CASE PushFills
  BY <1>20, Zenon DEF PushFills, Fill
<1>21. CASE PushQueues
  BY <1>21, Zenon DEF PushQueues, Queue
<1>22. CASE PopPeeks
  BY <1>22, Zenon DEF PopPeeks, Popping
<1>23. CASE PopLoads
  BY <1>23, Zenon DEF PopLoads, Popping
<1>24. CASE PopStores
  BY <1>24, Zenon DEF PopStores, Popping
<1>25. CASE ServerSends
  BY <1>25, Zenon DEF ServerSends, Serving
<1>26. ASSUME NEW how \in {"closed", "reset"}, ConnectionEnds(how) PROVE FlagsOK'
  BY <1>26, Zenon DEF ConnectionEnds, Serving
<1>27. CASE UNCHANGED vars
  BY <1>27, Zenon DEF vars
<1>28. QED
  BY <1>1, <1>2, <1>3, <1>4, <1>5, <1>6, <1>7, <1>8, <1>9, <1>10, <1>11,
     <1>12, <1>13, <1>14, <1>15, <1>16, <1>17, <1>18, <1>19, <1>20, <1>21,
     <1>22, <1>23, <1>24, <1>25, <1>26, <1>27, <1>unsent
  DEF Next, Worker, HandShake, Recv, Main, Push, Pop

(***************************************************************************)
(* Offering up_msg_ to send_buf_ adds it to the history, marked.           *)
(***************************************************************************)
LEMMA OfferAppends ==
    ASSUME ValuesOK, NEW taken \in BOOLEAN, Queue(taken)
    PROVE  /\ offered' \in Seq(Offers) /\ UNCHANGED <<seqno, up_msg>>
           /\ Len(offered) \in Nat /\ Len(offered') = Len(offered) + 1
           /\ \A i \in 1 .. Len(offered) : offered'[i] = offered[i]
           /\ offered'[Len(offered) + 1] =
                [seq |-> up_msg.seq, body |-> up_msg.body, queued |-> taken]
<1>1. PICK o : o = [seq |-> up_msg.seq, body |-> up_msg.body, queued |-> taken]
  OBVIOUS
<1>2. offered \in Seq(Offers) /\ o \in Offers /\ offered' = Append(offered, o)
  BY <1>1 DEF ValuesOK, Messages, Offers, Queue
<1>3. UNCHANGED <<seqno, up_msg>>
  BY DEF Queue
<1>4. /\ offered' \in Seq(Offers) /\ Len(offered) \in Nat
      /\ Len(offered') = Len(offered) + 1 /\ offered'[Len(offered) + 1] = o
      /\ \A i \in 1 .. Len(offered) : offered'[i] = offered[i]
  BY <1>2
<1>5. QED
  BY <1>1, <1>3, <1>4

(***************************************************************************)
(* Every step of either thread keeps the type invariant.                   *)
(***************************************************************************)
LEMMA ValuesStep == ASSUME ValuesOK, [Next]_vars PROVE ValuesOK'
<1> USE ThreadAssumption DEF ValuesOK, WorkerGoes, MainGoes, PopGoes,
        workerVars, listenerVars, recvVars, kernelVars, popVars, sendVars
<1>1. CASE MainLoopBegins
  BY <1>1 DEF MainLoopBegins
<1>2. CASE Start
  BY <1>2 DEF Start
<1>3. CASE CheckExit
  BY <1>3 DEF CheckExit
<1>4. CASE Waits
  BY <1>4 DEF Waits
<1>5. CASE FillsHandShake
  BY <1>5 DEF FillsHandShake, Fill, Messages, Bodies
<1>6. CASE QueuesHandShake
  BY <1>6 DEF QueuesHandShake, Queue, Messages, Offers
<1>7. CASE HandShakeAdvances
  BY <1>7 DEF HandShakeAdvances
<1>8. CASE HandShakeFails
  BY <1>8 DEF HandShakeFails
<1>unsent. CASE HandShakeUnsent
  BY <1>unsent DEF HandShakeUnsent, Queue, Messages, Offers, Bodies
<1>9. CASE ReportsSuccess
  BY <1>9 DEF ReportsSuccess
<1>10. CASE RecvBegins
  BY <1>10 DEF RecvBegins, Receiving
<1>11. CASE RecycleMoves
  BY <1>11 DEF RecycleMoves, Receiving, Cells, At, Garbage
<1>12. CASE RecycleCuts
  BY <1>12 DEF RecycleCuts, Receiving
<1>13. CASE RecycleEnds
  BY <1>13 DEF RecycleEnds, Receiving
<1>14. ASSUME NEW k \in 0 .. Slots, RecvReads(k) PROVE ValuesOK'
  BY <1>14 DEF RecvReads, Cells
<1>15. CASE RecvClosed
  BY <1>15 DEF RecvClosed, Receiving
<1>16. CASE RecvFails
  BY <1>16 DEF RecvFails
<1>17. CASE LooksForPackets
  BY <1>17 DEF LooksForPackets, Receiving
<1>18. CASE StartThread
  BY <1>18 DEF StartThread
<1>19. CASE TerminateThread
  BY <1>19 DEF TerminateThread
<1>20. CASE PushFills
  BY <1>20 DEF PushFills, Fill, Messages, Bodies
<1>21. CASE PushQueues
  <2>1. offered' \in Seq(Offers) /\ UNCHANGED <<seqno, up_msg>>
    BY <1>21, OfferAppends DEF PushQueues
  <2>2. conn' \in {"up", "closed", "reset", "failed"} /\ m' = "IDLE"
    BY <1>21 DEF PushQueues
  <2>3. QED
    BY <1>21, <2>1, <2>2 DEF PushQueues
<1>22. CASE PopPeeks
  BY <1>22 DEF PopPeeks, Popping, At, Garbage
<1>23. CASE PopLoads
  BY <1>23 DEF PopLoads, Popping
<1>24. CASE PopStores
  BY <1>24 DEF PopStores, Popping, PopReturns
<1>25. CASE ServerSends
  BY <1>25 DEF ServerSends, Serving
<1>26. ASSUME NEW how \in {"closed", "reset"}, ConnectionEnds(how) PROVE ValuesOK'
  BY <1>26 DEF ConnectionEnds, Serving
<1>27. CASE UNCHANGED vars
  BY <1>27 DEF vars
<1>28. QED
  BY <1>1, <1>2, <1>3, <1>4, <1>5, <1>6, <1>7, <1>8, <1>9, <1>10, <1>11,
     <1>12, <1>13, <1>14, <1>15, <1>16, <1>17, <1>18, <1>19, <1>20, <1>21,
     <1>22, <1>23, <1>24, <1>25, <1>26, <1>27, <1>unsent
  DEF Next, Worker, HandShake, Recv, Main, Push, Pop

-----------------------------------------------------------------------------
(***************************************************************************)
(* A pop is over when the worker leaves the callback.                      *)
(***************************************************************************)
LEMMA PopStep == ASSUME PopInv, [Next]_vars PROVE PopInv'
<1> USE DEF PopInv, WorkerGoes, PopGoes, workerVars, popVars
<1>1. CASE MainLoopBegins
  BY <1>1 DEF MainLoopBegins
<1>2. CASE Start
  BY <1>2 DEF Start
<1>3. CASE CheckExit
  BY <1>3 DEF CheckExit
<1>4. CASE Waits
  BY <1>4 DEF Waits
<1>5. CASE FillsHandShake
  BY <1>5 DEF FillsHandShake, Fill
<1>6. CASE QueuesHandShake
  BY <1>6 DEF QueuesHandShake, Queue
<1>7. CASE HandShakeAdvances
  BY <1>7 DEF HandShakeAdvances
<1>8. CASE HandShakeFails
  BY <1>8 DEF HandShakeFails
<1>unsent. CASE HandShakeUnsent
  BY <1>unsent DEF HandShakeUnsent, Queue
<1>9. CASE ReportsSuccess
  BY <1>9 DEF ReportsSuccess
<1>10. CASE RecvBegins
  BY <1>10 DEF RecvBegins, Receiving
<1>11. CASE RecycleMoves
  BY <1>11 DEF RecycleMoves, Receiving
<1>12. CASE RecycleCuts
  BY <1>12 DEF RecycleCuts, Receiving
<1>13. CASE RecycleEnds
  BY <1>13 DEF RecycleEnds, Receiving
<1>14. ASSUME NEW k \in 0 .. Slots, RecvReads(k) PROVE PopInv'
  BY <1>14 DEF RecvReads
<1>15. CASE RecvClosed
  BY <1>15 DEF RecvClosed, Receiving
<1>16. CASE RecvFails
  BY <1>16 DEF RecvFails
<1>17. CASE LooksForPackets
  BY <1>17 DEF LooksForPackets, Receiving
<1>18. CASE StartThread
  BY <1>18 DEF StartThread
<1>19. CASE TerminateThread
  BY <1>19 DEF TerminateThread
<1>20. CASE PushFills
  BY <1>20 DEF PushFills, Fill
<1>21. CASE PushQueues
  BY <1>21 DEF PushQueues, Queue
<1>22. CASE PopPeeks
  BY <1>22 DEF PopPeeks, Popping
<1>23. CASE PopLoads
  BY <1>23 DEF PopLoads, Popping
<1>24. CASE PopStores
  BY <1>24 DEF PopStores, Popping, PopReturns
<1>25. CASE ServerSends
  BY <1>25 DEF ServerSends, Serving
<1>26. ASSUME NEW how \in {"closed", "reset"}, ConnectionEnds(how) PROVE PopInv'
  BY <1>26 DEF ConnectionEnds, Serving
<1>27. CASE UNCHANGED vars
  BY <1>27 DEF vars
<1>28. QED
  BY <1>1, <1>2, <1>3, <1>4, <1>5, <1>6, <1>7, <1>8, <1>9, <1>10, <1>11,
     <1>12, <1>13, <1>14, <1>15, <1>16, <1>17, <1>18, <1>19, <1>20, <1>21,
     <1>22, <1>23, <1>24, <1>25, <1>26, <1>27, <1>unsent
  DEF Next, Worker, HandShake, Recv, Main, Push, Pop

(***************************************************************************)
(* Short sequences, put together.                                          *)
(***************************************************************************)
LEMMA AppendToOne ==
    ASSUME NEW S, NEW a \in S, NEW b \in S PROVE Append(<<a>>, b) = <<a, b>>
<1>1. <<a>> \in Seq(S)
  OBVIOUS
<1>2. /\ Append(<<a>>, b) \in Seq(S) /\ Len(Append(<<a>>, b)) = 2
      /\ Append(<<a>>, b)[1] = a /\ Append(<<a>>, b)[2] = b
  BY <1>1
<1>3. <<a, b>> \in Seq(S) /\ Len(<<a, b>>) = 2
  OBVIOUS
<1>4. \A i \in 1 .. 2 : Append(<<a>>, b)[i] = <<a, b>>[i]
  BY <1>2
<1>5. QED
  BY <1>2, <1>3, <1>4, SeqEqual

(***************************************************************************)
(* A sequence of one before a sequence of two.                             *)
(***************************************************************************)
LEMMA ConcatToOne ==
    ASSUME NEW S, NEW a \in S, NEW b \in S, NEW c \in S
    PROVE  <<a>> \o <<b, c>> = <<a, b, c>>
<1>1. <<a>> \in Seq(S) /\ <<b, c>> \in Seq(S) /\ <<a, b, c>> \in Seq(S)
  OBVIOUS
<1>2. /\ (<<a>> \o <<b, c>>) \in Seq(S)
      /\ Len(<<a>> \o <<b, c>>) = 3 /\ Len(<<a, b, c>>) = 3
  BY <1>1
<1>3. \A i \in 1 .. 3 : (<<a>> \o <<b, c>>)[i] = <<a, b, c>>[i]
  BY <1>1
<1>4. QED
  BY <1>1, <1>2, <1>3, SeqEqual

(***************************************************************************)
(* What the listener may have been told, and what it is told next.         *)
(***************************************************************************)
LEMMA Histories ==
    /\ Append(<<>>, "EXIT") = <<"EXIT">>
    /\ Append(<<>>, "SUCCEED") = <<"SUCCEED">>
    /\ <<>> \o <<"FAILED", "EXIT">> = <<"FAILED", "EXIT">>
    /\ Append(<<"SUCCEED">>, "EXIT") = <<"SUCCEED", "EXIT">>
    /\ <<"SUCCEED">> \o <<"CLOSE", "EXIT">> = <<"SUCCEED", "CLOSE", "EXIT">>
<1>1. "SUCCEED" \in Events /\ "CLOSE" \in Events /\ "EXIT" \in Events
  BY DEF Events
<1>2. Append(<<"SUCCEED">>, "EXIT") = <<"SUCCEED", "EXIT">>
  BY <1>1, AppendToOne
<1>3. <<"SUCCEED">> \o <<"CLOSE", "EXIT">> = <<"SUCCEED", "CLOSE", "EXIT">>
  BY <1>1, ConcatToOne
<1>4. Append(<<>>, "EXIT") = <<"EXIT">> /\ Append(<<>>, "SUCCEED") = <<"SUCCEED">>
  OBVIOUS
<1>5. <<>> \o <<"FAILED", "EXIT">> = <<"FAILED", "EXIT">>
  OBVIOUS
<1>6. QED
  BY <1>2, <1>3, <1>4, <1>5

(***************************************************************************)
(* The listener.                                                           *)
(***************************************************************************)
LEMMA ListenerStep ==
    ASSUME FlagsOK, PopInv, ListenerInv, [Next]_vars PROVE ListenerInv'
<1> USE DEF PopInv, ListenerInv, ReceivingAt, WorkerGoes, MainGoes, PopGoes,
        workerVars, listenerVars
<1>1. CASE MainLoopBegins
  BY <1>1 DEF MainLoopBegins
<1>2. CASE Start
  BY <1>2, Histories DEF Start
<1>3. CASE CheckExit
  BY <1>3, Histories DEF CheckExit
<1>4. CASE Waits
  BY <1>4 DEF Waits
<1>5. CASE FillsHandShake
  BY <1>5 DEF FillsHandShake, Fill
<1>6. CASE QueuesHandShake
  BY <1>6 DEF QueuesHandShake, Queue
<1>7. CASE HandShakeAdvances
  BY <1>7 DEF HandShakeAdvances
<1>8. CASE HandShakeFails
  BY <1>8, Histories DEF HandShakeFails
<1>unsent. CASE HandShakeUnsent
  BY <1>unsent, Histories DEF HandShakeUnsent, Queue
<1>9. CASE ReportsSuccess
  BY <1>9, Histories DEF ReportsSuccess
<1>10. CASE RecvBegins
  BY <1>10 DEF RecvBegins, Receiving
<1>11. CASE RecycleMoves
  BY <1>11 DEF RecycleMoves, Receiving
<1>12. CASE RecycleCuts
  BY <1>12 DEF RecycleCuts, Receiving
<1>13. CASE RecycleEnds
  BY <1>13 DEF RecycleEnds, Receiving
<1>14. ASSUME NEW k \in 0 .. Slots, RecvReads(k) PROVE ListenerInv'
  BY <1>14 DEF RecvReads
<1>15. CASE RecvClosed
  BY <1>15, Histories DEF RecvClosed, Receiving
<1>16. CASE RecvFails
  BY <1>16 DEF RecvFails
<1>17. CASE LooksForPackets
  BY <1>17 DEF LooksForPackets, Receiving, HasNewPkg, Datalen
<1>18. CASE StartThread
  BY <1>18 DEF StartThread
<1>19. CASE TerminateThread
  BY <1>19 DEF TerminateThread
<1>20. CASE PushFills
  BY <1>20 DEF PushFills, Fill
<1>21. CASE PushQueues
  BY <1>21 DEF PushQueues, Queue
<1>22. CASE PopPeeks
  BY <1>22 DEF PopPeeks, Popping
<1>23. CASE PopLoads
  BY <1>23 DEF PopLoads, Popping
<1>24. CASE PopStores
  BY <1>24 DEF PopStores, Popping, PopReturns
<1>25. CASE ServerSends
  BY <1>25 DEF ServerSends, Serving
<1>26. ASSUME NEW how \in {"closed", "reset"}, ConnectionEnds(how) PROVE ListenerInv'
  BY <1>26 DEF ConnectionEnds, Serving
<1>27. CASE UNCHANGED vars
  BY <1>27 DEF vars
<1>28. QED
  BY <1>1, <1>2, <1>3, <1>4, <1>5, <1>6, <1>7, <1>8, <1>9, <1>10, <1>11,
     <1>12, <1>13, <1>14, <1>15, <1>16, <1>17, <1>18, <1>19, <1>20, <1>21,
     <1>22, <1>23, <1>24, <1>25, <1>26, <1>27, <1>unsent
  DEF Next, Worker, HandShake, Recv, Main, Push, Pop

(***************************************************************************)
(* What the listener has been told follows from the inductive invariant.   *)
(***************************************************************************)
LEMMA ListenerInvImplies == ListenerInv => ListenerProtocol
<1> SUFFICES ASSUME ListenerInv PROVE ListenerProtocol
  OBVIOUS
<1> DEFINE wholes == {<<"SUCCEED", "CLOSE", "EXIT">>, <<"SUCCEED", "EXIT">>,
                      <<"FAILED", "EXIT">>, <<"EXIT">>}
           exited == Contains(told, "EXIT")
<1>1. told = <<>> \/ told = <<"SUCCEED">> \/ told \in wholes
  BY DEF ListenerInv
<1>2. \E whole \in wholes : IsPrefix(told, whole)
  <2>1. CASE told = <<>>
    BY <2>1 DEF IsPrefix
  <2>2. CASE told = <<"SUCCEED">>
    <3>1. IsPrefix(told, <<"SUCCEED", "EXIT">>)
      BY <2>2 DEF IsPrefix
    <3>2. QED
      BY <3>1
  <2>3. CASE told \in wholes
    <3>1. Len(told) \in Nat
      BY <2>3
    <3>2. IsPrefix(told, told)
      BY <3>1 DEF IsPrefix
    <3>3. QED
      BY <2>3, <3>2
  <2>4. QED
    BY <1>1, <2>1, <2>2, <2>3
<1>3. has_pkg => ok
  BY DEF ListenerInv, ok, Contains
<1>4. (w = "EXITED") = exited
  <2>1. CASE w = "EXITED"
    <3>1. exited
      BY <2>1 DEF ListenerInv, Contains
    <3>2. QED
      BY <2>1, <3>1
  <2>2. CASE w # "EXITED"
    <3>1. ~exited
      BY <2>2 DEF ListenerInv, Contains
    <3>2. QED
      BY <2>2, <3>1 DEF Contains
  <2>3. QED
    BY <2>1, <2>2
<1>5. QED
  BY <1>2, <1>3, <1>4 DEF ListenerProtocol

(***************************************************************************)
(* Whatever the server, the network and the main thread do, and whichever  *)
(* thread pops, the listener of MainLoop is called in the order success,   *)
(* close, exit, or failure, exit, and the exit is the last call of all.    *)
(***************************************************************************)
THEOREM ListenerIsTold == Spec => []ListenerProtocol
<1> DEFINE Inv == FlagsOK /\ PopInv /\ ListenerInv
<1>1. Init => Inv
  BY TypeInit DEF Init, PopInv, ListenerInv, ReceivingAt
<1>2. Inv /\ [Next]_vars => Inv'
  BY FlagsStep, PopStep, ListenerStep
<1>3. Inv => ListenerProtocol
  BY ListenerInvImplies
<1>4. QED
  BY <1>1, <1>2, <1>3, PTL DEF Spec

(***************************************************************************)
(* Nothing that the two threads share loses its type, whichever thread     *)
(* pops and whenever the main thread pushes: what the race of run race     *)
(* spoils is where begin and end are and with them what is popped, while   *)
(* the buffer keeps its cells and every message its fields.                *)
(***************************************************************************)
THEOREM ClientThreadTypes == Spec => []TypeOK
<1> DEFINE Inv == FlagsOK /\ ValuesOK /\ PopInv /\ ListenerInv
<1>1. Init => Inv
  BY TypeInit DEF Init, PopInv, ListenerInv, ReceivingAt
<1>2. Inv /\ [Next]_vars => Inv'
  BY FlagsStep, ValuesStep, PopStep, ListenerStep
<1>3. Inv => TypeOK
  <2> SUFFICES ASSUME Inv PROVE told \in Seq(Events)
    BY DEF TypeOK
  <2>1. told \in {<<>>, <<"SUCCEED">>, <<"EXIT">>, <<"FAILED", "EXIT">>,
                  <<"SUCCEED", "EXIT">>, <<"SUCCEED", "CLOSE", "EXIT">>}
    BY DEF FlagsOK, ListenerInv
  <2>2. <<>> \in Seq(Events) /\ <<"SUCCEED">> \in Seq(Events) /\ <<"EXIT">> \in Seq(Events)
    BY DEF Events
  <2>3. <<"FAILED", "EXIT">> \in Seq(Events) /\ <<"SUCCEED", "EXIT">> \in Seq(Events)
    BY DEF Events
  <2>4. <<"SUCCEED", "CLOSE", "EXIT">> \in Seq(Events)
    BY DEF Events
  <2>5. QED
    BY <2>1, <2>2, <2>3, <2>4
<1>4. QED
  BY <1>1, <1>2, <1>3, PTL DEF Spec

-----------------------------------------------------------------------------
(***************************************************************************)
(* The receive buffer, when OnIncoming pops.                               *)
(***************************************************************************)
LEMMA BufferStep ==
    ASSUME PopsInCallback, ValuesOK, PopInv, BufferInv, [Next]_vars PROVE BufferInv'
<1> USE ThreadAssumption DEF ValuesOK, PopInv, BufferInv, Done, Cells, WorkerGoes, MainGoes, PopGoes,
        recvVars, kernelVars, popVars, workerVars
<1>1. CASE MainLoopBegins
  BY <1>1 DEF MainLoopBegins
<1>2. CASE Start
  BY <1>2 DEF Start
<1>3. CASE CheckExit
  BY <1>3 DEF CheckExit
<1>4. CASE Waits
  BY <1>4 DEF Waits
<1>5. CASE FillsHandShake
  BY <1>5 DEF FillsHandShake, Fill
<1>6. CASE QueuesHandShake
  BY <1>6 DEF QueuesHandShake, Queue
<1>7. CASE HandShakeAdvances
  BY <1>7 DEF HandShakeAdvances
<1>8. CASE HandShakeFails
  BY <1>8 DEF HandShakeFails
<1>unsent. CASE HandShakeUnsent
  BY <1>unsent DEF HandShakeUnsent, Queue
<1>9. CASE ReportsSuccess
  BY <1>9 DEF ReportsSuccess
<1>10. CASE RecvBegins
  BY <1>10 DEF RecvBegins, Receiving, Avaiable
<1>11. CASE RecycleMoves
  BY <1>11 DEF RecycleMoves, Receiving, At
<1>12. CASE RecycleCuts
  BY <1>12 DEF RecycleCuts, Receiving
<1>13. CASE RecycleEnds
  BY <1>13 DEF RecycleEnds, Receiving, Avaiable
<1>14. ASSUME NEW k \in 0 .. Slots, RecvReads(k) PROVE BufferInv'
  <2>1. /\ w = "RECV" /\ w' = "LOOK" /\ p = "IDLE" /\ p' = p
        /\ popped' = popped /\ begin' = begin /\ end' = end + k
        /\ down_read' = down_read + k /\ k <= Slots - end
        /\ mem' = [i \in Cells |-> IF i \in end .. end + k - 1
                                   THEN down_read + 1 + (i - end) ELSE mem[i]]
    BY <1>14 DEF RecvReads, Avaiable
  <2>2. /\ Done \in Nat /\ Done' = Done /\ begin \in Nat /\ end \in Nat
        /\ begin <= end /\ down_read = Done + (end - begin)
        /\ \A i \in Cells : begin <= i /\ i < end => mem[i] = Done + 1 + (i - begin)
    BY <2>1
  <2> HIDE DEF ValuesOK, Done
  <2>3. ASSUME NEW i \in Cells, begin <= i, i < end + k
        PROVE  mem'[i] = Done + 1 + (i - begin)
    <3> HIDE DEF BufferInv
    <3>1. CASE i < end
      BY <2>1, <2>2, <2>3, <3>1
    <3>2. CASE i >= end
      <4>1. mem'[i] = down_read + 1 + (i - end)
        BY <2>1, <2>2, <2>3, <3>2
      <4>2. QED
        BY <4>1, <2>2
    <3>3. QED
      BY <2>2, <3>1, <3>2
  <2>4. QED
    BY <2>1, <2>2, <2>3
<1>15. CASE RecvClosed
  BY <1>15 DEF RecvClosed, Receiving
<1>16. CASE RecvFails
  BY <1>16 DEF RecvFails
<1>17. CASE LooksForPackets
  BY <1>17 DEF LooksForPackets, Receiving
<1>18. CASE StartThread
  BY <1>18 DEF StartThread
<1>19. CASE TerminateThread
  BY <1>19 DEF TerminateThread
<1>20. CASE PushFills
  BY <1>20 DEF PushFills, Fill
<1>21. CASE PushQueues
  BY <1>21 DEF PushQueues, Queue
<1>22. CASE PopPeeks
  BY <1>22 DEF PopPeeks, Popping, At, HasNewPkg, Datalen
<1>23. CASE PopLoads
  <2>1. p = "PEEKED" /\ w = "INCOMING" /\ HasNewPkg
    BY <1>23 DEF PopLoads, HasNewPkg, Datalen
  <2>2. p' = "LOADED" /\ reg' = begin /\ UNCHANGED <<recvVars, w, got, popped, down_read>>
    BY <1>23, <2>1 DEF PopLoads, Popping
  <2>3. QED
    BY <2>1, <2>2
<1>24. CASE PopStores
  <2>1. /\ p = "LOADED" /\ w = "INCOMING" /\ p' = "IDLE" /\ w' = "CHECK"
        /\ begin' = begin + 1 /\ begin < end
        /\ UNCHANGED <<mem, end, down_read>>
    BY <1>24 DEF PopStores, Popping, PopReturns
  <2>2. /\ Done \in Nat /\ Done' = Done + 1 /\ begin \in Nat /\ end \in Nat
        /\ down_read = Done + (end - begin)
        /\ \A i \in Cells : begin <= i /\ i < end => mem[i] = Done + 1 + (i - begin)
    BY <1>24, <2>1 DEF PopStores
  <2> HIDE DEF Done, ValuesOK
  <2>3. QED
    BY <2>1, <2>2
<1>25. CASE ServerSends
  BY <1>25 DEF ServerSends, Serving
<1>26. ASSUME NEW how \in {"closed", "reset"}, ConnectionEnds(how) PROVE BufferInv'
  BY <1>26 DEF ConnectionEnds, Serving
<1>27. CASE UNCHANGED vars
  BY <1>27 DEF vars
<1>28. QED
  BY <1>1, <1>2, <1>3, <1>4, <1>5, <1>6, <1>7, <1>8, <1>9, <1>10, <1>11,
     <1>12, <1>13, <1>14, <1>15, <1>16, <1>17, <1>18, <1>19, <1>20, <1>21,
     <1>22, <1>23, <1>24, <1>25, <1>26, <1>27, <1>unsent
  DEF Next, Worker, HandShake, Recv, Main, Push, Pop

(***************************************************************************)
(* The pops stay in the order of arrival: what is popped next is the next  *)
(* of the buffer.                                                          *)
(***************************************************************************)
LEMMA OrderStep ==
    ASSUME PopsInCallback, ValuesOK, PopInv, BufferInv, PoppedInOrder, [Next]_vars
    PROVE  PoppedInOrder'
<1> USE DEF PoppedInOrder, popVars
<1>1. CASE MainLoopBegins
  BY <1>1 DEF MainLoopBegins
<1>2. CASE Start
  BY <1>2 DEF Start
<1>3. CASE CheckExit
  BY <1>3 DEF CheckExit
<1>4. CASE Waits
  BY <1>4 DEF Waits
<1>5. CASE FillsHandShake
  BY <1>5 DEF FillsHandShake, Fill
<1>6. CASE QueuesHandShake
  BY <1>6 DEF QueuesHandShake, Queue
<1>7. CASE HandShakeAdvances
  BY <1>7 DEF HandShakeAdvances
<1>8. CASE HandShakeFails
  BY <1>8 DEF HandShakeFails
<1>unsent. CASE HandShakeUnsent
  BY <1>unsent DEF HandShakeUnsent, Queue
<1>9. CASE ReportsSuccess
  BY <1>9 DEF ReportsSuccess
<1>10. CASE RecvBegins
  BY <1>10 DEF RecvBegins, Receiving
<1>11. CASE RecycleMoves
  BY <1>11 DEF RecycleMoves, Receiving
<1>12. CASE RecycleCuts
  BY <1>12 DEF RecycleCuts, Receiving
<1>13. CASE RecycleEnds
  BY <1>13 DEF RecycleEnds, Receiving
<1>14. ASSUME NEW k \in 0 .. Slots, RecvReads(k) PROVE PoppedInOrder'
  BY <1>14 DEF RecvReads
<1>15. CASE RecvClosed
  BY <1>15 DEF RecvClosed, Receiving
<1>16. CASE RecvFails
  BY <1>16 DEF RecvFails
<1>17. CASE LooksForPackets
  BY <1>17 DEF LooksForPackets, Receiving
<1>18. CASE StartThread
  BY <1>18 DEF StartThread
<1>19. CASE TerminateThread
  BY <1>19 DEF TerminateThread
<1>20. CASE PushFills
  BY <1>20 DEF PushFills, Fill
<1>21. CASE PushQueues
  BY <1>21 DEF PushQueues, Queue
<1>22. CASE PopPeeks
  BY <1>22 DEF PopPeeks, Popping
<1>23. CASE PopLoads
  BY <1>23, SMTT(30) DEF PopLoads, Popping, BufferInv, HasNewPkg, Datalen, PopGoes, ValuesOK
<1>24. CASE PopStores
  <2>1. popped' = Append(popped, Len(popped) + 1)
    BY <1>24 DEF PopStores, PopGoes, BufferInv, Done
  <2>2. QED
    BY <2>1 DEF ValuesOK
<1>25. CASE ServerSends
  BY <1>25 DEF ServerSends, Serving
<1>26. ASSUME NEW how \in {"closed", "reset"}, ConnectionEnds(how) PROVE PoppedInOrder'
  BY <1>26 DEF ConnectionEnds, Serving
<1>27. CASE UNCHANGED vars
  BY <1>27 DEF vars
<1>28. QED
  BY <1>1, <1>2, <1>3, <1>4, <1>5, <1>6, <1>7, <1>8, <1>9, <1>10, <1>11,
     <1>12, <1>13, <1>14, <1>15, <1>16, <1>17, <1>18, <1>19, <1>20, <1>21,
     <1>22, <1>23, <1>24, <1>25, <1>26, <1>27, <1>unsent
  DEF Next, Worker, HandShake, Recv, Main, Push, Pop

(***************************************************************************)
(* How client_main.cpp uses the API is safe without a lock: OnIncoming     *)
(* pops every packet, in the order the server sent them, for a receive     *)
(* buffer of any size and however the reads and the recycling fall.        *)
(***************************************************************************)
THEOREM PopsAreInOrder == ASSUME PopsInCallback PROVE Spec => []PoppedInOrder
<1> DEFINE Inv == ValuesOK /\ PopInv /\ BufferInv /\ PoppedInOrder
<1>1. Init => Inv
  BY TypeInit, ThreadAssumption DEF Init, PopInv, BufferInv, Done, PoppedInOrder, Cells
<1>2. Inv /\ [Next]_vars => Inv'
  BY ValuesStep, PopStep, BufferStep, OrderStep
<1>3. QED
  BY <1>1, <1>2, PTL DEF Spec

-----------------------------------------------------------------------------
(***************************************************************************)
(* The numbering, when the main thread waits for OnHandShakeSucceed.       *)
(***************************************************************************)
LEMMA SendStep ==
    ASSUME ~EarlyCalls, FlagsOK, ValuesOK, PopInv, ListenerInv, SendInv, [Next]_vars
    PROVE  SendInv'
<1> USE DEF ValuesOK, PopInv, ListenerInv, ReceivingAt, SendInv, Going, BodyAt, WorkerGoes, MainGoes, PopGoes,
        sendVars, workerVars
<1>1. CASE MainLoopBegins
  BY <1>1 DEF MainLoopBegins
<1>2. CASE Start
  BY <1>2 DEF Start
<1>3. CASE CheckExit
  BY <1>3 DEF CheckExit
<1>4. CASE Waits
  BY <1>4 DEF Waits
<1>5. CASE FillsHandShake
  <2>1. /\ ~handshake_done /\ m = "IDLE" /\ m' = m /\ w' = "FILLED" /\ w = "UPDATE"
        /\ UNCHANGED <<offered, session_state, handshake_done>>
    BY <1>5 DEF FillsHandShake, Fill
  <2>2. /\ seqno' = seqno + 1
        /\ \/ /\ session_state = "TCP_SYNING" /\ Len(offered) = 0
              /\ up_msg' = [seq |-> seqno, body |-> "SYN"]
           \/ /\ session_state = "KEY_SYNING" /\ Len(offered) = 1
              /\ up_msg' = [seq |-> seqno, body |-> "AUTHENTICATION"]
    BY <1>5 DEF FillsHandShake, Fill
  <2>3. seqno = Len(offered) + 1 /\ Len(offered) \in Nat
    BY <1>5, <2>1 DEF FillsHandShake
  <2> HIDE DEF ValuesOK, ListenerInv
  <2>4. QED
    BY <2>1, <2>2, <2>3
<1>6. CASE QueuesHandShake
  <2>1. /\ ~handshake_done /\ m = "IDLE" /\ m' = m /\ w' = "CHECK" /\ w = "FILLED"
        /\ UNCHANGED <<seqno, handshake_done>>
    BY <1>6 DEF QueuesHandShake, Queue
  <2>2. Len(offered') = Len(offered) + 1 /\ Len(offered) \in Nat
    BY <1>6 DEF QueuesHandShake, Queue
  <2>3. \/ session_state = "TCP_SYNING" /\ session_state' = "KEY_SYNING"
        \/ session_state = "KEY_SYNING" /\ session_state' = "AUTHING"
    BY <1>6 DEF QueuesHandShake
  <2> HIDE DEF ValuesOK, ListenerInv
  <2>4. seqno' = Len(offered') + 1
    BY <2>1, <2>2
  <2>5. \/ session_state' = "KEY_SYNING" /\ Len(offered) = 0 /\ Len(offered') = 1
        \/ session_state' = "AUTHING" /\ Len(offered) = 1 /\ Len(offered') = 2
    <3>1. CASE session_state = "TCP_SYNING"
      <4>1. session_state' = "KEY_SYNING" /\ Len(offered) = 0
        BY <2>1, <2>3, <3>1
      <4>2. QED
        BY <2>2, <4>1
    <3>2. CASE session_state = "KEY_SYNING"
      <4>1. session_state' = "AUTHING" /\ Len(offered) = 1
        BY <2>1, <2>3, <3>2
      <4>2. QED
        BY <2>2, <4>1
    <3>3. QED
      BY <2>3, <3>1, <3>2
  <2>6. /\ Len(offered') >= 1 => offered'[1].queued
        /\ Len(offered') >= 2 => offered'[2].queued
    <3>1. /\ \A i \in 1 .. Len(offered) : offered'[i] = offered[i]
          /\ offered'[Len(offered) + 1].queued
      <4>1. Queue(TRUE)
        BY <1>6 DEF QueuesHandShake
      <4>2. /\ \A i \in 1 .. Len(offered) : offered'[i] = offered[i]
            /\ offered'[Len(offered) + 1] =
                 [seq |-> up_msg.seq, body |-> up_msg.body, queued |-> TRUE]
        BY <4>1, OfferAppends, Zenon
      <4>3. offered'[Len(offered) + 1].queued = TRUE
        <5> HIDE DEF SendInv, ReceivingAt, Going, BodyAt
        <5>1. QED
          BY <4>2
      <4>4. QED
        BY <4>2, <4>3, Zenon
    <3>2. Len(offered) \in {0, 1}
      BY <2>5, Zenon
    <3>3. Len(offered) >= 1 => offered[1].queued
      BY <2>1
    <3>4. QED
      BY <2>2, <3>1, <3>2, <3>3
  <2>7. QED
    BY <2>1, <2>4, <2>5, <2>6
<1>7. CASE HandShakeAdvances
  <2>1. /\ ~handshake_done /\ m = "IDLE" /\ m' = m /\ w' = "CHECK" /\ w = "UPDATE"
        /\ UNCHANGED <<seqno, offered, up_msg>>
    BY <1>7 DEF HandShakeAdvances
  <2>2. \/ session_state = "AUTHING" /\ session_state' = "READY"
        \/ session_state = "READY" /\ session_state' = "DONE"
    BY <1>7 DEF HandShakeAdvances
  <2>3. Going /\ Going' /\ m # "FILLED" /\ w # "FILLED" /\ m' # "FILLED" /\ w' # "FILLED"
    BY <2>1
  <2>4. Len(offered) = 2 /\ offered[1].queued /\ offered[2].queued /\ seqno = Len(offered) + 1
    BY <2>1, <2>2, <2>3
  <2>5. session_state' \in {"READY", "DONE"}
    BY <2>2
  <2> HIDE DEF ValuesOK, ListenerInv, Going
  <2>6. QED
    BY <2>1, <2>3, <2>4, <2>5
<1>8. CASE HandShakeFails
  BY <1>8 DEF HandShakeFails
<1>unsent. CASE HandShakeUnsent
  <2>1. /\ ~handshake_done /\ m = "IDLE" /\ m' = m /\ w' = "EXITED" /\ w = "FILLED"
        /\ UNCHANGED <<seqno, handshake_done>>
    BY <1>unsent DEF HandShakeUnsent, Queue
  <2>2. Len(offered') = Len(offered) + 1 /\ Len(offered) \in Nat
    BY <1>unsent, OfferAppends DEF HandShakeUnsent
  <2>3. ~Going' /\ seqno' = Len(offered') + 1
    <3> HIDE DEF ValuesOK, ListenerInv
    <3>1. QED
      BY <2>1, <2>2
  <2> HIDE DEF ValuesOK, ListenerInv, Going
  <2>4. QED
    BY <2>1, <2>3
<1>9. CASE ReportsSuccess
  BY <1>9 DEF ReportsSuccess
<1>10. CASE RecvBegins
  BY <1>10 DEF RecvBegins, Receiving
<1>11. CASE RecycleMoves
  BY <1>11 DEF RecycleMoves, Receiving
<1>12. CASE RecycleCuts
  BY <1>12 DEF RecycleCuts, Receiving
<1>13. CASE RecycleEnds
  BY <1>13 DEF RecycleEnds, Receiving
<1>14. ASSUME NEW k \in 0 .. Slots, RecvReads(k) PROVE SendInv'
  BY <1>14 DEF RecvReads
<1>15. CASE RecvClosed
  BY <1>15 DEF RecvClosed, Receiving
<1>16. CASE RecvFails
  BY <1>16 DEF RecvFails
<1>17. CASE LooksForPackets
  BY <1>17 DEF LooksForPackets, Receiving
<1>18. CASE StartThread
  BY <1>18 DEF StartThread
<1>19. CASE TerminateThread
  BY <1>19 DEF TerminateThread
<1>20. CASE PushFills
  <2>1. /\ ok /\ m = "IDLE" /\ m' = "FILLED"
        /\ UNCHANGED <<offered, session_state, handshake_done, w>>
    BY <1>20 DEF PushFills, Fill
  <2>handshake. handshake_done
    BY <2>1, SMTT(30) DEF ok, Contains
  <2>ready. session_state = "DONE" /\ w # "FILLED"
    BY <2>handshake
  <2>2. /\ seqno' = seqno + 1 /\ up_msg' = [seq |-> seqno, body |-> "DATA"]
        /\ seqno = Len(offered) + 1 /\ Len(offered) \in Nat /\ Len(offered) >= 2
    BY <1>20, <2>1, <2>handshake, <2>ready DEF PushFills, Fill
  <2> HIDE DEF ValuesOK, ListenerInv
  <2>3. QED
    BY <2>1, <2>2, <2>handshake, <2>ready
<1>21. CASE PushQueues
  <2>1. /\ m = "FILLED" /\ m' = "IDLE"
        /\ UNCHANGED <<w, session_state, handshake_done>>
    BY <1>21 DEF PushQueues
  <2>2. /\ UNCHANGED seqno /\ Len(offered) \in Nat /\ Len(offered') = Len(offered) + 1
        /\ \A i \in 1 .. Len(offered) : offered'[i] = offered[i]
    BY <1>21, OfferAppends DEF PushQueues
  <2>3. /\ handshake_done /\ session_state = "DONE" /\ w # "FILLED"
        /\ Len(offered) >= 2 /\ offered[1].queued /\ offered[2].queued
        /\ seqno = Len(offered) + 2
    BY <2>1, <2>2
  <2>4. offered'[1] = offered[1] /\ offered'[2] = offered[2]
    BY <2>2, <2>3
  <2> HIDE DEF ValuesOK, ListenerInv
  <2>5. QED
    BY <2>1, <2>2, <2>3, <2>4
<1>22. CASE PopPeeks
  BY <1>22 DEF PopPeeks, Popping
<1>23. CASE PopLoads
  BY <1>23 DEF PopLoads, Popping
<1>24. CASE PopStores
  <2>1. /\ w = "FILLED" <=> w' = "FILLED"
        /\ UNCHANGED <<m, seqno, offered, up_msg, session_state, handshake_done>>
    BY <1>24 DEF PopStores, Popping, PopReturns
  <2>2. Going' <=> Going
    BY <1>24 DEF PopStores, PopReturns, Popping
  <2> HIDE DEF ValuesOK, ListenerInv, Going
  <2>3. QED
    BY <2>1, <2>2
<1>25. CASE ServerSends
  BY <1>25 DEF ServerSends, Serving
<1>26. ASSUME NEW how \in {"closed", "reset"}, ConnectionEnds(how) PROVE SendInv'
  BY <1>26 DEF ConnectionEnds, Serving
<1>27. CASE UNCHANGED vars
  BY <1>27 DEF vars
<1>28. QED
  BY <1>1, <1>2, <1>3, <1>4, <1>5, <1>6, <1>7, <1>8, <1>9, <1>10, <1>11,
     <1>12, <1>13, <1>14, <1>15, <1>16, <1>17, <1>18, <1>19, <1>20, <1>21,
     <1>22, <1>23, <1>24, <1>25, <1>26, <1>27, <1>unsent
  DEF Next, Worker, HandShake, Recv, Main, Push, Pop

(***************************************************************************)
(* A message that is offered while the session goes on has the next number *)
(* and comes after messages that were queued.                              *)
(***************************************************************************)
LEMMA OfferStep ==
    ASSUME ValuesOK, SendInv, HandShakeThenData, Going, NEW taken \in BOOLEAN, Queue(taken),
           up_msg = [seq |-> Len(offered) + 1, body |-> BodyAt(Len(offered) + 1)]
    PROVE  HandShakeThenData'
<1> DEFINE o == [seq |-> up_msg.seq, body |-> up_msg.body, queued |-> taken]
<1>1. o.seq = Len(offered) + 1 /\ o.body = BodyAt(Len(offered) + 1)
  OBVIOUS
<1>2. /\ Len(offered) \in Nat /\ Len(offered') = Len(offered) + 1
      /\ offered'[Len(offered) + 1] = o
      /\ \A i \in 1 .. Len(offered) : offered'[i] = offered[i]
  BY OfferAppends
<1> HIDE DEF o
<1>3. \A i \in 1 .. Len(offered) : i <= 2 => offered[i].queued
  BY <1>2 DEF SendInv
<1>4. ASSUME NEW i \in 1 .. Len(offered) + 1
      PROVE  /\ offered'[i].seq = i /\ offered'[i].body = BodyAt(i)
             /\ i <= 2 /\ i < Len(offered) + 1 => offered'[i].queued
  <2>1. CASE i \in 1 .. Len(offered)
    BY <1>2, <1>3, <2>1 DEF HandShakeThenData, BodyAt
  <2>2. CASE i = Len(offered) + 1
    BY <1>1, <1>2, <2>2
  <2>3. QED
    BY <1>2, <2>1, <2>2
<1>5. QED
  BY <1>2, <1>4 DEF HandShakeThenData, BodyAt

(***************************************************************************)
(* The main thread fills a message only after the handshake, so the        *)
(* messages of the handshake come first and the numbers go up by one.      *)
(***************************************************************************)
LEMMA DataStep ==
    ASSUME ~EarlyCalls, ValuesOK, ListenerInv, SendInv, HandShakeThenData, [Next]_vars
    PROVE  HandShakeThenData'
<1> USE DEF HandShakeThenData, sendVars
<1>1. CASE MainLoopBegins
  BY <1>1 DEF MainLoopBegins
<1>2. CASE Start
  BY <1>2 DEF Start
<1>3. CASE CheckExit
  BY <1>3 DEF CheckExit
<1>4. CASE Waits
  BY <1>4 DEF Waits
<1>5. CASE FillsHandShake
  BY <1>5 DEF FillsHandShake, Fill
<1>6. CASE QueuesHandShake
  <2>1. /\ up_msg = [seq |-> Len(offered) + 1, body |-> BodyAt(Len(offered) + 1)]
        /\ Queue(TRUE) /\ Going
    BY <1>6 DEF QueuesHandShake, WorkerGoes, SendInv, Going
  <2>2. QED
    BY <2>1, OfferStep
<1>7. CASE HandShakeAdvances
  BY <1>7 DEF HandShakeAdvances
<1>8. CASE HandShakeFails
  BY <1>8 DEF HandShakeFails
<1>unsent. CASE HandShakeUnsent
  <2>1. /\ up_msg = [seq |-> Len(offered) + 1, body |-> BodyAt(Len(offered) + 1)]
        /\ (\E taken \in BOOLEAN : Queue(taken)) /\ Going
    BY <1>unsent DEF HandShakeUnsent, WorkerGoes, SendInv, Going
  <2>2. QED
    BY <2>1, OfferStep
<1>9. CASE ReportsSuccess
  BY <1>9 DEF ReportsSuccess
<1>10. CASE RecvBegins
  BY <1>10 DEF RecvBegins, Receiving
<1>11. CASE RecycleMoves
  BY <1>11 DEF RecycleMoves, Receiving
<1>12. CASE RecycleCuts
  BY <1>12 DEF RecycleCuts, Receiving
<1>13. CASE RecycleEnds
  BY <1>13 DEF RecycleEnds, Receiving
<1>14. ASSUME NEW k \in 0 .. Slots, RecvReads(k) PROVE HandShakeThenData'
  BY <1>14 DEF RecvReads
<1>15. CASE RecvClosed
  BY <1>15 DEF RecvClosed, Receiving
<1>16. CASE RecvFails
  BY <1>16 DEF RecvFails
<1>17. CASE LooksForPackets
  BY <1>17 DEF LooksForPackets, Receiving
<1>18. CASE StartThread
  BY <1>18 DEF StartThread
<1>19. CASE TerminateThread
  BY <1>19 DEF TerminateThread
<1>20. CASE PushFills
  BY <1>20 DEF PushFills, Fill
<1>21. CASE PushQueues
  <2>1. /\ up_msg = [seq |-> Len(offered) + 1, body |-> BodyAt(Len(offered) + 1)]
        /\ (\E taken \in BOOLEAN : Queue(taken)) /\ Going
    BY <1>21 DEF PushQueues, MainGoes, SendInv, Going
  <2>2. QED
    BY <2>1, OfferStep
<1>22. CASE PopPeeks
  BY <1>22 DEF PopPeeks, Popping
<1>23. CASE PopLoads
  BY <1>23 DEF PopLoads, Popping
<1>24. CASE PopStores
  BY <1>24 DEF PopStores, Popping
<1>25. CASE ServerSends
  BY <1>25 DEF ServerSends, Serving
<1>26. ASSUME NEW how \in {"closed", "reset"}, ConnectionEnds(how) PROVE HandShakeThenData'
  BY <1>26 DEF ConnectionEnds, Serving
<1>27. CASE UNCHANGED vars
  BY <1>27 DEF vars
<1>28. QED
  BY <1>1, <1>2, <1>3, <1>4, <1>5, <1>6, <1>7, <1>8, <1>9, <1>10, <1>11,
     <1>12, <1>13, <1>14, <1>15, <1>16, <1>17, <1>18, <1>19, <1>20, <1>21,
     <1>22, <1>23, <1>24, <1>25, <1>26, <1>27, <1>unsent
  DEF Next, Worker, HandShake, Recv, Main, Push, Pop

(***************************************************************************)
(* A main thread that waits for OnHandShakeSucceed never mixes with the    *)
(* handshake of the worker: the messages are SYN, AUTHENTICATION and then  *)
(* data, the n-th with number n, for any number of pushes and whether or   *)
(* not send_buf_ has room for them; the server misses a number only where  *)
(* PushMessage has failed.                                                 *)
(***************************************************************************)
THEOREM SendsAreInOrder == ASSUME ~EarlyCalls PROVE Spec => []HandShakeThenData
<1> DEFINE Inv == FlagsOK /\ ValuesOK /\ PopInv /\ ListenerInv /\ SendInv /\ HandShakeThenData
<1>1. Init => Inv
  BY TypeInit DEF Init, PopInv, ListenerInv, ReceivingAt, SendInv, HandShakeThenData
<1>2. Inv /\ [Next]_vars => Inv'
  BY FlagsStep, ValuesStep, PopStep, ListenerStep, SendStep, DataStep
<1>3. QED
  BY <1>1, <1>2, PTL DEF Spec
=============================================================================
