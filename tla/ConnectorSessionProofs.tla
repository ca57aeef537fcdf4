----------------------- MODULE ConnectorSessionProofs -----------------------
(***************************************************************************)
(* More about the connector, from the invariant of ConnectorProofs: the    *)
(* sessions of clients that wait for OnHandShakeSucceed, the sequence      *)
(* numbers, that data is in one place at a time, the refinement of         *)
(* EchoService, and the order of the answers with one back end.            *)
(***************************************************************************)
EXTENDS ConnectorProofs

(***************************************************************************)
(* A client that waits speaks once per state of the handshake, so that the *)
(* session reaches OK by the answer of a back end alone.                   *)
(***************************************************************************)
Started(c) == \E k \in known : k.on = "SYN" /\ k.fd = conn_fd[c] /\ k.nid = Nid(c)

PatientOK(c) ==
    Serving(c) =>
        /\ client[c] = "TCP_SYNING" => Reached(c) = 0 /\ up[c] = <<>>
        /\ client[c] = "KEY_SYNING" => \/ Reached(c) = 0
                                       \/ Reached(c) = 1 /\ up[c] = <<>>
        /\ Reached(c) <= 1 => Len(up[c]) <= 1
        /\ Reached(c) = 2 => up[c] = <<>>
        /\ Reached(c) = 3 => Started(c) /\ Session(c).sid = SidFor(Nid(c))

(***************************************************************************)
(* The numbers under way end before seqno, and the session has seen the    *)
(* number before the first of them.                                        *)
(***************************************************************************)
SeqOK(c) ==
    Serving(c) =>
        /\ \A i \in 1 .. Len(up[c]) : up[c][i].seq = seqno[c] - Len(up[c]) + i - 1
        /\ Session(c).last_seq = 0 \/ Session(c).last_seq + 1 = seqno[c] - Len(up[c])

SessionOK(c) ==
    /\ ~Eager => PatientOK(c)
    /\ ~MayPushFail => SeqOK(c)

SessionInv == PathInv /\ \A c \in Conns : SessionOK(c)

(***************************************************************************)
(* A step spares connection d if it does nothing to it that these ask for. *)
(***************************************************************************)
Spared(d) ==
    Serving(d)' =>
        /\ Serving(d) /\ Reached(d)' = Reached(d) /\ conn_fd'[d] = conn_fd[d]
        /\ Session(d)'.sid = Session(d).sid /\ Session(d)'.last_seq = Session(d).last_seq
        /\ up'[d] = up[d] /\ seqno'[d] = seqno[d]
        /\ client'[d] \in {client[d], "READY", "DONE", "FAILED", "FINI"}
        /\ known \subseteq known'

(***************************************************************************)
(* A connection that a step spares keeps what SessionOK says of it.        *)
(***************************************************************************)
LEMMA SparedKeeps ==
    ASSUME NEW d \in Conns, SessionOK(d), Spared(d)
    PROVE  SessionOK(d)'
<1> SUFFICES ASSUME Serving(d)' PROVE SessionOK(d)'
  BY DEF SessionOK, PatientOK, SeqOK
<1>1. ~Eager => PatientOK(d)'
  <2> SUFFICES ASSUME ~Eager PROVE PatientOK(d)'
    OBVIOUS
  <2>1. Started(d) => Started(d)'
    BY DEF Spared, Started
  <2>2. QED
    BY <2>1 DEF SessionOK, PatientOK, Spared
<1>2. ~MayPushFail => SeqOK(d)'
  BY DEF SessionOK, SeqOK, Spared
<1>3. QED
  BY <1>1, <1>2 DEF SessionOK

(***************************************************************************)
(* Who is spared by the four ways of treating pool and sessions.           *)
(***************************************************************************)
LEMMA AllSpared ==
    ASSUME PathInv, UNCHANGED <<pool, nid_seed, session, conn_fd, up, seqno>>,
           \A d \in Conns : client'[d] \in {client[d], "READY", "DONE", "FAILED", "FINI"},
           known \subseteq known'
    PROVE  \A d \in Conns : Spared(d)
<1>1. \A d \in Conns : /\ Serving(d)' <=> Serving(d)
                       /\ Reached(d)' = Reached(d) /\ Session(d)' = Session(d)
  BY NothingMoves DEF PathInv
<1>2. QED
  BY <1>1 DEF Spared

(***************************************************************************)
(* A step that sets the session of c alone spares the others.              *)
(***************************************************************************)
LEMMA OthersSpared ==
    ASSUME PathInv, NEW c \in Conns, NEW s \in Sessions, Serving(c),
           UNCHANGED session \/ session' = [session EXCEPT ![conn_fd[c]] = s],
           UNCHANGED <<pool, nid_seed, conn_fd, known>>,
           \A d \in Conns : d # c => /\ up'[d] = up[d] /\ seqno'[d] = seqno[d]
                                     /\ client'[d] = client[d]
    PROVE  \A d \in Conns : d # c => Spared(d)
<1>1. \A d \in Conns : /\ Serving(d)' <=> Serving(d)
                       /\ d # c => Reached(d)' = Reached(d)
                       /\ d # c /\ Serving(d) => Session(d)' = Session(d)
  BY NothingMoves, SessionMoves DEF PathInv
<1>2. QED
  BY <1>1 DEF Spared

(***************************************************************************)
(* Closing c spares the others, and c is served no more.                   *)
(***************************************************************************)
LEMMA CloseSpares ==
    ASSUME PathInv, NEW c \in Conns, Serving(c),
           pool' = [pool EXCEPT ![conn_fd[c]] = NoNet], DeleteSession(c),
           UNCHANGED <<nid_seed, conn_fd, client, seqno, known>>
    PROVE  \A d \in Conns : Spared(d)
<1>1. \A d \in Conns : /\ Serving(d)' <=> Serving(d) /\ d # c
                       /\ d # c => Reached(d)' = Reached(d)
                       /\ d # c /\ Serving(d) => Session(d)' = Session(d)
  BY ConnectionGoes DEF PathInv, DeleteSession
<1>2. \A d \in Conns : d # c => up'[d] = up[d]
  BY DEF PathInv, UpOK, DeleteSession
<1>3. QED
  BY <1>1, <1>2 DEF Spared

-----------------------------------------------------------------------------
(***************************************************************************)
(* A new connection has an empty queue: nothing is sent on a connection    *)
(* before it is accepted.                                                  *)
(***************************************************************************)
LEMMA NothingBeforehand ==
    ASSUME PathInv, NEW c \in Conns, ~Begun(c)
    PROVE  up[c] = <<>>
<1>1. UpMsgs(c) = {}
  BY DEF UpMsgs
<1>2. up[c] \in Seq({})
  BY <1>1 DEF PathInv, UpOK
<1>3. QED
  BY <1>2

(***************************************************************************)
(* A client connects: its session is new and nothing is under way.         *)
(***************************************************************************)
LEMMA SessionsConnect ==
    ASSUME SessionInv, NEW fd \in Fds, ClientConnect(fd)
    PROVE  \A c \in Conns : SessionOK(c)'
<1>1. PICK n : n = ConnOf(nid_seed)
  OBVIOUS
<1>2. /\ pool[fd] = NoNet /\ nid_seed < MaxNid
      /\ pool' = [pool EXCEPT ![fd] = nid_seed] /\ nid_seed' = nid_seed + 1
      /\ session' = [session EXCEPT ![fd] = NewSession]
      /\ conn_fd' = [conn_fd EXCEPT ![n] = fd]
      /\ client' = [client EXCEPT ![n] = "TCP_SYNING"]
      /\ \E s \in StartSeqs : seqno' = [seqno EXCEPT ![n] = s]
      /\ UNCHANGED <<up, known>>
  BY <1>1 DEF ClientConnect, OnFrontEndConnect, AddHandlerBySocket, backVars
<1>3. /\ n \in Conns /\ ~Begun(n) /\ Reached(n)' = 0 /\ Session(n)' = NewSession
      /\ \A d \in Conns : d # n => /\ Serving(d)' <=> Serving(d)
                                   /\ Reached(d)' = Reached(d)
                                   /\ Serving(d) => Session(d)' = Session(d)
  BY <1>1, <1>2, ConnectionComes DEF SessionInv, PathInv
<1>4. \A d \in Conns : d # n => /\ conn_fd'[d] = conn_fd[d] /\ client'[d] = client[d]
                                /\ seqno'[d] = seqno[d] /\ up'[d] = up[d]
  BY <1>2, <1>3 DEF SessionInv, PathInv, PoolOK, ClientOK, CountOK
<1>5. \A d \in Conns : d # n => SessionOK(d)'
  <2> SUFFICES ASSUME NEW d \in Conns, d # n PROVE SessionOK(d)'
    OBVIOUS
  <2>1. Spared(d)
    BY <1>2, <1>3, <1>4 DEF Spared
  <2>2. QED
    BY <2>1, SparedKeeps DEF SessionInv
<1>6. SessionOK(n)'
  <2>1. up'[n] = <<>> /\ NewSession.last_seq = 0
    BY <1>2, <1>3, NothingBeforehand DEF SessionInv, NewSession
  <2>2. PatientOK(n)'
    BY <1>3, <2>1 DEF PatientOK
  <2>3. SeqOK(n)'
    BY <1>3, <2>1 DEF SeqOK
  <2>4. QED
    BY <2>2, <2>3 DEF SessionOK
<1>7. QED
  BY <1>5, <1>6

(***************************************************************************)
(* The elements of a sequence after one of its ends has been touched.      *)
(***************************************************************************)
LEMMA AppendAt ==
    ASSUME NEW S, NEW q \in Seq(S), NEW m
    PROVE  /\ Len(Append(q, m)) = Len(q) + 1 /\ Append(q, m)[Len(q) + 1] = m
           /\ \A i \in 1 .. Len(q) : Append(q, m)[i] = q[i]
<1>1. q \in Seq(S \cup {m}) /\ m \in S \cup {m}
  BY SeqGrows
<1>2. QED
  BY <1>1, AppendProperties

(***************************************************************************)
(* The elements of Tail, by place.                                         *)
(***************************************************************************)
LEMMA TailAt ==
    ASSUME NEW S, NEW q \in Seq(S), q # <<>>
    PROVE  /\ Len(q) \in Nat \ {0} /\ Head(q) = q[1]
           /\ Tail(q) \in Seq(S) /\ Len(Tail(q)) = Len(q) - 1
           /\ \A i \in 1 .. Len(q) - 1 : Tail(q)[i] = q[i + 1]
BY HeadTailProperties

(***************************************************************************)
(* The client sends: in the handshake when it was its turn, or data when   *)
(* the handshake is over.                                                  *)
(***************************************************************************)
LEMMA SeqSends ==
    ASSUME PathInv, NEW c \in Conns, NEW id, NEW data, SendUp(c, id, data),
           UNCHANGED <<pool, nid_seed, session, conn_fd>>
    PROVE  /\ SeqOK(c) => SeqOK(c)'
           /\ Serving(c) => up'[c] = Append(up[c], CSMsg(id, seqno[c], data))
           /\ \A d \in Conns : d # c => up'[d] = up[d] /\ seqno'[d] = seqno[d]
<1>1. /\ up \in [Conns -> Seq(CSMsgs)] /\ seqno \in [Conns -> Nat]
      /\ up[c] \in Seq(CSMsgs) /\ seqno[c] \in Nat
  BY DEF PathInv, UpOK, CountOK
<1>2. seqno'[c] = seqno[c] + 1 /\ \A d \in Conns : d # c => up'[d] = up[d] /\ seqno'[d] = seqno[d]
  BY <1>1 DEF SendUp
<1>3. ASSUME Serving(c) PROVE up'[c] = Append(up[c], CSMsg(id, seqno[c], data))
  BY <1>1, <1>3 DEF SendUp
<1>4. (Serving(c)' <=> Serving(c)) /\ Session(c)' = Session(c)
  BY NothingMoves DEF PathInv
<1>5. ASSUME SeqOK(c) PROVE SeqOK(c)'
  <2> SUFFICES ASSUME Serving(c) PROVE SeqOK(c)'
    BY <1>4 DEF SeqOK
  <2>1. PICK m : m = CSMsg(id, seqno[c], data)
    OBVIOUS
  <2>2. m.seq = seqno[c]
    BY <2>1 DEF CSMsg
  <2>3. /\ Len(up'[c]) = Len(up[c]) + 1 /\ up'[c][Len(up[c]) + 1] = m
        /\ \A i \in 1 .. Len(up[c]) : up'[c][i] = up[c][i]
    BY <1>1, <1>3, <2>1, AppendAt
  <2>4. Len(up[c]) \in Nat
    BY <1>1
  <2>5. ASSUME NEW i \in 1 .. Len(up'[c])
        PROVE  up'[c][i].seq = seqno'[c] - Len(up'[c]) + i - 1
    <3>1. CASE i \in 1 .. Len(up[c])
      <4>1. up[c][i].seq = seqno[c] - Len(up[c]) + i - 1
        BY <1>5, <3>1 DEF SeqOK
      <4>2. QED
        BY <1>1, <1>2, <2>3, <2>4, <3>1, <4>1
    <3>2. CASE i = Len(up[c]) + 1
      <4>1. up'[c][i] = m
        BY <2>3, <3>2
      <4>2. PICK n \in Nat, q \in Nat : n = Len(up[c]) /\ q = seqno[c]
        BY <1>1, <2>4
      <4>3. m.seq = q /\ seqno'[c] = q + 1 /\ Len(up'[c]) = n + 1 /\ i = n + 1
        BY <1>2, <2>2, <2>3, <3>2, <4>2
      <4>4. QED
        BY <4>1, <4>3
    <3>3. QED
      BY <2>3, <2>4, <3>1, <3>2
  <2>6. Session(c)'.last_seq = 0 \/ Session(c)'.last_seq + 1 = seqno'[c] - Len(up'[c])
    BY <1>1, <1>2, <1>4, <1>5, <2>3, <2>4 DEF SeqOK
  <2>7. QED
    BY <2>5, <2>6 DEF SeqOK
<1>6. QED
  BY <1>2, <1>3, <1>5

(***************************************************************************)
(* The client's steps.                                                     *)
(***************************************************************************)
LEMMA SessionsSend ==
    ASSUME SessionInv, NEW c \in Conns,
           \/ HandShake_SYN(c) \/ TryAck(c) \/ PushMessage(c)
    PROVE  \A d \in Conns : SessionOK(d)'
<1>1. /\ UNCHANGED <<pool, nid_seed, session, conn_fd, known>>
      /\ \A d \in Conns : d # c => client'[d] = client[d]
  BY DEF HandShake_SYN, TryAck, PushMessage, SessionInv, PathInv, ClientOK,
         poolVars, sessionVars, backVars
<1>2. /\ PathInv /\ client \in [Conns -> {"NONE", "TCP_SYNING", "KEY_SYNING", "AUTHING",
                                         "READY", "DONE", "FAILED", "FINI"}]
      /\ ClientRank(client[c]) <= Reached(c) /\ Reached(c) \in 0 .. 3
      /\ up[c] \in Seq(CSMsgs)
  BY ClientFacts DEF SessionInv, PathInv, ClientOK, UpOK
<1>3. /\ Serving(c)' <=> Serving(c)
      /\ Reached(c)' = Reached(c) /\ Session(c)' = Session(c)
      /\ conn_fd'[c] = conn_fd[c] /\ (Started(c)' <=> Started(c))
  BY <1>1, <1>2, NothingMoves DEF PathInv, Started
<1>4. ASSUME NEW id, NEW data, SendUp(c, id, data)
      PROVE  /\ SeqOK(c) => SeqOK(c)'
             /\ Serving(c) => up'[c] = Append(up[c], CSMsg(id, seqno[c], data))
             /\ \A d \in Conns : d # c => up'[d] = up[d] /\ seqno'[d] = seqno[d]
  BY <1>1, <1>2, <1>4, SeqSends
<1>5. CASE TryAck(c) /\ Head(down[c]).id # "SYNACK"
  <2>1. UNCHANGED <<client, seqno, up>>
    BY <1>5 DEF TryAck
  <2>2. QED
    BY <1>1, <1>2, <2>1, AllSpared, SparedKeeps DEF SessionInv
<1>6. ASSUME NEW id, NEW data, SendUp(c, id, data), ~Eager => PatientOK(c)'
      PROVE  \A d \in Conns : SessionOK(d)'
  <2>1. SessionOK(c)'
    BY <1>4, <1>6 DEF SessionInv, SessionOK
  <2>2. ASSUME NEW d \in Conns, d # c PROVE SessionOK(d)'
    <3>1. /\ Serving(d)' <=> Serving(d)
          /\ Reached(d)' = Reached(d) /\ Session(d)' = Session(d)
      BY <1>1, <1>2, NothingMoves DEF PathInv
    <3>2. Spared(d)
      BY <1>1, <1>4, <1>6, <2>2, <3>1 DEF Spared
    <3>3. QED
      BY <3>2, SparedKeeps DEF SessionInv
  <2>3. QED
    BY <2>1, <2>2
<1>7. CASE HandShake_SYN(c)
  <2>1. client[c] = "TCP_SYNING" /\ client'[c] = "KEY_SYNING" /\ SendUp(c, "SYN", NoData)
    BY <1>2, <1>7 DEF HandShake_SYN
  <2>2. ASSUME ~Eager, Serving(c) PROVE Reached(c) = 0 /\ Len(up'[c]) = 1
    <3>1. Reached(c) = 0 /\ up[c] = <<>>
      BY <2>1, <2>2 DEF SessionInv, SessionOK, PatientOK
    <3>2. up'[c] = Append(up[c], CSMsg("SYN", seqno[c], NoData))
      BY <1>4, <2>1, <2>2
    <3>3. QED
      BY <1>2, <3>1, <3>2, AppendAt
  <2>3. ASSUME ~Eager PROVE PatientOK(c)'
    <3> SUFFICES ASSUME Serving(c)' PROVE PatientOK(c)'
      BY DEF PatientOK
    <3>1. Reached(c)' = 0 /\ Len(up'[c]) = 1
      BY <1>3, <2>2, <2>3
    <3>2. QED
      BY <2>1, <3>1 DEF PatientOK
  <2>4. QED
    BY <1>6, <2>1, <2>3
<1>8. CASE TryAck(c) /\ Head(down[c]).id = "SYNACK"
  <2>1. /\ client[c] = "KEY_SYNING" /\ client'[c] = "AUTHING" /\ SendUp(c, "AUTH", NoData)
        /\ down[c] # <<>>
    BY <1>2, <1>8 DEF TryAck
  <2>2. Reached(c) >= 1
    BY <1>2, <1>8, <2>1, ClientFacts DEF DownMsgs, DownRank
  <2>3. ASSUME ~Eager, Serving(c) PROVE Reached(c) = 1 /\ Len(up'[c]) = 1
    <3>1. Reached(c) = 1 /\ up[c] = <<>>
      BY <2>1, <2>2, <2>3 DEF SessionInv, SessionOK, PatientOK
    <3>2. up'[c] = Append(up[c], CSMsg("AUTH", seqno[c], NoData))
      BY <1>4, <2>1, <2>3
    <3>3. QED
      BY <1>2, <3>1, <3>2, AppendAt
  <2>4. ASSUME ~Eager PROVE PatientOK(c)'
    <3> SUFFICES ASSUME Serving(c)' PROVE PatientOK(c)'
      BY DEF PatientOK
    <3>1. Reached(c)' = 1 /\ Len(up'[c]) = 1
      BY <1>3, <2>3, <2>4
    <3>2. QED
      BY <2>1, <3>1 DEF PatientOK
  <2>5. QED
    BY <1>6, <2>1, <2>4
<1>9. CASE PushMessage(c)
  <2>1. /\ SendUp(c, "DATA", [conn |-> c, n |-> pushed[c] + 1])
        /\ client' = client /\ (~Eager => client[c] = "DONE")
    BY <1>9 DEF PushMessage, MayPush
  <2>2. ~Eager => Reached(c) = 3
    BY <1>2, <2>1 DEF ClientRank
  <2>3. ~Eager => PatientOK(c)'
    BY <1>3, <2>1, <2>2 DEF PatientOK, SessionInv, SessionOK
  <2>4. QED
    BY <1>6, <2>1, <2>3
<1>10. QED
  BY <1>5, <1>7, <1>8, <1>9

(***************************************************************************)
(* The steps of a client that send nothing.                                *)
(***************************************************************************)
LEMMA SessionsOfClients ==
    ASSUME SessionInv, NEW c \in Conns,
           TryReady(c) \/ TryDone(c) \/ PopMessage(c) \/ OnServerClose(c) \/ Terminate(c)
    PROVE  \A d \in Conns : SessionOK(d)'
<1>1. UNCHANGED <<pool, nid_seed, session, conn_fd, up, seqno, known>>
  BY DEF TryReady, TryDone, TryNext, PopMessage, OnServerClose, Terminate,
         poolVars, sessionVars, backVars
<1>2. \A d \in Conns : client'[d] \in {client[d], "READY", "DONE", "FAILED", "FINI"}
  BY DEF TryReady, TryDone, TryNext, PopMessage, OnServerClose, Terminate,
         SessionInv, PathInv, ClientOK
<1>3. QED
  BY <1>1, <1>2, AllSpared, SparedKeeps DEF SessionInv

(***************************************************************************)
(* A failed push takes a sequence number, which MayPushFail allows for.    *)
(***************************************************************************)
LEMMA SessionsPushFailed ==
    ASSUME SessionInv, NEW c \in Conns, PushMessageFailed(c)
    PROVE  \A d \in Conns : SessionOK(d)'
<1>1. /\ MayPushFail /\ UNCHANGED <<pool, nid_seed, session, conn_fd, up, known, client>>
  BY DEF PushMessageFailed, poolVars, sessionVars, backVars, linkVars
<1>2. \A d \in Conns : /\ Serving(d)' <=> Serving(d)
                       /\ Reached(d)' = Reached(d) /\ Session(d)' = Session(d)
  BY <1>1, NothingMoves DEF SessionInv, PathInv
<1>3. \A d \in Conns : PatientOK(d) => PatientOK(d)'
  BY <1>1, <1>2 DEF PatientOK, Started
<1>4. QED
  BY <1>1, <1>3 DEF SessionInv, SessionOK

-----------------------------------------------------------------------------
(***************************************************************************)
(* The connector takes the next message of a client, which is the next in  *)
(* sequence unless a push has failed.                                      *)
(***************************************************************************)
LEMMA HeadIsNext ==
    ASSUME PathInv, NEW c \in Conns, UpSideMessage(c), SeqOK(c)
    PROVE  /\ Head(up[c]).seq = seqno[c] - Len(up[c])
           /\ InSequence(Session(c), Head(up[c]))
<1>1. up[c] \in Seq(CSMsgs) /\ up[c] # <<>> /\ Serving(c) /\ seqno[c] \in Nat
  BY DEF PathInv, UpOK, CountOK, UpSideMessage
<1>2. Head(up[c]) = up[c][1] /\ Len(up[c]) \in Nat \ {0}
  BY <1>1, TailAt
<1>3. Head(up[c]).seq = seqno[c] - Len(up[c])
  <2>1. up[c][1].seq = seqno[c] - Len(up[c]) + 1 - 1
    BY <1>1, <1>2 DEF SeqOK
  <2>2. QED
    BY <1>1, <1>2, <2>1
<1>4. QED
  BY <1>1, <1>3 DEF SeqOK, InSequence

(***************************************************************************)
(* The connector takes the first message of c and sets its session.        *)
(***************************************************************************)
LEMMA MessageTaken ==
    ASSUME PathInv, NEW c \in Conns, UpSideMessage(c),
           NEW next \in {"INIT", "AUTH", "SYNACK", "OK"},
           SetSession(c, Head(up[c]), next),
           up' = [up EXCEPT ![c] = Tail(@)],
           UNCHANGED <<pool, nid_seed, conn_fd, seqno, client, known>>
    PROVE  /\ Serving(c) /\ Reached(c)' = RankOf(next) /\ Session(c)'.sid = Session(c).sid
           /\ up'[c] = Tail(up[c]) /\ Len(Tail(up[c])) = Len(up[c]) - 1
           /\ Len(up[c]) \in Nat \ {0} /\ Tail(up[c]) \in Seq(CSMsgs)
           /\ SeqOK(c) => SeqOK(c)'
           /\ \A d \in Conns : d # c => Spared(d)
<1>1. PICK s \in Sessions :
        /\ s = [state |-> next, sid |-> Session(c).sid, last_seq |-> Head(up[c]).seq]
        /\ session' = [session EXCEPT ![conn_fd[c]] = s]
  BY SetSessionEffect
<1>2. /\ Serving(c) /\ up \in [Conns -> Seq(CSMsgs)] /\ up[c] \in Seq(CSMsgs)
      /\ up[c] # <<>> /\ seqno[c] \in Nat
  BY DEF PathInv, UpOK, CountOK, UpSideMessage
<1>3. /\ up'[c] = Tail(up[c]) /\ Len(Tail(up[c])) = Len(up[c]) - 1
      /\ Len(up[c]) \in Nat \ {0} /\ Tail(up[c]) \in Seq(CSMsgs)
      /\ \A i \in 1 .. Len(up[c]) - 1 : Tail(up[c])[i] = up[c][i + 1]
  BY <1>2, TailAt
<1>4. Reached(c)' = RankOf(s.state) /\ Session(c)' = s
  BY <1>1, <1>2, SessionMoves DEF PathInv
<1>5. s.state = next /\ s.sid = Session(c).sid /\ s.last_seq = Head(up[c]).seq
  BY <1>1
<1>6. \A d \in Conns : d # c => Spared(d)
  <2>1. \A d \in Conns : d # c => up'[d] = up[d]
    BY <1>2
  <2>2. QED
    BY <1>1, <1>2, <2>1, OthersSpared
<1>7. ASSUME SeqOK(c) PROVE SeqOK(c)'
  <2>1. PICK n \in Nat \ {0}, q \in Nat : n = Len(up[c]) /\ q = seqno[c]
    BY <1>2, <1>3
  <2>2. Len(up'[c]) = n - 1 /\ seqno'[c] = q
    BY <1>3, <2>1
  <2>3. Session(c)'.last_seq = q - n
    BY <1>4, <1>5, <1>7, <2>1, HeadIsNext
  <2>4. ASSUME NEW i \in 1 .. n - 1 PROVE up'[c][i].seq = q - (n - 1) + i - 1
    <3>1. up'[c][i] = up[c][i + 1]
      BY <1>3, <2>1, <2>4
    <3>2. i + 1 \in 1 .. n
      BY <2>4
    <3>3. up[c][i + 1].seq = q - n + (i + 1) - 1
      BY <1>2, <1>7, <2>1, <3>2 DEF SeqOK
    <3>4. q - n + (i + 1) - 1 = q - (n - 1) + i - 1
      BY <2>4
    <3>5. QED
      BY <3>1, <3>3, <3>4
  <2>5. q - n + 1 = q - (n - 1)
    OBVIOUS
  <2>6. Session(c)'.last_seq + 1 = q - (n - 1)
    BY <2>3, <2>5
  <2>7. QED
    BY <2>2, <2>4, <2>6 DEF SeqOK
<1>8. QED
  BY <1>2, <1>3, <1>4, <1>5, <1>6, <1>7

(***************************************************************************)
(* A dropped message; the number of one in sequence is remembered.         *)
(***************************************************************************)
LEMMA SessionsRejected ==
    ASSUME SessionInv, NEW c \in Conns, UpSideRejected(c)
    PROVE  \A d \in Conns : SessionOK(d)'
<1>1. /\ PathInv /\ UpSideMessage(c) /\ Serving(c)
      /\ up' = [up EXCEPT ![c] = Tail(@)]
      /\ UNCHANGED <<pool, nid_seed, conn_fd, seqno, client, known>>
  BY DEF SessionInv, UpSideRejected, UpSideMessage, poolVars, backVars, clientVars
<1>2. CASE ~InSequence(Session(c), Head(up[c])) /\ UNCHANGED session
  <2>1. MayPushFail
    BY <1>1, <1>2, HeadIsNext DEF SessionInv, SessionOK
  <2>2. \A d \in Conns : /\ Serving(d)' <=> Serving(d)
                         /\ Reached(d)' = Reached(d) /\ Session(d)' = Session(d)
    BY <1>1, <1>2, NothingMoves DEF PathInv
  <2>3. up \in [Conns -> Seq(CSMsgs)] /\ up[c] \in Seq(CSMsgs) /\ up[c] # <<>>
    BY <1>1 DEF PathInv, UpOK, UpSideMessage
  <2>4. Len(up[c]) \in Nat \ {0} /\ Len(Tail(up[c])) = Len(up[c]) - 1 /\ up'[c] = Tail(up[c])
    BY <1>1, <2>3, TailAt
  <2>5. ASSUME ~Eager PROVE PatientOK(c)'
    <3>1. PatientOK(c) /\ Reached(c) \in 0 .. 3
      BY <1>1, <2>5, ClientFacts DEF SessionInv, SessionOK
    <3>2. Len(up[c]) <= 1 \/ Reached(c) = 3
      BY <1>1, <2>3, <3>1 DEF PatientOK
    <3>3. /\ client[c] = "TCP_SYNING" => FALSE
          /\ client[c] = "KEY_SYNING" => Reached(c) = 0
          /\ Reached(c) # 2
      BY <1>1, <2>3, <3>1 DEF PatientOK
    <3>4. Reached(c) <= 1 => Len(up'[c]) <= 1
      BY <2>4, <3>1, <3>2
    <3>5. Reached(c) = 3 => Started(c)' /\ Session(c)'.sid = SidFor(Nid(c))
      BY <1>1, <2>2, <3>1 DEF PatientOK, Started
    <3>6. QED
      BY <1>1, <2>2, <3>3, <3>4, <3>5 DEF PatientOK
  <2>6. ASSUME NEW d \in Conns, d # c PROVE SessionOK(d)'
    <3>1. Spared(d)
      BY <1>1, <2>2, <2>3, <2>6 DEF Spared
    <3>2. QED
      BY <3>1, SparedKeeps DEF SessionInv
  <2>7. QED
    BY <2>1, <2>5, <2>6 DEF SessionOK
<1>3. CASE Session(c).state = "OK" /\ SetSession(c, Head(up[c]), "OK")
  <2>1. /\ Reached(c)' = RankOf("OK") /\ Session(c)'.sid = Session(c).sid
        /\ SeqOK(c) => SeqOK(c)'
        /\ \A d \in Conns : d # c => Spared(d)
    BY <1>1, <1>3, MessageTaken
  <2>2. Reached(c)' = 3 /\ Reached(c) = 3
    BY <1>1, <1>3, <2>1 DEF Reached, RankOf
  <2>3. ClientRank(client[c]) <= 3
    BY DEF ClientRank
  <2>4. ASSUME ~Eager PROVE PatientOK(c)'
    <3>1. PatientOK(c)
      BY <2>4 DEF SessionInv, SessionOK
    <3>2. client[c] \notin {"TCP_SYNING", "KEY_SYNING"}
      BY <1>1, <2>2, <3>1 DEF PatientOK
    <3>3. Started(c)' /\ Session(c)'.sid = SidFor(Nid(c))
      BY <1>1, <2>1, <2>2, <3>1 DEF PatientOK, Started
    <3>4. QED
      BY <1>1, <2>2, <3>2, <3>3 DEF PatientOK
  <2>5. QED
    BY <2>1, <2>4, SparedKeeps DEF SessionInv, SessionOK
<1>4. QED
  BY <1>2, <1>3 DEF UpSideRejected

(***************************************************************************)
(* HandleKeyMaking and ClientStartsApp: the second is never reached by a   *)
(* client that waits.                                                      *)
(***************************************************************************)
LEMMA SessionsAnswered ==
    ASSUME SessionInv, NEW c \in Conns, HandleKeyMaking(c) \/ ClientStartsApp(c)
    PROVE  \A d \in Conns : SessionOK(d)'
<1>1. PICK here, id, next :
        /\ \/ here = "INIT" /\ id = "SYNACK" /\ next = "AUTH"
           \/ here = "SYNACK" /\ id = "START_APP" /\ next = "OK"
        /\ UpSideAnswered(c, here, id, next)
  BY DEF HandleKeyMaking, ClientStartsApp
<1>2. /\ PathInv /\ UpSideMessage(c) /\ Serving(c) /\ up[c] # <<>>
      /\ Session(c).state = here /\ SetSession(c, Head(up[c]), next)
      /\ up' = [up EXCEPT ![c] = Tail(@)]
      /\ UNCHANGED <<pool, nid_seed, conn_fd, seqno, client, known>>
  BY <1>1 DEF SessionInv, UpSideAnswered, UpSideMessage, poolVars, backVars, clientVars
<1>3. next \in {"INIT", "AUTH", "SYNACK", "OK"}
  BY <1>1
<1>4. /\ Reached(c)' = RankOf(next)
      /\ up'[c] = Tail(up[c]) /\ Len(Tail(up[c])) = Len(up[c]) - 1
      /\ Len(up[c]) \in Nat \ {0} /\ Tail(up[c]) \in Seq(CSMsgs)
      /\ SeqOK(c) => SeqOK(c)'
      /\ \A d \in Conns : d # c => Spared(d)
  BY <1>2, <1>3, MessageTaken
<1>5. ASSUME ~Eager PROVE PatientOK(c)'
  <2>1. PatientOK(c)
    BY <1>5 DEF SessionInv, SessionOK
  <2>2. CASE here = "SYNACK"
    <3>1. Reached(c) = 2
      BY <1>2, <2>2 DEF Reached, RankOf
    <3>2. QED
      BY <1>2, <2>1, <3>1 DEF PatientOK
  <2>3. CASE here = "INIT"
    <3>1. Reached(c) = 0 /\ Reached(c)' = 1
      BY <1>1, <1>2, <1>4, <2>3 DEF Reached, RankOf
    <3>2. client[c] # "TCP_SYNING" /\ Len(up[c]) <= 1
      BY <1>2, <2>1, <3>1 DEF PatientOK
    <3>3. Len(up'[c]) = 0 /\ up'[c] \in Seq(CSMsgs)
      <4>1. PICK n \in Nat \ {0} : n = Len(up[c])
        BY <1>4
      <4>2. n <= 1
        BY <3>2, <4>1
      <4>3. n - 1 = 0
        BY <4>2
      <4>4. QED
        BY <1>4, <4>1, <4>3
    <3>4. up'[c] = <<>>
      BY <3>3, EmptySeq
    <3>5. QED
      BY <1>2, <3>1, <3>2, <3>3, <3>4 DEF PatientOK
  <2>4. QED
    BY <1>1, <2>2, <2>3
<1>6. QED
  BY <1>4, <1>5, SparedKeeps DEF SessionInv, SessionOK

(***************************************************************************)
(* HandleAuthRequest: the session waits for the acknowledgement, or is     *)
(* closed.                                                                 *)
(***************************************************************************)
LEMMA SessionsAuthenticated ==
    ASSUME SessionInv, NEW c \in Conns, HandleAuthRequest(c)
    PROVE  \A d \in Conns : SessionOK(d)'
<1>1. /\ PathInv /\ UpSideMessage(c) /\ Serving(c) /\ up[c] # <<>>
      /\ Session(c).state = "AUTH" /\ Reached(c) = 1
      /\ UNCHANGED <<nid_seed, conn_fd, seqno, client, known>>
  BY DEF SessionInv, HandleAuthRequest, DestroyFrontEnd, RemoveHandlerByEvent, UpSideMessage,
         Reached, RankOf, poolVars, clientVars
<1>2. CASE ~CanSend(PickBackEnd) /\ DestroyFrontEnd(c)
  <2>1. pool' = [pool EXCEPT ![conn_fd[c]] = NoNet] /\ DeleteSession(c)
    BY <1>2 DEF DestroyFrontEnd, RemoveHandlerByEvent
  <2>2. QED
    BY <1>1, <2>1, CloseSpares, SparedKeeps DEF SessionInv
<1>3. CASE /\ CanSend(PickBackEnd)
           /\ SendDown(c, "PASSPORT", NoData)
           /\ SetSession(c, Head(up[c]), "SYNACK")
           /\ up' = [up EXCEPT ![c] = Tail(@)]
           /\ UNCHANGED <<poolVars, freed_access>>
  <2>1. UNCHANGED pool
    BY <1>3 DEF poolVars
  <2>2. /\ Reached(c)' = RankOf("SYNACK")
        /\ up'[c] = Tail(up[c]) /\ Len(Tail(up[c])) = Len(up[c]) - 1
        /\ Len(up[c]) \in Nat \ {0} /\ Tail(up[c]) \in Seq(CSMsgs)
        /\ SeqOK(c) => SeqOK(c)'
        /\ \A d \in Conns : d # c => Spared(d)
    BY <1>1, <1>3, <2>1, MessageTaken
  <2>3. Reached(c)' = 2
    BY <2>2 DEF RankOf
  <2>4. ASSUME ~Eager PROVE PatientOK(c)'
    <3>1. PatientOK(c)
      BY <2>4 DEF SessionInv, SessionOK
    <3>2. client[c] \notin {"TCP_SYNING", "KEY_SYNING"} /\ Len(up[c]) <= 1
      BY <1>1, <3>1 DEF PatientOK
    <3>3. Len(up'[c]) = 0 /\ up'[c] \in Seq(CSMsgs)
      <4>1. PICK n \in Nat \ {0} : n = Len(up[c])
        BY <2>2
      <4>2. n <= 1
        BY <3>2, <4>1
      <4>3. n - 1 = 0
        BY <4>2
      <4>4. QED
        BY <2>2, <4>1, <4>3
    <3>4. up'[c] = <<>>
      BY <3>3, EmptySeq
    <3>5. QED
      BY <1>1, <2>3, <3>2, <3>4 DEF PatientOK
  <2>5. QED
    BY <2>2, <2>4, SparedKeeps DEF SessionInv, SessionOK
<1>4. QED
  BY <1>2, <1>3 DEF HandleAuthRequest

(***************************************************************************)
(* Data of a client whose session is ready.                                *)
(***************************************************************************)
LEMMA SessionsForward ==
    ASSUME SessionInv, NEW c \in Conns, ForwardUpSideMessage(c)
    PROVE  \A d \in Conns : SessionOK(d)'
<1>1. /\ PathInv /\ UpSideMessage(c) /\ Serving(c) /\ Reached(c) = 3
      /\ SetSession(c, Head(up[c]), "OK")
      /\ up' = [up EXCEPT ![c] = Tail(@)]
      /\ UNCHANGED <<pool, nid_seed, conn_fd, seqno, client, known>>
  BY DEF SessionInv, ForwardUpSideMessage, UpSideMessage, Reached, RankOf, poolVars, clientVars
<1>2. /\ Reached(c)' = RankOf("OK") /\ Session(c)'.sid = Session(c).sid
      /\ SeqOK(c) => SeqOK(c)'
      /\ \A d \in Conns : d # c => Spared(d)
  BY <1>1, MessageTaken
<1>3. Reached(c)' = 3
  BY <1>2 DEF RankOf
<1>4. ASSUME ~Eager PROVE PatientOK(c)'
  <2>1. PatientOK(c)
    BY <1>4 DEF SessionInv, SessionOK
  <2>2. client[c] \notin {"TCP_SYNING", "KEY_SYNING"}
    BY <1>1, <2>1 DEF PatientOK
  <2>3. Started(c)' /\ Session(c)'.sid = SidFor(Nid(c))
    BY <1>1, <1>2, <2>1 DEF PatientOK, Started
  <2>4. QED
    BY <1>1, <1>3, <2>2, <2>3 DEF PatientOK
<1>5. QED
  BY <1>2, <1>4, SparedKeeps DEF SessionInv, SessionOK

(***************************************************************************)
(* The connection ends, whoever ends it.                                   *)
(***************************************************************************)
LEMMA SessionsClose ==
    ASSUME SessionInv, NEW c \in Conns, OnFrontEndClose(c) \/ CloseIdle(c)
    PROVE  \A d \in Conns : SessionOK(d)'
<1>1. /\ Serving(c) /\ pool' = [pool EXCEPT ![conn_fd[c]] = NoNet]
      /\ DeleteSession(c) /\ UNCHANGED nid_seed
  BY CloseIdleEffect DEF SessionInv, OnFrontEndClose, DestroyFrontEnd, RemoveHandlerByEvent
<1>2. UNCHANGED <<conn_fd, client, seqno, known>>
  BY DEF OnFrontEndClose, CloseIdle, backVars, clientVars
<1>3. QED
  BY <1>1, <1>2, CloseSpares, SparedKeeps DEF SessionInv

(***************************************************************************)
(* A message of a back end closes a connection.                            *)
(***************************************************************************)
LEMMA SessionsClosedByBackEnd ==
    ASSUME SessionInv, NEW b \in BackEnds, HandShake_OnStopNotify(b) \/ DownSideRefused(b)
    PROVE  \A d \in Conns : SessionOK(d)'
<1>1. PICK msg : msg = Head(from_back[b])
  OBVIOUS
<1>2. /\ from_back[b] # <<>> /\ Found(msg) /\ DestroyFrontEnd(FrontNet(msg))
      /\ UNCHANGED <<conn_fd, client, seqno, known>>
  BY <1>1 DEF HandShake_OnStopNotify, DownSideRefused, DownSideMessage, clientVars
<1>3. PICK c \in Conns : c = FrontNet(msg) /\ Serving(c)
  BY <1>1, <1>2, FromHead DEF SessionInv
<1>4. pool' = [pool EXCEPT ![conn_fd[c]] = NoNet] /\ DeleteSession(c) /\ UNCHANGED nid_seed
  BY <1>2, <1>3 DEF DestroyFrontEnd, RemoveHandlerByEvent
<1>5. QED
  BY <1>2, <1>3, <1>4, CloseSpares, SparedKeeps DEF SessionInv

-----------------------------------------------------------------------------
(***************************************************************************)
(* The back ends: the first answer makes the session ready, with the       *)
(* session id of the back end that has answered.                           *)
(***************************************************************************)
LEMMA SessionsAcked ==
    ASSUME SessionInv, NEW b \in BackEnds, HandShake_OnStartAcked(b)
    PROVE  \A d \in Conns : SessionOK(d)'
<1>1. PICK msg : msg = Head(from_back[b])
  OBVIOUS
<1>2. /\ PathInv /\ from_back[b] # <<>>
      /\ Found(msg) /\ msg.id \in {"ACK", "FIN"} /\ session[msg.fd].state = "SYNACK"
      /\ session' = [session EXCEPT ![msg.fd].state = "OK", ![msg.fd].sid = msg.sid]
      /\ UNCHANGED <<pool, nid_seed, conn_fd, known, client, seqno, up>>
  BY <1>1 DEF SessionInv, HandShake_OnStartAcked, DownSideMessage, poolVars, clientVars
<1>3. PICK c \in Conns :
        /\ c = FrontNet(msg) /\ Serving(c) /\ conn_fd[c] = msg.fd /\ Nid(c) = msg.nid
        /\ Reached(c) = RankOf(session[msg.fd].state)
        /\ msg.sid = SidFor(msg.nid) /\ msg.sid \in Nat
  BY <1>1, <1>2, FromHead
<1>4. msg \in FromMsgs
  BY <1>1, <1>2, FromHead
<1>5. Started(c)
  <2>1. PICK d \in Conns : Names(msg, d) /\ (Reached(d) >= 3 \/ StartHandled(msg))
    BY <1>2, <1>4 DEF FromMsgs
  <2>2. d = c /\ Reached(c) = 2
    BY <1>2, <1>3, <2>1, ConnNumbers DEF Names, RankOf
  <2>3. QED
    BY <1>3, <2>1, <2>2 DEF StartHandled, Started
<1>6. PICK s \in Sessions :
        /\ s.state = "OK" /\ s.sid = msg.sid /\ s.last_seq = Session(c).last_seq
        /\ session' = [session EXCEPT ![conn_fd[c]] = s]
  <2>1. session \in [Fds -> Sessions] /\ conn_fd[c] \in Fds
    BY <1>2, <1>3, ServingFacts DEF PathInv, PoolOK
  <2>2. PICK f \in Fds : f = conn_fd[c]
    BY <2>1
  <2>3. PICK o \in Sessions : o = session[f]
    BY <2>1
  <2>4. PICK t : t = [o EXCEPT !.state = "OK", !.sid = msg.sid]
    OBVIOUS
  <2>5. t \in Sessions /\ t.state = "OK" /\ t.sid = msg.sid /\ t.last_seq = o.last_seq
    BY <1>3, <2>4 DEF Sessions
  <2>6. session' = [session EXCEPT ![f] = [session[f] EXCEPT !.state = "OK", !.sid = msg.sid]]
    BY <1>2, <1>3, <2>1, <2>2
  <2>7. QED
    BY <2>2, <2>3, <2>4, <2>5, <2>6 DEF Session
<1>7. /\ Serving(c)' /\ Reached(c)' = RankOf(s.state) /\ Session(c)' = s
  BY <1>2, <1>3, <1>6, SessionMoves DEF PathInv
<1>8. Reached(c)' = 3 /\ Reached(c) = 2
  BY <1>2, <1>3, <1>6, <1>7 DEF RankOf
<1>9. ASSUME ~Eager PROVE PatientOK(c)'
  <2>1. PatientOK(c)
    BY <1>9 DEF SessionInv, SessionOK
  <2>2. client[c] \notin {"TCP_SYNING", "KEY_SYNING"}
    BY <1>3, <1>8, <2>1 DEF PatientOK
  <2>3. Started(c)' /\ Session(c)'.sid = SidFor(Nid(c))
    BY <1>2, <1>3, <1>5, <1>6, <1>7 DEF Started
  <2>4. QED
    BY <1>2, <1>8, <2>2, <2>3 DEF PatientOK
<1>10. SeqOK(c) => SeqOK(c)'
  BY <1>2, <1>3, <1>6, <1>7 DEF SeqOK
<1>11. \A d \in Conns : d # c => Spared(d)
  BY <1>2, <1>3, <1>6, OthersSpared
<1>12. QED
  BY <1>9, <1>10, <1>11, SparedKeeps DEF SessionInv, SessionOK

(***************************************************************************)
(* The steps of the back ends that touch no session.                       *)
(***************************************************************************)
LEMMA SessionsElsewhere ==
    ASSUME SessionInv,
           \/ \E b \in BackEnds : \/ DownSideIgnored(b) \/ ForwardDownSideMessage(b)
                                  \/ OnBackEndConnected(b) \/ OnBackEndRefused(b)
                                  \/ OnBackEndLost(b) \/ Crash(b)
           \/ \E b \in BackEnds : Dispatch(b) \/ DispatchStops(b)
           \/ \E b \in BackEnds, k \in known : StopConn(b, k)
    PROVE  \A d \in Conns : SessionOK(d)'
<1>1. /\ UNCHANGED <<pool, nid_seed, session, conn_fd, up, seqno, client>>
      /\ known \subseteq known'
  <2>1. ASSUME NEW b \in BackEnds, DownSideIgnored(b) \/ ForwardDownSideMessage(b)
        PROVE  UNCHANGED <<pool, nid_seed, session, conn_fd, up, seqno, client, known>>
    BY <2>1 DEF DownSideIgnored, ForwardDownSideMessage, DownSideMessage, poolVars, clientVars
  <2>2. ASSUME NEW b \in BackEnds,
               OnBackEndConnected(b) \/ OnBackEndRefused(b) \/ OnBackEndLost(b) \/ Crash(b)
        PROVE  UNCHANGED <<pool, nid_seed, session, conn_fd, up, seqno, client, known>>
    BY <2>2 DEF OnBackEndConnected, OnBackEndRefused, OnBackEndLost, Crash, BackNetEvent,
                poolVars, sessionVars, clientVars, linkVars
  <2>3. ASSUME NEW b \in BackEnds, Dispatch(b) \/ DispatchStops(b)
        PROVE  /\ UNCHANGED <<pool, nid_seed, session, conn_fd, up, seqno, client>>
               /\ known \subseteq known'
    BY <2>3 DEF Dispatch, DispatchStops, Knows, poolVars, sessionVars, clientVars, linkVars
  <2>4. ASSUME NEW b \in BackEnds, NEW k \in known, StopConn(b, k)
        PROVE  UNCHANGED <<pool, nid_seed, session, conn_fd, up, seqno, client, known>>
    BY <2>4 DEF StopConn, poolVars, sessionVars, clientVars, linkVars
  <2>5. QED
    BY <2>1, <2>2, <2>3, <2>4
<1>2. QED
  BY <1>1, AllSpared, SparedKeeps DEF SessionInv

(***************************************************************************)
(* A walk that closes nothing, and a stuttering step.                      *)
(***************************************************************************)
LEMMA SessionsQuiet ==
    ASSUME SessionInv, CloseNone \/ UNCHANGED vars
    PROVE  \A d \in Conns : SessionOK(d)'
<1>1. UNCHANGED <<nid_seed, session, conn_fd, known, client, seqno, up>>
  BY DEF CloseNone, WalkThrough, vars, poolVars, sessionVars, backVars, clientVars, linkVars
<1>2. UNCHANGED pool
  BY CloseNoneEffect DEF SessionInv, vars, poolVars
<1>3. QED
  BY <1>1, <1>2, AllSpared, SparedKeeps DEF SessionInv

-----------------------------------------------------------------------------
(***************************************************************************)
(* SessionInv holds at the start and every step preserves it.              *)
(***************************************************************************)
LEMMA SessionInit == Init => SessionInv
<1> SUFFICES ASSUME Init PROVE SessionInv
  OBVIOUS
<1>1. \A c \in Conns : ~Serving(c)
  BY DEF Init, Serving
<1>2. QED
  BY <1>1, PathInit DEF SessionInv, SessionOK, PatientOK, SeqOK

(***************************************************************************)
(* Every step keeps SessionInv.                                            *)
(***************************************************************************)
LEMMA SessionStep == SessionInv /\ [Next]_vars => SessionInv'
<1> SUFFICES ASSUME SessionInv, [Next]_vars PROVE \A d \in Conns : SessionOK(d)'
  BY PathStep DEF SessionInv
<1>1. ASSUME NEW fd \in Fds, ClientConnect(fd) PROVE \A d \in Conns : SessionOK(d)'
  BY <1>1, SessionsConnect
<1>2. ASSUME NEW c \in Conns, ClientStep(c) PROVE \A d \in Conns : SessionOK(d)'
  BY <1>2, SessionsSend, SessionsOfClients DEF ClientStep
<1>3. ASSUME NEW c \in Conns, PushMessage(c) \/ PushMessageFailed(c) \/ Terminate(c)
      PROVE  \A d \in Conns : SessionOK(d)'
  BY <1>3, SessionsSend, SessionsPushFailed, SessionsOfClients
<1>4. ASSUME NEW c \in Conns, FrontStep(c) \/ CloseIdle(c)
      PROVE  \A d \in Conns : SessionOK(d)'
  BY <1>4, SessionsRejected, SessionsAnswered, SessionsAuthenticated, SessionsForward,
     SessionsClose DEF FrontStep
<1>5. ASSUME NEW b \in BackEnds, \/ BackStep(b) \/ OnBackEndRefused(b) \/ Crash(b)
                              \/ Dispatch(b) \/ DispatchStops(b)
      PROVE  \A d \in Conns : SessionOK(d)'
  BY <1>5, SessionsAcked, SessionsClosedByBackEnd, SessionsElsewhere DEF BackStep
<1>6. ASSUME NEW b \in BackEnds, NEW k \in known, StopConn(b, k)
      PROVE  \A d \in Conns : SessionOK(d)'
  BY <1>6, SessionsElsewhere
<1>7. CASE CloseNone \/ UNCHANGED vars
  BY <1>7, SessionsQuiet
<1>8. QED
  BY <1>1, <1>2, <1>3, <1>4, <1>5, <1>6, <1>7 DEF Next

(***************************************************************************)
(* SessionInv is an invariant.                                             *)
(***************************************************************************)
LEMMA SessionInvariant == Spec => []SessionInv
BY SessionInit, SessionStep, PTL DEF Spec

(***************************************************************************)
(* If clients wait for OnHandShakeSucceed, a session is ready only after a *)
(* back end has handled its start and answered, by ACK or by the FIN of a  *)
(* refusal, and has the session id of that answer.                         *)
(***************************************************************************)
THEOREM SessionsAreAnswered ==
    ASSUME ~Eager PROVE Spec => []ReadyAfterAnswer
<1>1. SessionInv => ReadyAfterAnswer
  <2> SUFFICES ASSUME SessionInv, NEW c \in Conns, Serving(c), Session(c).state = "OK"
               PROVE  Started(c) /\ Session(c).sid = SidFor(Nid(c))
    BY DEF ReadyAfterAnswer, Started
  <2>1. Reached(c) = 3
    BY DEF Reached, RankOf
  <2>2. QED
    BY <2>1 DEF SessionInv, SessionOK, PatientOK
<1>2. QED
  BY SessionInvariant, <1>1, PTL

(***************************************************************************)
(* Unless the send queue of a client was full, every message passes the    *)
(* sequence check of the connector when its turn comes.                    *)
(***************************************************************************)
THEOREM NumbersAreInSequence ==
    ASSUME ~MayPushFail PROVE Spec => []SentIsInSequence
<1>1. SessionInv => SentIsInSequence
  <2> SUFFICES ASSUME SessionInv, NEW c \in Conns, Serving(c), up[c] # <<>>
               PROVE  InSequence(Session(c), Head(up[c]))
    BY DEF SentIsInSequence
  <2>1. QED
    BY HeadIsNext DEF SessionInv, SessionOK, UpSideMessage
<1>2. QED
  BY SessionInvariant, <1>1, PTL

(***************************************************************************)
(* Which connections a step can close.  First the steps that close none.   *)
(***************************************************************************)
LEMMA NoneClosed ==
    ASSUME PathInv, NEW c \in Conns, Serving(c),
           \/ \E fd \in Fds : ClientConnect(fd)
           \/ \E d \in Conns : \/ ClientStep(d) \/ PushMessage(d) \/ PushMessageFailed(d)
                               \/ Terminate(d) \/ UpSideRejected(d) \/ HandleKeyMaking(d)
                               \/ ClientStartsApp(d) \/ ForwardUpSideMessage(d)
           \/ \E b \in BackEnds : \/ DownSideIgnored(b) \/ HandShake_OnStartAcked(b)
                                  \/ ForwardDownSideMessage(b) \/ OnBackEndConnected(b)
                                  \/ OnBackEndRefused(b) \/ OnBackEndLost(b)
                                  \/ Crash(b) \/ Dispatch(b) \/ DispatchStops(b)
           \/ \E b \in BackEnds, k \in known : StopConn(b, k)
           \/ CloseNone \/ UNCHANGED vars
    PROVE  Serving(c)'
<1>1. ASSUME UNCHANGED <<pool, conn_fd>> PROVE Serving(c)'
  BY <1>1 DEF Serving
<1>2. ASSUME NEW fd \in Fds, ClientConnect(fd) PROVE Serving(c)'
  <2>1. PICK n : n = ConnOf(nid_seed)
    OBVIOUS
  <2>2. /\ pool[fd] = NoNet /\ nid_seed < MaxNid
        /\ pool' = [pool EXCEPT ![fd] = nid_seed] /\ nid_seed' = nid_seed + 1
        /\ session' = [session EXCEPT ![fd] = NewSession]
        /\ conn_fd' = [conn_fd EXCEPT ![n] = fd]
    BY <1>2, <2>1 DEF ClientConnect, OnFrontEndConnect, AddHandlerBySocket
  <2>3. /\ ~Begun(n)
        /\ \A d \in Conns : d # n => (Serving(d)' <=> Serving(d))
    BY <2>1, <2>2, ConnectionComes DEF PathInv
  <2>4. Begun(c)
    BY ServingFacts DEF PathInv
  <2>5. QED
    BY <2>3, <2>4
<1>3. ASSUME NEW d \in Conns,
             ClientStep(d) \/ PushMessage(d) \/ PushMessageFailed(d) \/ Terminate(d)
      PROVE  UNCHANGED <<pool, conn_fd>>
  BY <1>3 DEF ClientStep, HandShake_SYN, TryAck, TryReady, TryDone, TryNext, PopMessage,
              OnServerClose, PushMessage, PushMessageFailed, Terminate, poolVars, linkVars
<1>4. ASSUME NEW d \in Conns,
             \/ UpSideRejected(d) \/ HandleKeyMaking(d) \/ ClientStartsApp(d)
             \/ ForwardUpSideMessage(d)
      PROVE  UNCHANGED <<pool, conn_fd>>
  BY <1>4 DEF UpSideRejected, HandleKeyMaking, ClientStartsApp, UpSideAnswered,
              ForwardUpSideMessage, poolVars
<1>5. ASSUME NEW b \in BackEnds,
             \/ DownSideIgnored(b) \/ HandShake_OnStartAcked(b) \/ ForwardDownSideMessage(b)
             \/ OnBackEndConnected(b) \/ OnBackEndRefused(b) \/ OnBackEndLost(b)
             \/ Crash(b) \/ Dispatch(b) \/ DispatchStops(b)
      PROVE  UNCHANGED <<pool, conn_fd>>
  BY <1>5 DEF DownSideIgnored, HandShake_OnStartAcked, ForwardDownSideMessage, DownSideMessage,
              OnBackEndConnected, OnBackEndRefused, OnBackEndLost, BackNetEvent, Crash, Dispatch,
              DispatchStops, poolVars, linkVars
<1>6. ASSUME NEW b \in BackEnds, NEW k \in known, StopConn(b, k)
      PROVE  UNCHANGED <<pool, conn_fd>>
  BY <1>6 DEF StopConn, poolVars, linkVars
<1>7. CASE CloseNone \/ UNCHANGED vars
  BY <1>1, <1>7, CloseNoneEffect DEF CloseNone, vars, poolVars, linkVars
<1>8. QED
  BY <1>1, <1>2, <1>3, <1>4, <1>5, <1>6, <1>7

(***************************************************************************)
(* A close of d closes no other connection.                                *)
(***************************************************************************)
LEMMA OnlyThatOne ==
    ASSUME PathInv, NEW c \in Conns, NEW d \in Conns, Serving(c), ~Serving(c)', Serving(d),
           pool' = [pool EXCEPT ![conn_fd[d]] = NoNet], UNCHANGED conn_fd
    PROVE  c = d
BY ServingFacts DEF PathInv, PoolOK, Serving

(***************************************************************************)
(* DATA that finds its session is never refused (OnRecvBackEnd): the       *)
(* session is ready and its id is the one the message carries, unless a    *)
(* client that does not wait has made it ready before the back end could   *)
(* assign the id.                                                          *)
(***************************************************************************)
LEMMA NeverRefused ==
    ASSUME ~Eager \/ ~Stateful \/ DebugBuild, SessionInv, NEW b \in BackEnds
    PROVE  ~DownSideRefused(b)
<1> SUFFICES ASSUME DownSideRefused(b) PROVE FALSE
  OBVIOUS
<1>1. PICK msg : msg = Head(from_back[b])
  OBVIOUS
<1>2. from_back[b] # <<>> /\ Found(msg) /\ msg.id = "DATA" /\ ~Acceptable(msg)
  BY <1>1 DEF DownSideRefused, DownSideMessage
<1>3. PICK c \in Conns :
        /\ Serving(c) /\ conn_fd[c] = msg.fd /\ Nid(c) = msg.nid
        /\ Reached(c) = RankOf(session[msg.fd].state) /\ Reached(c) >= 3
        /\ msg.sid = SidFor(msg.nid)
  BY <1>1, <1>2, FromHead DEF SessionInv
<1>4. session[msg.fd] \in Sessions /\ Session(c) = session[msg.fd]
  BY <1>3, ServingFacts DEF SessionInv, PathInv, PoolOK, Session
<1>5. session[msg.fd].state = "OK" /\ Reached(c) = 3
  BY <1>3, <1>4 DEF RankOf, Sessions
<1>6. CASE ~Eager
  <2>1. session[msg.fd].sid = SidFor(Nid(c))
    BY <1>3, <1>4, <1>5, <1>6 DEF SessionInv, SessionOK, PatientOK
  <2>2. QED
    BY <1>2, <1>3, <1>5, <2>1 DEF Acceptable
<1>7. CASE ~Stateful
  <2>1. msg.fd \in Fds
    BY <1>3, ServingFacts DEF SessionInv, PathInv
  <2>2. session[msg.fd].sid = NoSid /\ msg.sid = NoSid
    BY <1>3, <1>7, <2>1 DEF SessionInv, PathInv, SidOK, SidFor
  <2>3. QED
    BY <1>2, <1>5, <2>2 DEF Acceptable
<1>8. CASE DebugBuild
  BY <1>2, <1>8 DEF Acceptable
<1>9. QED
  BY <1>6, <1>7, <1>8

(***************************************************************************)
(* The connector closes a connection only for one of the reasons           *)
(* ClosedForAReason names, if clients wait for OnHandShakeSucceed, or back *)
(* ends assign no session ids, as the demo does, or the build is one that  *)
(* does not compare them.                                                  *)
(***************************************************************************)
THEOREM ConnectionsCloseForAReason ==
    ASSUME ~Eager \/ ~Stateful \/ DebugBuild PROVE Spec => ClosedForAReason
<1>1. SessionInv /\ [Next]_vars =>
        [\A c \in Conns : Serving(c) /\ ~Serving(c)' =>
         \/ ~ClientOpen(c)
         \/ MayIdle
         \/ Session(c).state = "AUTH" /\ ~CanSend(PickBackEnd)
         \/ \E b \in BackEnds :
               /\ from_back[b] # <<>> /\ from_back'[b] = Tail(from_back[b])
               /\ Head(from_back[b]).id = "FIN" /\ Head(from_back[b]).nid = Nid(c)]_vars
  <2> SUFFICES ASSUME SessionInv, [Next]_vars, NEW c \in Conns, Serving(c), ~Serving(c)'
               PROVE  \/ ~ClientOpen(c)
                      \/ MayIdle
                      \/ Session(c).state = "AUTH" /\ ~CanSend(PickBackEnd)
                      \/ \E b \in BackEnds :
                            /\ from_back[b] # <<>> /\ from_back'[b] = Tail(from_back[b])
                            /\ Head(from_back[b]).id = "FIN" /\ Head(from_back[b]).nid = Nid(c)
    OBVIOUS
  <2>1. PathInv
    BY DEF SessionInv
  <2>2. ASSUME NEW d \in Conns, HandleAuthRequest(d)
        PROVE  Session(c).state = "AUTH" /\ ~CanSend(PickBackEnd)
    <3>1. Serving(d) /\ Session(d).state = "AUTH" /\ UNCHANGED conn_fd
      BY <2>2 DEF HandleAuthRequest, UpSideMessage
    <3>2. CASE UNCHANGED pool
      BY <3>1, <3>2 DEF Serving
    <3>3. CASE ~CanSend(PickBackEnd) /\ DestroyFrontEnd(d)
      <4>1. c = d
        BY <2>1, <3>1, <3>3, OnlyThatOne DEF DestroyFrontEnd, RemoveHandlerByEvent
      <4>2. QED
        BY <3>1, <3>3, <4>1
    <3>4. QED
      BY <2>2, <3>2, <3>3 DEF HandleAuthRequest, poolVars
  <2>3. ASSUME NEW d \in Conns, OnFrontEndClose(d) PROVE ~ClientOpen(c)
    <3>1. Serving(d) /\ ~ClientOpen(d) /\ UNCHANGED conn_fd
      BY <2>3 DEF OnFrontEndClose
    <3>2. c = d
      BY <2>1, <2>3, <3>1, OnlyThatOne DEF OnFrontEndClose, DestroyFrontEnd, RemoveHandlerByEvent
    <3>3. QED
      BY <3>1, <3>2
  <2>4. ASSUME NEW d \in Conns, CloseIdle(d) PROVE MayIdle
    BY <2>4 DEF CloseIdle
  <2>5. ASSUME NEW b \in BackEnds, HandShake_OnStopNotify(b)
        PROVE  /\ from_back[b] # <<>> /\ from_back'[b] = Tail(from_back[b])
               /\ Head(from_back[b]).id = "FIN" /\ Head(from_back[b]).nid = Nid(c)
    <3>1. PICK msg : msg = Head(from_back[b])
      OBVIOUS
    <3>2. /\ from_back[b] # <<>> /\ from_back' = [from_back EXCEPT ![b] = Tail(@)]
          /\ Found(msg) /\ msg.id = "FIN" /\ DestroyFrontEnd(FrontNet(msg)) /\ UNCHANGED conn_fd
      BY <2>5, <3>1 DEF HandShake_OnStopNotify, DownSideMessage
    <3>3. PICK d \in Conns : d = FrontNet(msg) /\ Serving(d) /\ Nid(d) = msg.nid
      BY <2>1, <3>1, <3>2, FromHead
    <3>4. c = d
      BY <2>1, <3>2, <3>3, OnlyThatOne DEF DestroyFrontEnd, RemoveHandlerByEvent
    <3>5. from_back'[b] = Tail(from_back[b])
      BY <2>1, <3>2 DEF PathInv, FromOK
    <3>6. QED
      BY <3>1, <3>2, <3>3, <3>4, <3>5
  <2>6. ASSUME NEW b \in BackEnds, DownSideRefused(b) PROVE FALSE
    BY <2>6, NeverRefused
  <2>7. QED
    BY <2>1, <2>2, <2>3, <2>4, <2>5, <2>6, NoneClosed DEF Next, FrontStep, BackStep
<1>2. QED
  BY SessionInvariant, <1>1, PTL DEF Spec, ClosedForAReason

-----------------------------------------------------------------------------
(***************************************************************************)
(* The places between a client's PushMessage and its PopMessage where data *)
(* can be: two queues per connection, two per back end, and what the       *)
(* client has taken.                                                       *)
(***************************************************************************)
Hops == [at : {"up", "down", "got"}, back : {0}] \cup [at : {"to", "from"}, back : BackEnds]

Carries(q, p) == \E i \in 1 .. Len(q) : q[i].data = p

Holds(h, p) ==
    \/ h.at = "up" /\ Carries(up[p.conn], p)
    \/ h.at = "down" /\ Carries(down[p.conn], p)
    \/ h.at = "got" /\ \E i \in 1 .. Len(got[p.conn]) : got[p.conn][i] = p
    \/ h.at = "to" /\ Carries(to_back[h.back], p)
    \/ h.at = "from" /\ Carries(from_back[h.back], p)

(***************************************************************************)
(* No queue carries the same data twice, and no data is in two places.     *)
(***************************************************************************)
NoRepeat(q) ==
    \A i, j \in 1 .. Len(q) : q[i].data \in Payload /\ q[i].data = q[j].data => i = j

OnePlace == \A p \in Payload : \A g, h \in Hops : Holds(g, p) /\ Holds(h, p) => g = h

UniqueInv ==
    /\ PathInv /\ OnePlace
    /\ \A c \in Conns : NoRepeat(up[c]) /\ NoRepeat(down[c])
    /\ \A b \in BackEnds : NoRepeat(to_back[b]) /\ NoRepeat(from_back[b])

(***************************************************************************)
(* Queues: what is carried, and not carried any more, after a change.      *)
(***************************************************************************)
LEMMA CarriesTail ==
    ASSUME NEW S, NEW q \in Seq(S), q # <<>>, NoRepeat(q)
    PROVE  /\ NoRepeat(Tail(q))
           /\ \A p : Carries(Tail(q), p) => Carries(q, p)
           /\ \A p \in Payload : Head(q).data = p => ~Carries(Tail(q), p)
<1>1. PICK n \in Nat \ {0} : n = Len(q)
  BY TailAt
<1>2. /\ Len(Tail(q)) = n - 1 /\ Head(q) = q[1]
      /\ \A i \in 1 .. n - 1 : Tail(q)[i] = q[i + 1]
  BY <1>1, TailAt
<1>3. \A i \in 1 .. n - 1 : i + 1 \in 1 .. n
  OBVIOUS
<1>4. NoRepeat(Tail(q))
  <2> SUFFICES ASSUME NEW i \in 1 .. n - 1, NEW j \in 1 .. n - 1,
                      Tail(q)[i].data \in Payload, Tail(q)[i].data = Tail(q)[j].data
               PROVE  i = j
    BY <1>2 DEF NoRepeat
  <2>1. i + 1 = j + 1
    BY <1>1, <1>2, <1>3 DEF NoRepeat
  <2>2. QED
    BY <2>1
<1>5. ASSUME NEW p, Carries(Tail(q), p) PROVE Carries(q, p)
  <2>1. PICK i \in 1 .. n - 1 : Tail(q)[i].data = p
    BY <1>2, <1>5 DEF Carries
  <2>2. QED
    BY <1>1, <1>2, <1>3, <2>1 DEF Carries
<1>6. ASSUME NEW p \in Payload, Head(q).data = p, Carries(Tail(q), p) PROVE FALSE
  <2>1. PICK i \in 1 .. n - 1 : Tail(q)[i].data = p
    BY <1>2, <1>6 DEF Carries
  <2>2. q[i + 1].data = p /\ i + 1 \in 1 .. n
    BY <1>2, <1>3, <2>1
  <2>3. q[1].data = p /\ 1 \in 1 .. n
    BY <1>2, <1>6
  <2>4. i + 1 = 1
    BY <1>1, <2>2, <2>3 DEF NoRepeat
  <2>5. QED
    BY <2>4
<1>7. QED
  BY <1>4, <1>5, <1>6

(***************************************************************************)
(* A message that brings new data, or none, repeats nothing.               *)
(***************************************************************************)
LEMMA CarriesAppend ==
    ASSUME NEW S, NEW q \in Seq(S), NEW m, NoRepeat(q),
           m.data \in Payload => ~Carries(q, m.data)
    PROVE  /\ NoRepeat(Append(q, m))
           /\ \A p : Carries(Append(q, m), p) => Carries(q, p) \/ p = m.data
<1>1. PICK n \in Nat : n = Len(q)
  OBVIOUS
<1>2. /\ Len(Append(q, m)) = n + 1 /\ Append(q, m)[n + 1] = m
      /\ \A i \in 1 .. n : Append(q, m)[i] = q[i]
  BY <1>1, AppendAt
<1>3. NoRepeat(Append(q, m))
  <2> SUFFICES ASSUME NEW i \in 1 .. n + 1, NEW j \in 1 .. n + 1,
                      Append(q, m)[i].data \in Payload,
                      Append(q, m)[i].data = Append(q, m)[j].data
               PROVE  i = j
    BY <1>2 DEF NoRepeat
  <2>1. CASE i \in 1 .. n /\ j \in 1 .. n
    BY <1>1, <1>2, <2>1 DEF NoRepeat
  <2>2. CASE i \in 1 .. n /\ j = n + 1
    BY <1>1, <1>2, <2>2 DEF Carries
  <2>3. CASE i = n + 1 /\ j \in 1 .. n
    BY <1>1, <1>2, <2>3 DEF Carries
  <2>4. CASE i = n + 1 /\ j = n + 1
    BY <2>4
  <2>5. (i \in 1 .. n \/ i = n + 1) /\ (j \in 1 .. n \/ j = n + 1)
    OBVIOUS
  <2>6. QED
    BY <2>1, <2>2, <2>3, <2>4, <2>5
<1>4. ASSUME NEW p, Carries(Append(q, m), p) PROVE Carries(q, p) \/ p = m.data
  <2>1. PICK i \in 1 .. n + 1 : Append(q, m)[i].data = p
    BY <1>2, <1>4 DEF Carries
  <2>2. CASE i \in 1 .. n
    BY <1>1, <1>2, <2>1, <2>2 DEF Carries
  <2>3. CASE i = n + 1
    BY <1>2, <2>1, <2>3
  <2>4. QED
    BY <2>2, <2>3
<1>5. QED
  BY <1>3, <1>4

(***************************************************************************)
(* A cut of a queue repeats nothing.                                       *)
(***************************************************************************)
LEMMA CarriesFront ==
    ASSUME NEW S, NEW q \in Seq(S), NEW k \in 0 .. Len(q), NoRepeat(q)
    PROVE  /\ NoRepeat(SubSeq(q, 1, k))
           /\ \A p : Carries(SubSeq(q, 1, k), p) => Carries(q, p)
<1>1. Len(q) \in Nat
  OBVIOUS
<1>2. Len(SubSeq(q, 1, k)) = k /\ \A i \in 1 .. k : SubSeq(q, 1, k)[i] = q[i]
  BY <1>1, SubSeqProperties
<1>3. \A i \in 1 .. k : i \in 1 .. Len(q)
  BY <1>1
<1>4. QED
  BY <1>2, <1>3 DEF NoRepeat, Carries

(***************************************************************************)
(* The empty queue.                                                        *)
(***************************************************************************)
LEMMA CarriesNothing == NoRepeat(<<>>) /\ \A p : ~Carries(<<>>, p)
BY DEF NoRepeat, Carries

(***************************************************************************)
(* A family of queues of which one is touched: data is lost, or nothing    *)
(* but a message without data is added.                                    *)
(***************************************************************************)
Loses(q, r) == NoRepeat(r) /\ \A p \in Payload : Carries(r, p) => Carries(q, p)

(***************************************************************************)
(* The messages of the handshake carry no data of a client.                *)
(***************************************************************************)
LEMMA NoDataIsNone == NoData \notin Payload
BY ConnNumbers DEF NoData, Payload

(***************************************************************************)
(* A family of queues of which one loses messages or gets one without      *)
(* data.                                                                   *)
(***************************************************************************)
LEMMA QueueLoses ==
    ASSUME NEW D, NEW S, NEW f \in [D -> Seq(S)], \A d \in D : NoRepeat(f[d]),
           NEW f2, NEW c \in D,
           \/ f2 = f
           \/ f[c] # <<>> /\ f2 = [f EXCEPT ![c] = Tail(@)]
           \/ f2 = [f EXCEPT ![c] = <<>>]
           \/ \E k \in 0 .. Len(f[c]) : f2 = [f EXCEPT ![c] = SubSeq(@, 1, k)]
           \/ \E m : m.data = NoData /\ f2 = [f EXCEPT ![c] = Append(@, m)]
    PROVE  \A d \in D : Loses(f[d], f2[d])
<1>1. \A d \in D : Loses(f[d], f[d])
  BY DEF Loses
<1>2. ASSUME NEW r, Loses(f[c], r), f2 = [f EXCEPT ![c] = r]
      PROVE  \A d \in D : Loses(f[d], f2[d])
  BY <1>1, <1>2
<1>3. f[c] \in Seq(S)
  OBVIOUS
<1>4. CASE f[c] # <<>> /\ f2 = [f EXCEPT ![c] = Tail(@)]
  <2>1. Loses(f[c], Tail(f[c]))
    BY <1>3, <1>4, CarriesTail DEF Loses
  <2>2. QED
    BY <1>2, <1>4, <2>1
<1>5. CASE f2 = [f EXCEPT ![c] = <<>>]
  <2>1. Loses(f[c], <<>>)
    BY CarriesNothing DEF Loses
  <2>2. QED
    BY <1>2, <1>5, <2>1
<1>6. ASSUME NEW k \in 0 .. Len(f[c]), f2 = [f EXCEPT ![c] = SubSeq(@, 1, k)]
      PROVE  \A d \in D : Loses(f[d], f2[d])
  <2>1. Loses(f[c], SubSeq(f[c], 1, k))
    BY <1>3, CarriesFront DEF Loses
  <2>2. QED
    BY <1>2, <1>6, <2>1
<1>7. ASSUME NEW m, m.data = NoData, f2 = [f EXCEPT ![c] = Append(@, m)]
      PROVE  \A d \in D : Loses(f[d], f2[d])
  <2>1. Loses(f[c], Append(f[c], m))
    BY <1>3, <1>7, CarriesAppend, NoDataIsNone DEF Loses
  <2>2. QED
    BY <1>2, <1>7, <2>1
<1>8. QED
  BY <1>1, <1>4, <1>5, <1>6, <1>7

(***************************************************************************)
(* Data that is lost, and data that moves from one place to the next or is *)
(* new.                                                                    *)
(***************************************************************************)
LEMMA PlacesLose ==
    ASSUME UniqueInv, PathInv',
           \A c \in Conns : Loses(up[c], up'[c]) /\ Loses(down[c], down'[c]),
           \A b \in BackEnds : Loses(to_back[b], to_back'[b]) /\ Loses(from_back[b], from_back'[b]),
           UNCHANGED got
    PROVE  UniqueInv'
<1>1. ASSUME NEW p \in Payload, NEW h \in Hops, Holds(h, p)' PROVE Holds(h, p)
  <2>1. p.conn \in Conns /\ (h.at \in {"to", "from"} => h.back \in BackEnds)
    BY DEF Payload, Hops
  <2>2. /\ Carries(up'[p.conn], p) => Carries(up[p.conn], p)
        /\ Carries(down'[p.conn], p) => Carries(down[p.conn], p)
    BY <2>1 DEF Loses
  <2>3. h.at \in {"to", "from"} =>
          /\ Carries(to_back'[h.back], p) => Carries(to_back[h.back], p)
          /\ Carries(from_back'[h.back], p) => Carries(from_back[h.back], p)
    BY <2>1 DEF Loses
  <2>4. QED
    BY <1>1, <2>2, <2>3 DEF Holds
<1>2. OnePlace'
  BY <1>1 DEF UniqueInv, OnePlace
<1>3. QED
  BY <1>2 DEF UniqueInv, Loses

(***************************************************************************)
(* Data that moves to dst from wherever it was stays in one place.         *)
(***************************************************************************)
LEMMA PlacesMove ==
    ASSUME NEW dst \in Hops, OnePlace,
           \A p \in Payload : \A h \in Hops : Holds(h, p)' =>
              Holds(h, p) \/ (h = dst /\ \A g \in Hops : Holds(g, p) => ~Holds(g, p)')
    PROVE  OnePlace'
BY DEF OnePlace

(***************************************************************************)
(* What any place holds was pushed.                                        *)
(***************************************************************************)
LEMMA HeldIsPushed ==
    ASSUME PathInv, NEW p \in Payload, NEW h \in Hops, Holds(h, p)
    PROVE  p \in Own(p.conn)
<1>1. p.conn \in Conns /\ p # NoData /\ \A c \in Conns : p \in Own(c) => c = p.conn
  BY NoDataIsNone DEF Payload, Own
<1>2. CASE h.at = "up" /\ Carries(up[p.conn], p)
  <2>1. PICK i \in 1 .. Len(up[p.conn]) : up[p.conn][i].data = p
    BY <1>2 DEF Carries
  <2>2. up[p.conn][i] \in UpMsgs(p.conn)
    BY <1>1, <2>1, ElementOfSeq DEF PathInv, UpOK
  <2>3. QED
    BY <1>1, <2>1, <2>2 DEF UpMsgs
<1>3. CASE h.at = "down" /\ Carries(down[p.conn], p)
  <2>1. PICK i \in 1 .. Len(down[p.conn]) : down[p.conn][i].data = p
    BY <1>3 DEF Carries
  <2>2. down[p.conn][i] \in DownMsgs(p.conn)
    BY <1>1, <2>1, ElementOfSeq DEF PathInv, DownOK
  <2>3. QED
    BY <1>1, <2>1, <2>2 DEF UpMsgs, DownMsgs
<1>4. CASE h.at = "got" /\ \E i \in 1 .. Len(got[p.conn]) : got[p.conn][i] = p
  BY <1>1, <1>4, ElementOfSeq DEF PathInv, GotOK
<1>5. CASE h.at = "to" /\ Carries(to_back[h.back], p)
  <2>1. PICK i \in 1 .. Len(to_back[h.back]) : to_back[h.back][i].data = p
    BY <1>5 DEF Carries
  <2>2. h.back \in BackEnds
    BY <1>5 DEF Hops
  <2>3. to_back[h.back][i] \in ToMsgs
    BY <2>1, <2>2, ElementOfSeq DEF PathInv, ToOK
  <2>4. QED
    BY <1>1, <2>1, <2>3 DEF ToMsgs
<1>6. CASE h.at = "from" /\ Carries(from_back[h.back], p)
  <2>1. PICK i \in 1 .. Len(from_back[h.back]) : from_back[h.back][i].data = p
    BY <1>6 DEF Carries
  <2>2. h.back \in BackEnds
    BY <1>6 DEF Hops
  <2>3. from_back[h.back][i] \in FromMsgs
    BY <2>1, <2>2, ElementOfSeq DEF PathInv, FromOK
  <2>4. QED
    BY <1>1, <2>1, <2>3 DEF FromMsgs
<1>7. QED
  BY <1>2, <1>3, <1>4, <1>5, <1>6 DEF Holds

(***************************************************************************)
(* Most actions only lose data.                                            *)
(***************************************************************************)
Touched(f, f2, D) ==
    \/ f2 = f
    \/ \E c \in D :
         \/ f[c] # <<>> /\ f2 = [f EXCEPT ![c] = Tail(@)]
         \/ f2 = [f EXCEPT ![c] = <<>>]
         \/ \E k \in 0 .. Len(f[c]) : f2 = [f EXCEPT ![c] = SubSeq(@, 1, k)]
         \/ \E m : m.data = NoData /\ f2 = [f EXCEPT ![c] = Append(@, m)]

(***************************************************************************)
(* The same for a family that a step has touched.                          *)
(***************************************************************************)
LEMMA TouchedLoses ==
    ASSUME NEW D, NEW S, NEW f \in [D -> Seq(S)], \A d \in D : NoRepeat(f[d]),
           NEW f2, Touched(f, f2, D)
    PROVE  \A d \in D : Loses(f[d], f2[d])
<1>1. CASE f2 = f
  BY <1>1 DEF Loses
<1>2. ASSUME NEW c \in D,
             \/ f[c] # <<>> /\ f2 = [f EXCEPT ![c] = Tail(@)]
             \/ f2 = [f EXCEPT ![c] = <<>>]
             \/ \E k \in 0 .. Len(f[c]) : f2 = [f EXCEPT ![c] = SubSeq(@, 1, k)]
             \/ \E m : m.data = NoData /\ f2 = [f EXCEPT ![c] = Append(@, m)]
      PROVE  \A d \in D : Loses(f[d], f2[d])
  BY <1>2, QueueLoses
<1>3. QED
  BY <1>1, <1>2 DEF Touched

LossyStep ==
    /\ UNCHANGED got
    /\ Touched(up, up', Conns) /\ Touched(down, down', Conns)
    /\ Touched(to_back, to_back', BackEnds) /\ Touched(from_back, from_back', BackEnds)

(***************************************************************************)
(* Losing data keeps what is left in one place.                            *)
(***************************************************************************)
LEMMA OnlyLosses ==
    ASSUME UniqueInv, PathInv', LossyStep
    PROVE  UniqueInv'
<1>1. /\ up \in [Conns -> Seq(CSMsgs)] /\ down \in [Conns -> Seq(CSMsgs)]
      /\ to_back \in [BackEnds -> Seq(ToMsgs)] /\ from_back \in [BackEnds -> Seq(FromMsgs)]
  BY DEF UniqueInv, PathInv, UpOK, DownOK, ToOK, FromOK
<1>2. /\ \A c \in Conns : NoRepeat(up[c]) /\ NoRepeat(down[c])
      /\ \A b \in BackEnds : NoRepeat(to_back[b]) /\ NoRepeat(from_back[b])
  BY DEF UniqueInv
<1>3. \A c \in Conns : Loses(up[c], up'[c])
  BY <1>1, <1>2, TouchedLoses DEF LossyStep
<1>4. \A c \in Conns : Loses(down[c], down'[c])
  BY <1>1, <1>2, TouchedLoses DEF LossyStep
<1>5. \A b \in BackEnds : Loses(to_back[b], to_back'[b])
  BY <1>1, <1>2, TouchedLoses DEF LossyStep
<1>6. \A b \in BackEnds : Loses(from_back[b], from_back'[b])
  BY <1>1, <1>2, TouchedLoses DEF LossyStep
<1>7. QED
  BY <1>3, <1>4, <1>5, <1>6, PlacesLose DEF LossyStep

(***************************************************************************)
(* What the handshake sends.                                               *)
(***************************************************************************)
LEMMA SendsWithoutData ==
    ASSUME NEW c \in Conns, NEW id
    PROVE  /\ SendUp(c, id, NoData) => Touched(up, up', Conns)
           /\ SendDown(c, id, NoData) => Touched(down, down', Conns)
<1>1. \A n : CSMsg(id, n, NoData).data = NoData
  BY DEF CSMsg
<1>2. QED
  BY <1>1 DEF SendUp, SendDown, Touched

(***************************************************************************)
(* The steps of a client other than PushMessage and PopMessage.            *)
(***************************************************************************)
LEMMA ClientsLose ==
    ASSUME PathInv, NEW c \in Conns,
           \/ HandShake_SYN(c) \/ TryAck(c) \/ TryReady(c) \/ TryDone(c)
           \/ OnServerClose(c) \/ Terminate(c) \/ PushMessageFailed(c)
    PROVE  LossyStep
<1>1. UNCHANGED <<to_back, from_back, got>>
  BY DEF HandShake_SYN, TryAck, TryReady, TryDone, TryNext, OnServerClose, Terminate,
         PushMessageFailed, backVars
<1>2. Touched(up, up', Conns)
  <2>1. CASE HandShake_SYN(c)
    BY <2>1, SendsWithoutData DEF HandShake_SYN
  <2>2. CASE TryAck(c)
    BY <2>2, SendsWithoutData DEF TryAck, Touched
  <2>3. QED
    BY <2>1, <2>2 DEF TryReady, TryDone, TryNext, OnServerClose, Terminate,
                      PushMessageFailed, linkVars, Touched
<1>3. Touched(down, down', Conns)
  BY DEF HandShake_SYN, TryAck, TryReady, TryDone, TryNext, OnServerClose, Terminate,
         PushMessageFailed, linkVars, Touched
<1>4. QED
  BY <1>1, <1>2, <1>3 DEF Touched, LossyStep

(***************************************************************************)
(* The steps of the front end other than ForwardUpSideMessage.             *)
(***************************************************************************)
LEMMA FrontLoses ==
    ASSUME PathInv, NEW c \in Conns,
           \/ UpSideRejected(c) \/ HandleKeyMaking(c) \/ ClientStartsApp(c)
           \/ HandleAuthRequest(c) \/ OnFrontEndClose(c) \/ CloseIdle(c)
    PROVE  LossyStep
<1>1. UNCHANGED <<from_back, got>>
  BY DEF UpSideRejected, HandleKeyMaking, ClientStartsApp, UpSideAnswered, HandleAuthRequest,
         OnFrontEndClose, CloseIdle, backVars, clientVars
<1>2. Touched(to_back, to_back', BackEnds)
  <2>1. CASE HandleAuthRequest(c)
    <3>1. PICK b \in BackEnds : b = PickBackEnd
      BY PickBackEndFacts
    <3>2. PICK m : m = SSMsg("SYN", conn_fd[c], Nid(c), Session(c).sid, NoData)
      OBVIOUS
    <3>3. m.data = NoData
      BY <3>2 DEF SSMsg
    <3>4. to_back' = to_back \/ to_back' = [to_back EXCEPT ![b] = Append(@, m)]
      BY <2>1, <3>1, <3>2
         DEF HandleAuthRequest, HandShake_StartSession, StartToBackEnd, SendToBackEnd
    <3>5. QED
      BY <3>3, <3>4 DEF Touched
  <2>2. QED
    BY <2>1 DEF UpSideRejected, HandleKeyMaking, ClientStartsApp, UpSideAnswered,
                OnFrontEndClose, CloseIdle, backVars, Touched
<1>3. Touched(up, up', Conns)
  <2>1. up' = [up EXCEPT ![c] = <<>>] \/ (up[c] # <<>> /\ up' = [up EXCEPT ![c] = Tail(@)])
    BY DEF UpSideRejected, HandleKeyMaking, ClientStartsApp, UpSideAnswered, HandleAuthRequest,
           OnFrontEndClose, CloseIdle, DestroyFrontEnd, DeleteSession, UpSideMessage
  <2>2. QED
    BY <2>1 DEF Touched
<1>4. Touched(down, down', Conns)
  <2>1. CASE UpSideRejected(c)
    BY <2>1 DEF UpSideRejected, Touched
  <2>2. CASE HandleKeyMaking(c) \/ ClientStartsApp(c)
    BY <2>2, SendsWithoutData DEF HandleKeyMaking, ClientStartsApp, UpSideAnswered
  <2>3. ASSUME DeleteSession(c) PROVE Touched(down, down', Conns)
    BY <2>3 DEF DeleteSession, Touched
  <2>4. CASE HandleAuthRequest(c)
    BY <2>3, <2>4, SendsWithoutData DEF HandleAuthRequest, DestroyFrontEnd
  <2>5. CASE OnFrontEndClose(c) \/ CloseIdle(c)
    BY <2>3, <2>5 DEF OnFrontEndClose, CloseIdle, DestroyFrontEnd
  <2>6. QED
    BY <2>1, <2>2, <2>4, <2>5
<1>5. QED
  BY <1>1, <1>2, <1>3, <1>4 DEF Touched, LossyStep

(***************************************************************************)
(* The steps on the back ends' side other than ForwardDownSideMessage and  *)
(* Dispatch.                                                               *)
(***************************************************************************)
LEMMA BackLoses ==
    ASSUME PathInv, NEW b \in BackEnds,
           \/ DownSideIgnored(b) \/ HandShake_OnStartAcked(b) \/ HandShake_OnStopNotify(b)
           \/ DownSideRefused(b) \/ OnBackEndConnected(b) \/ OnBackEndRefused(b)
           \/ OnBackEndLost(b) \/ Crash(b)
    PROVE  LossyStep
<1>1. UNCHANGED got
  BY DEF DownSideIgnored, HandShake_OnStartAcked, HandShake_OnStopNotify, DownSideRefused,
         DownSideMessage, OnBackEndConnected, OnBackEndRefused, OnBackEndLost, BackNetEvent,
         Crash, clientVars
<1>2. Touched(to_back, to_back', BackEnds)
  BY DEF DownSideIgnored, HandShake_OnStartAcked, HandShake_OnStopNotify, DownSideRefused,
         DownSideMessage, OnBackEndConnected, OnBackEndRefused, OnBackEndLost, BackNetEvent,
         Crash, Touched
<1>3. Touched(from_back, from_back', BackEnds)
  BY DEF DownSideIgnored, HandShake_OnStartAcked, HandShake_OnStopNotify, DownSideRefused,
         DownSideMessage, OnBackEndConnected, OnBackEndRefused, OnBackEndLost, BackNetEvent,
         Crash, Touched
<1>4. Touched(up, up', Conns) /\ Touched(down, down', Conns)
  <2>1. CASE \/ DownSideIgnored(b) \/ OnBackEndConnected(b) \/ OnBackEndRefused(b)
             \/ OnBackEndLost(b) \/ Crash(b)
    BY <2>1 DEF DownSideIgnored, OnBackEndConnected, OnBackEndRefused, OnBackEndLost,
                BackNetEvent, Crash, linkVars, Touched
  <2>2. CASE \/ HandShake_OnStartAcked(b) \/ HandShake_OnStopNotify(b) \/ DownSideRefused(b)
    <3>1. PICK msg : msg = Head(from_back[b])
      OBVIOUS
    <3>2. from_back[b] # <<>> /\ Found(msg)
      BY <2>2, <3>1 DEF HandShake_OnStartAcked, HandShake_OnStopNotify, DownSideRefused,
                        DownSideMessage
    <3>3. PICK c \in Conns : c = FrontNet(msg)
      BY <3>1, <3>2, FromHead
    <3>4. \/ SendDown(c, "START_APP", NoData) /\ UNCHANGED up
          \/ DeleteSession(c)
      BY <2>2, <3>1, <3>3 DEF HandShake_OnStartAcked, HandShake_OnStopNotify, DownSideRefused,
                              DestroyFrontEnd
    <3>5. CASE SendDown(c, "START_APP", NoData) /\ UNCHANGED up
      BY <3>5, SendsWithoutData DEF Touched
    <3>6. CASE DeleteSession(c)
      BY <3>6 DEF DeleteSession, Touched
    <3>7. QED
      BY <3>4, <3>5, <3>6
  <2>3. QED
    BY <2>1, <2>2
<1>5. QED
  BY <1>1, <1>2, <1>3, <1>4 DEF LossyStep

(***************************************************************************)
(* The steps that concern no connection in particular.                     *)
(***************************************************************************)
LEMMA ElseLoses ==
    ASSUME PathInv,
           \/ \E fd \in Fds : ClientConnect(fd)
           \/ \E b \in BackEnds : DispatchStops(b)
           \/ \E b \in BackEnds, k \in known : StopConn(b, k)
           \/ CloseNone \/ UNCHANGED vars
    PROVE  LossyStep
<1>1. UNCHANGED <<up, down, got>> /\ Touched(to_back, to_back', BackEnds)
  BY DEF ClientConnect, DispatchStops, StopConn, CloseNone, vars, backVars, clientVars,
         linkVars, Touched
<1>2. Touched(from_back, from_back', BackEnds)
  <2>1. ASSUME NEW b \in BackEnds, NEW k \in known, StopConn(b, k)
        PROVE  Touched(from_back, from_back', BackEnds)
    <3>1. Fin(k).data = NoData /\ from_back' = [from_back EXCEPT ![b] = Append(@, Fin(k))]
      BY <2>1 DEF StopConn, Fin, SSMsg
    <3>2. QED
      BY <3>1 DEF Touched
  <2>2. ASSUME NEW b \in BackEnds, DispatchStops(b)
        PROVE  Touched(from_back, from_back', BackEnds)
    <3>1. PICK m : m = Fin(Head(to_back[b]))
      OBVIOUS
    <3>2. m.data = NoData /\ from_back' = [from_back EXCEPT ![b] = Append(@, m)]
      BY <2>2, <3>1 DEF DispatchStops, Fin, SSMsg
    <3>3. QED
      BY <3>2 DEF Touched
  <2>3. QED
    BY <2>1, <2>2 DEF ClientConnect, CloseNone, vars, backVars, Touched
<1>3. QED
  BY <1>1, <1>2 DEF Touched, LossyStep

(***************************************************************************)
(* The hops as members of Hops, and what holding means for each.           *)
(***************************************************************************)
UpHop == [at |-> "up", back |-> 0]
DownHop == [at |-> "down", back |-> 0]
GotHop == [at |-> "got", back |-> 0]
ToHop(b) == [at |-> "to", back |-> b]
FromHop(b) == [at |-> "from", back |-> b]

(***************************************************************************)
(* The hops are these five kinds.                                          *)
(***************************************************************************)
LEMMA HopFacts ==
    /\ UpHop \in Hops /\ DownHop \in Hops /\ GotHop \in Hops
    /\ \A b \in BackEnds : ToHop(b) \in Hops /\ FromHop(b) \in Hops
    /\ \A h \in Hops : \/ h = UpHop \/ h = DownHop \/ h = GotHop
                       \/ \E b \in BackEnds : h = ToHop(b) \/ h = FromHop(b)
<1>1. \A b \in BackEnds : ToHop(b) \in Hops /\ FromHop(b) \in Hops
  BY DEF ToHop, FromHop, Hops
<1>2. UpHop \in Hops /\ DownHop \in Hops /\ GotHop \in Hops
  BY DEF UpHop, DownHop, GotHop, Hops
<1>3. ASSUME NEW h \in [at : {"up", "down", "got"}, back : {0}]
      PROVE  h = UpHop \/ h = DownHop \/ h = GotHop
  BY DEF UpHop, DownHop, GotHop
<1>4. ASSUME NEW h \in [at : {"to", "from"}, back : BackEnds]
      PROVE  \E b \in BackEnds : h = ToHop(b) \/ h = FromHop(b)
  <2>1. h.back \in BackEnds /\ (h = ToHop(h.back) \/ h = FromHop(h.back))
    BY DEF ToHop, FromHop
  <2>2. QED
    BY <2>1
<1>5. QED
  BY <1>1, <1>2, <1>3, <1>4 DEF Hops

(***************************************************************************)
(* They are different from each other.                                     *)
(***************************************************************************)
LEMMA HopsDiffer ==
    /\ UpHop # DownHop /\ UpHop # GotHop /\ DownHop # GotHop
    /\ \A b, a \in BackEnds : /\ ToHop(b) \notin {UpHop, DownHop, GotHop, FromHop(a)}
                              /\ FromHop(b) \notin {UpHop, DownHop, GotHop}
                              /\ ToHop(b) = ToHop(a) => b = a
                              /\ FromHop(b) = FromHop(a) => b = a
<1>1. /\ UpHop.at = "up" /\ DownHop.at = "down" /\ GotHop.at = "got"
      /\ \A b \in BackEnds : /\ ToHop(b).at = "to" /\ ToHop(b).back = b
                             /\ FromHop(b).at = "from" /\ FromHop(b).back = b
  BY DEF UpHop, DownHop, GotHop, ToHop, FromHop
<1>2. QED
  BY <1>1

(***************************************************************************)
(* Holds, hop by hop.                                                      *)
(***************************************************************************)
LEMMA HoldsAt ==
    \A p : /\ Holds(UpHop, p) <=> Carries(up[p.conn], p)
           /\ Holds(DownHop, p) <=> Carries(down[p.conn], p)
           /\ Holds(GotHop, p) <=> \E i \in 1 .. Len(got[p.conn]) : got[p.conn][i] = p
           /\ \A b : /\ Holds(ToHop(b), p) <=> Carries(to_back[b], p)
                     /\ Holds(FromHop(b), p) <=> Carries(from_back[b], p)
<1>1. /\ UpHop.at = "up" /\ DownHop.at = "down" /\ GotHop.at = "got"
      /\ \A b : /\ ToHop(b).at = "to" /\ ToHop(b).back = b
                /\ FromHop(b).at = "from" /\ FromHop(b).back = b
  BY DEF UpHop, DownHop, GotHop, ToHop, FromHop
<1>2. QED
  BY <1>1 DEF Holds

(***************************************************************************)
(* Holds, hop by hop, in the next state.                                   *)
(***************************************************************************)
LEMMA HoldsAtNext ==
    \A p : /\ Holds(UpHop, p)' <=> Carries(up'[p.conn], p)
           /\ Holds(DownHop, p)' <=> Carries(down'[p.conn], p)
           /\ Holds(GotHop, p)' <=> \E i \in 1 .. Len(got'[p.conn]) : got'[p.conn][i] = p
           /\ \A b : /\ Holds(ToHop(b), p)' <=> Carries(to_back'[b], p)
                     /\ Holds(FromHop(b), p)' <=> Carries(from_back'[b], p)
<1>1. /\ UpHop.at = "up" /\ DownHop.at = "down" /\ GotHop.at = "got"
      /\ \A b : /\ ToHop(b).at = "to" /\ ToHop(b).back = b
                /\ FromHop(b).at = "from" /\ FromHop(b).back = b
  BY DEF UpHop, DownHop, GotHop, ToHop, FromHop
<1>2. QED
  BY <1>1 DEF Holds

(***************************************************************************)
(* One piece of data x comes to dst and is nowhere else.                   *)
(***************************************************************************)
LEMMA DataMoves ==
    ASSUME UniqueInv, PathInv', NEW dst \in Hops, NEW x \in Payload,
           \A p \in Payload : \A h \in Hops : Holds(h, p)' => Holds(h, p) \/ (h = dst /\ p = x),
           \A g \in Hops : Holds(g, x) => ~Holds(g, x)',
           \A c \in Conns : NoRepeat(up'[c]) /\ NoRepeat(down'[c]),
           \A b \in BackEnds : NoRepeat(to_back'[b]) /\ NoRepeat(from_back'[b])
    PROVE  UniqueInv'
<1>1. OnePlace'
  BY PlacesMove DEF UniqueInv
<1>2. QED
  BY <1>1 DEF UniqueInv

(***************************************************************************)
(* The head of a queue is carried by it.                                   *)
(***************************************************************************)
LEMMA HeadCarried ==
    ASSUME NEW S, NEW q \in Seq(S), q # <<>>
    PROVE  Carries(q, Head(q).data)
<1>1. Len(q) \in Nat \ {0} /\ Head(q) = q[1]
  BY TailAt
<1>2. 1 \in 1 .. Len(q)
  BY <1>1
<1>3. QED
  BY <1>1, <1>2 DEF Carries

(***************************************************************************)
(* What UniqueInv says of the queues.                                      *)
(***************************************************************************)
LEMMA UniqueTypes ==
    ASSUME UniqueInv
    PROVE  /\ up \in [Conns -> Seq(CSMsgs)] /\ down \in [Conns -> Seq(CSMsgs)]
           /\ to_back \in [BackEnds -> Seq(ToMsgs)] /\ from_back \in [BackEnds -> Seq(FromMsgs)]
           /\ \A c \in Conns : NoRepeat(up[c]) /\ NoRepeat(down[c])
           /\ \A b \in BackEnds : NoRepeat(to_back[b]) /\ NoRepeat(from_back[b])
           /\ \A c \in Conns : Own(c) \subseteq Payload /\ \A p \in Own(c) : p.conn = c
<1>1. /\ up \in [Conns -> Seq(CSMsgs)] /\ down \in [Conns -> Seq(CSMsgs)]
      /\ to_back \in [BackEnds -> Seq(ToMsgs)] /\ from_back \in [BackEnds -> Seq(FromMsgs)]
  BY DEF UniqueInv, PathInv, UpOK, DownOK, ToOK, FromOK
<1>2. ASSUME NEW c \in Conns PROVE Own(c) \subseteq Payload /\ \A p \in Own(c) : p.conn = c
  <2>1. 1 .. pushed[c] \subseteq 1 .. MaxPush
    BY ConnectorAssumption DEF UniqueInv, PathInv, CountOK
  <2>2. QED
    BY <2>1 DEF Own, Payload
<1>3. QED
  BY <1>1, <1>2 DEF UniqueInv

(***************************************************************************)
(* PushMessage: the data is new, so it is nowhere yet.                     *)
(***************************************************************************)
LEMMA UniquePush ==
    ASSUME UniqueInv, PathInv', NEW c \in Conns, PushMessage(c)
    PROVE  UniqueInv'
<1>1. PICK x : x = [conn |-> c, n |-> pushed[c] + 1]
  OBVIOUS
<1>2. PICK m : m = CSMsg("DATA", seqno[c], x)
  OBVIOUS
<1>3. /\ pushed[c] < MaxPush /\ UNCHANGED <<down, to_back, from_back, got>>
      /\ up' = up \/ up' = [up EXCEPT ![c] = Append(@, m)]
  BY <1>1, <1>2 DEF PushMessage, SendUp, backVars
<1>4. m.data = x
  BY <1>2 DEF CSMsg
<1>5. pushed[c] \in 0 .. MaxPush
  BY ClientFacts DEF UniqueInv
<1>6. x \in Payload /\ x.conn = c /\ x \notin Own(c)
  <2>1. PICK k \in 1 .. MaxPush : k = pushed[c] + 1
    BY <1>3, <1>5, ConnectorAssumption
  <2>2. k \notin 1 .. pushed[c]
    BY <1>5, <2>1
  <2>3. x = [conn |-> c, n |-> k]
    BY <1>1, <2>1
  <2>4. QED
    BY <2>2, <2>3 DEF Payload, Own
<1>7. \A h \in Hops : ~Holds(h, x)
  BY <1>6, HeldIsPushed DEF UniqueInv
<1>8. CASE up' = up
  BY <1>3, <1>8, OnlyLosses DEF Touched, LossyStep
<1>9. CASE up' = [up EXCEPT ![c] = Append(@, m)]
  <2>1. ~Carries(up[c], x)
    BY <1>6, <1>7, HopFacts, HoldsAt
  <2>2. /\ \A d \in Conns : NoRepeat(up'[d])
        /\ \A d \in Conns : d # c => up'[d] = up[d]
        /\ \A p : Carries(up'[c], p) => Carries(up[c], p) \/ p = x
    <3>1. ~Carries(up[c], m.data)
      BY <1>4, <2>1
    <3>2. up \in [Conns -> Seq(CSMsgs)] /\ \A d \in Conns : NoRepeat(up[d])
      BY UniqueTypes
    <3>3. up[c] \in Seq(CSMsgs) /\ NoRepeat(up[c])
      BY <3>2
    <3>4. /\ NoRepeat(Append(up[c], m))
          /\ \A p : Carries(Append(up[c], m), p) => Carries(up[c], p) \/ p = m.data
      BY <3>1, <3>3, CarriesAppend
    <3>5. up'[c] = Append(up[c], m) /\ \A d \in Conns : d # c => up'[d] = up[d]
      BY <1>9, <3>2
    <3>6. QED
      BY <1>4, <3>2, <3>4, <3>5
  <2>3. ASSUME NEW p \in Payload, NEW h \in Hops, Holds(h, p)'
        PROVE  Holds(h, p) \/ (h = UpHop /\ p = x)
    <3>1. p.conn \in Conns
      BY DEF Payload
    <3>2. CASE h = UpHop
      BY <2>2, <2>3, <3>1, <3>2, HoldsAt, HoldsAtNext
    <3>3. CASE h = DownHop \/ h = GotHop
      BY <1>3, <2>3, <3>3, HoldsAt, HoldsAtNext
    <3>4. ASSUME NEW d \in BackEnds, h = ToHop(d) \/ h = FromHop(d) PROVE Holds(h, p)
      BY <1>3, <2>3, <3>4, HoldsAt, HoldsAtNext
    <3>5. QED
      BY <3>2, <3>3, <3>4, HopFacts
  <2>4. QED
    BY <1>3, <1>6, <1>7, <2>2, <2>3, DataMoves, HopFacts, UniqueTypes
<1>10. QED
  BY <1>3, <1>8, <1>9

(***************************************************************************)
(* ForwardUpSideMessage: from the client's queue to a back end's, or lost. *)
(***************************************************************************)
LEMMA UniqueForwardUp ==
    ASSUME UniqueInv, PathInv', NEW c \in Conns, ForwardUpSideMessage(c)
    PROVE  UniqueInv'
<1>1. PICK x : x = Head(up[c]).data
  OBVIOUS
<1>2. PICK m : m = SSMsg("DATA", conn_fd[c], Nid(c), Session(c).sid, x)
  OBVIOUS
<1>3. PICK b \in BackEnds : b = PickBackEnd
  BY PickBackEndFacts DEF UniqueInv
<1>4. /\ up[c] # <<>> /\ Head(up[c]).id = "DATA"
      /\ up' = [up EXCEPT ![c] = Tail(@)]
      /\ to_back' = to_back \/ to_back' = [to_back EXCEPT ![b] = Append(@, m)]
      /\ UNCHANGED <<down, from_back, got>>
  BY <1>1, <1>2, <1>3 DEF ForwardUpSideMessage, UpSideMessage, SendDataToBackEnd,
                          SendToBackEnd, clientVars
<1>5. m.data = x
  BY <1>2 DEF SSMsg
<1>6. x \in Own(c)
  BY <1>1, <1>4, ClientFacts DEF UniqueInv, UpMsgs
<1>7. x \in Payload /\ x.conn = c
  BY <1>6, UniqueTypes
<1>8. Carries(up[c], x) /\ ~Carries(up'[c], x)
  BY <1>1, <1>4, <1>7, HeadCarried, CarriesTail, UniqueTypes
<1>9. \A d \in Conns : Loses(up[d], up'[d])
  BY <1>4, TouchedLoses, UniqueTypes DEF Touched
<1>10. \A h \in Hops : Holds(h, x) => h = UpHop
  BY <1>7, <1>8, HoldsAt, HopFacts DEF UniqueInv, OnePlace
<1>11. CASE to_back' = to_back
  BY <1>4, <1>11, OnlyLosses DEF Touched, LossyStep
<1>12. CASE to_back' = [to_back EXCEPT ![b] = Append(@, m)]
  <2>1. ~Carries(to_back[b], x)
    BY <1>10, HopFacts, HopsDiffer, HoldsAt
  <2>2. /\ \A d \in BackEnds : NoRepeat(to_back'[d])
        /\ \A d \in BackEnds : d # b => to_back'[d] = to_back[d]
        /\ \A p : Carries(to_back'[b], p) => Carries(to_back[b], p) \/ p = x
    <3>1. ~Carries(to_back[b], m.data)
      BY <1>5, <2>1
    <3>2. to_back \in [BackEnds -> Seq(ToMsgs)] /\ \A d \in BackEnds : NoRepeat(to_back[d])
      BY UniqueTypes
    <3>3. to_back[b] \in Seq(ToMsgs) /\ NoRepeat(to_back[b])
      BY <3>2
    <3>4. /\ NoRepeat(Append(to_back[b], m))
          /\ \A p : Carries(Append(to_back[b], m), p) => Carries(to_back[b], p) \/ p = m.data
      BY <3>1, <3>3, CarriesAppend
    <3>5. to_back'[b] = Append(to_back[b], m) /\ \A d \in BackEnds : d # b => to_back'[d] = to_back[d]
      BY <1>12, <3>2
    <3>6. QED
      BY <1>5, <3>2, <3>4, <3>5
  <2>3. ASSUME NEW p \in Payload, NEW h \in Hops, Holds(h, p)'
        PROVE  Holds(h, p) \/ (h = ToHop(b) /\ p = x)
    <3>1. p.conn \in Conns
      BY DEF Payload
    <3>2. CASE h = UpHop
      BY <1>9, <2>3, <3>1, <3>2, HoldsAt, HoldsAtNext DEF Loses
    <3>3. ASSUME NEW d \in BackEnds, h = ToHop(d)
          PROVE  Holds(h, p) \/ (h = ToHop(b) /\ p = x)
      BY <2>2, <2>3, <3>3, HoldsAt, HoldsAtNext
    <3>4. CASE h = DownHop \/ h = GotHop
      BY <1>4, <2>3, <3>4, HoldsAt, HoldsAtNext
    <3>5. ASSUME NEW d \in BackEnds, h = FromHop(d) PROVE Holds(h, p)
      BY <1>4, <2>3, <3>5, HoldsAt, HoldsAtNext
    <3>6. QED
      BY <3>2, <3>3, <3>4, <3>5, HopFacts
  <2>4. \A g \in Hops : Holds(g, x) => ~Holds(g, x)'
    BY <1>7, <1>8, <1>10, HoldsAtNext
  <2>5. QED
    BY <1>4, <1>7, <1>9, <2>2, <2>3, <2>4, DataMoves, HopFacts, UniqueTypes DEF Loses
<1>13. QED
  BY <1>4, <1>11, <1>12

(***************************************************************************)
(* Dispatch: from the queue to a back end to the queue from it.            *)
(***************************************************************************)
LEMMA UniqueDispatch ==
    ASSUME UniqueInv, PathInv', NEW b \in BackEnds, Dispatch(b)
    PROVE  UniqueInv'
<1>1. PICK msg : msg = Head(to_back[b])
  OBVIOUS
<1>2. PICK m : m = IF msg.id = "SYN" THEN HandshakeToConn(msg) ELSE SendDataToConn(msg)
  OBVIOUS
<1>3. /\ to_back[b] # <<>> /\ to_back' = [to_back EXCEPT ![b] = Tail(@)]
      /\ from_back' = [from_back EXCEPT ![b] = Append(@, m)]
      /\ UNCHANGED <<up, down, got>>
  BY <1>1, <1>2 DEF Dispatch, clientVars, linkVars
<1>4. msg \in ToMsgs
  BY <1>1, <1>3, UniqueTypes
<1>5. CASE msg.id = "SYN"
  <2>1. m.data = NoData
    BY <1>2, <1>5 DEF HandshakeToConn, SSMsg
  <2>2. QED
    BY <1>3, <2>1, OnlyLosses DEF Touched, LossyStep
<1>6. CASE msg.id # "SYN"
  <2>1. PICK x : x = msg.data
    OBVIOUS
  <2>2. m.data = x
    BY <1>2, <1>6, <2>1 DEF SendDataToConn, SSMsg
  <2>3. \E c \in Conns : x \in Own(c)
    BY <1>4, <1>6, <2>1 DEF ToMsgs
  <2>4. x \in Payload
    BY <2>3, UniqueTypes
  <2>5. to_back[b] \in Seq(ToMsgs) /\ NoRepeat(to_back[b]) /\ to_back'[b] = Tail(to_back[b])
    BY <1>3, UniqueTypes
  <2>6. Carries(to_back[b], x) /\ ~Carries(to_back'[b], x)
    BY <1>1, <1>3, <2>1, <2>4, <2>5, HeadCarried, CarriesTail
  <2>7. \A d \in BackEnds : Loses(to_back[d], to_back'[d])
    BY <1>3, TouchedLoses, UniqueTypes DEF Touched
  <2>8. \A h \in Hops : Holds(h, x) => h = ToHop(b)
    BY <2>4, <2>6, HoldsAt, HopFacts DEF UniqueInv, OnePlace
  <2>9. ~Carries(from_back[b], x)
    BY <2>8, HopFacts, HopsDiffer, HoldsAt
  <2>10. /\ \A d \in BackEnds : NoRepeat(from_back'[d])
         /\ \A d \in BackEnds : d # b => from_back'[d] = from_back[d]
         /\ \A p : Carries(from_back'[b], p) => Carries(from_back[b], p) \/ p = x
    <3>1. ~Carries(from_back[b], m.data)
      BY <2>2, <2>9
    <3>2. /\ from_back \in [BackEnds -> Seq(FromMsgs)]
          /\ \A d \in BackEnds : NoRepeat(from_back[d])
      BY UniqueTypes
    <3>3. from_back[b] \in Seq(FromMsgs) /\ NoRepeat(from_back[b])
      BY <3>2
    <3>4. /\ NoRepeat(Append(from_back[b], m))
          /\ \A p : Carries(Append(from_back[b], m), p) => Carries(from_back[b], p) \/ p = m.data
      BY <3>1, <3>3, CarriesAppend
    <3>5. /\ from_back'[b] = Append(from_back[b], m)
          /\ \A d \in BackEnds : d # b => from_back'[d] = from_back[d]
      BY <1>3, <3>2
    <3>6. QED
      BY <2>2, <3>2, <3>4, <3>5
  <2>11. ASSUME NEW p \in Payload, NEW h \in Hops, Holds(h, p)'
         PROVE  Holds(h, p) \/ (h = FromHop(b) /\ p = x)
    <3>1. CASE h = UpHop
      BY <1>3, <2>11, <3>1, HoldsAt, HoldsAtNext
    <3>2. CASE h = DownHop
      BY <1>3, <2>11, <3>2, HoldsAt, HoldsAtNext
    <3>3. CASE h = GotHop
      BY <1>3, <2>11, <3>3, HoldsAt, HoldsAtNext
    <3>4. ASSUME NEW d \in BackEnds, h = ToHop(d) PROVE Holds(h, p)
      BY <2>7, <2>11, <3>4, HoldsAt, HoldsAtNext DEF Loses
    <3>5. ASSUME NEW d \in BackEnds, h = FromHop(d)
          PROVE  Holds(h, p) \/ (h = FromHop(b) /\ p = x)
      BY <2>10, <2>11, <3>5, HoldsAt, HoldsAtNext
    <3>6. QED
      BY <3>1, <3>2, <3>3, <3>4, <3>5, HopFacts
  <2>12. \A g \in Hops : Holds(g, x) => ~Holds(g, x)'
    BY <2>6, <2>8, HoldsAtNext
  <2>13. QED
    BY <1>3, <2>4, <2>7, <2>10, <2>11, <2>12, DataMoves, HopFacts, UniqueTypes DEF Loses
<1>7. QED
  BY <1>5, <1>6

(***************************************************************************)
(* ForwardDownSideMessage: from the back end's queue to the client's, or   *)
(* lost.                                                                   *)
(***************************************************************************)
LEMMA UniqueForwardDown ==
    ASSUME UniqueInv, PathInv', NEW b \in BackEnds, ForwardDownSideMessage(b)
    PROVE  UniqueInv'
<1>1. PICK msg : msg = Head(from_back[b])
  OBVIOUS
<1>2. /\ from_back[b] # <<>> /\ from_back' = [from_back EXCEPT ![b] = Tail(@)]
      /\ Found(msg) /\ msg.id = "DATA" /\ SendDown(FrontNet(msg), "DATA", msg.data)
      /\ UNCHANGED <<up, to_back, got>>
  BY <1>1 DEF ForwardDownSideMessage, DownSideMessage, clientVars
<1>3. PICK c \in Conns : c = FrontNet(msg) /\ msg.data \in Own(c)
  BY <1>1, <1>2, FromHead DEF UniqueInv
<1>4. PICK x : x = msg.data
  OBVIOUS
<1>5. PICK m : m = CSMsg("DATA", 0, x)
  OBVIOUS
<1>6. m.data = x /\ (down' = down \/ down' = [down EXCEPT ![c] = Append(@, m)])
  BY <1>2, <1>3, <1>4, <1>5 DEF SendDown, CSMsg
<1>7. x \in Payload /\ x.conn = c
  BY <1>3, <1>4, UniqueTypes
<1>8. from_back[b] \in Seq(FromMsgs) /\ NoRepeat(from_back[b]) /\ from_back'[b] = Tail(from_back[b])
  BY <1>2, UniqueTypes
<1>9. Carries(from_back[b], x) /\ ~Carries(from_back'[b], x)
  BY <1>1, <1>2, <1>4, <1>7, <1>8, HeadCarried, CarriesTail
<1>10. \A d \in BackEnds : Loses(from_back[d], from_back'[d])
  BY <1>2, TouchedLoses, UniqueTypes DEF Touched
<1>11. \A h \in Hops : Holds(h, x) => h = FromHop(b)
  BY <1>7, <1>9, HoldsAt, HopFacts DEF UniqueInv, OnePlace
<1>12. CASE down' = down
  BY <1>2, <1>12, OnlyLosses DEF Touched, LossyStep
<1>13. CASE down' = [down EXCEPT ![c] = Append(@, m)]
  <2>1. ~Carries(down[c], x)
    BY <1>7, <1>11, HopFacts, HopsDiffer, HoldsAt
  <2>2. /\ \A d \in Conns : NoRepeat(down'[d])
        /\ \A d \in Conns : d # c => down'[d] = down[d]
        /\ \A p : Carries(down'[c], p) => Carries(down[c], p) \/ p = x
    <3>1. ~Carries(down[c], m.data)
      BY <1>6, <2>1
    <3>2. down \in [Conns -> Seq(CSMsgs)] /\ \A d \in Conns : NoRepeat(down[d])
      BY UniqueTypes
    <3>3. down[c] \in Seq(CSMsgs) /\ NoRepeat(down[c])
      BY <3>2
    <3>4. /\ NoRepeat(Append(down[c], m))
          /\ \A p : Carries(Append(down[c], m), p) => Carries(down[c], p) \/ p = m.data
      BY <3>1, <3>3, CarriesAppend
    <3>5. down'[c] = Append(down[c], m) /\ \A d \in Conns : d # c => down'[d] = down[d]
      BY <1>13, <3>2
    <3>6. QED
      BY <1>6, <3>2, <3>4, <3>5
  <2>3. ASSUME NEW p \in Payload, NEW h \in Hops, Holds(h, p)'
        PROVE  Holds(h, p) \/ (h = DownHop /\ p = x)
    <3>1. p.conn \in Conns
      BY DEF Payload
    <3>2. CASE h = DownHop
      BY <2>2, <2>3, <3>1, <3>2, HoldsAt, HoldsAtNext
    <3>3. CASE h = UpHop \/ h = GotHop
      BY <1>2, <2>3, <3>3, HoldsAt, HoldsAtNext
    <3>4. ASSUME NEW d \in BackEnds, h = ToHop(d) PROVE Holds(h, p)
      BY <1>2, <2>3, <3>4, HoldsAt, HoldsAtNext
    <3>5. ASSUME NEW d \in BackEnds, h = FromHop(d) PROVE Holds(h, p)
      BY <1>10, <2>3, <3>5, HoldsAt, HoldsAtNext DEF Loses
    <3>6. QED
      BY <3>2, <3>3, <3>4, <3>5, HopFacts
  <2>4. \A g \in Hops : Holds(g, x) => ~Holds(g, x)'
    BY <1>9, <1>11, HoldsAtNext
  <2>5. QED
    BY <1>2, <1>7, <1>10, <2>2, <2>3, <2>4, DataMoves, HopFacts, UniqueTypes DEF Loses
<1>14. QED
  BY <1>6, <1>12, <1>13

(***************************************************************************)
(* PopMessage: from the client's queue to what it has taken.               *)
(***************************************************************************)
LEMMA UniquePop ==
    ASSUME UniqueInv, PathInv', NEW c \in Conns, PopMessage(c)
    PROVE  UniqueInv'
<1>1. PICK x : x = Head(down[c]).data
  OBVIOUS
<1>2. /\ down[c] # <<>> /\ down' = [down EXCEPT ![c] = Tail(@)]
      /\ got' = IF Head(down[c]).id = "DATA" THEN [got EXCEPT ![c] = Append(@, x)] ELSE got
      /\ UNCHANGED <<up, to_back, from_back>>
  BY <1>1 DEF PopMessage, backVars
<1>3. CASE Head(down[c]).id # "DATA"
  BY <1>2, <1>3, OnlyLosses DEF Touched, LossyStep
<1>4. CASE Head(down[c]).id = "DATA"
  <2>1. x \in Own(c)
    BY <1>1, <1>2, <1>4, ClientFacts DEF UniqueInv, DownMsgs, UpMsgs
  <2>2. x \in Payload /\ x.conn = c
    BY <2>1, UniqueTypes
  <2>3. down[c] \in Seq(CSMsgs) /\ NoRepeat(down[c]) /\ down'[c] = Tail(down[c])
    BY <1>2, UniqueTypes
  <2>4. Carries(down[c], x) /\ ~Carries(down'[c], x)
    BY <1>1, <1>2, <2>2, <2>3, HeadCarried, CarriesTail
  <2>5. \A d \in Conns : Loses(down[d], down'[d])
    BY <1>2, TouchedLoses, UniqueTypes DEF Touched
  <2>6. \A h \in Hops : Holds(h, x) => h = DownHop
    BY <2>2, <2>4, HoldsAt, HopFacts DEF UniqueInv, OnePlace
  <2>7. got \in [Conns -> Seq(Payload)] /\ got[c] \in Seq(Payload)
    BY DEF UniqueInv, PathInv, GotOK
  <2>8. got'[c] = Append(got[c], x) /\ \A d \in Conns : d # c => got'[d] = got[d]
    BY <1>2, <1>4, <2>7
  <2>9. ASSUME NEW p \in Payload, NEW h \in Hops, Holds(h, p)'
        PROVE  Holds(h, p) \/ (h = GotHop /\ p = x)
    <3>1. p.conn \in Conns
      BY DEF Payload
    <3>2. CASE h = DownHop
      BY <2>5, <2>9, <3>1, <3>2, HoldsAt, HoldsAtNext DEF Loses
    <3>3. CASE h = UpHop
      BY <1>2, <2>9, <3>3, HoldsAt, HoldsAtNext
    <3>4. CASE h = GotHop
      <4>1. PICK i \in 1 .. Len(got'[p.conn]) : got'[p.conn][i] = p
        BY <2>9, <3>4, HoldsAtNext
      <4>2. CASE p.conn # c
        BY <2>8, <3>1, <3>4, <4>1, <4>2, HoldsAt
      <4>3. CASE p.conn = c
        <5>1. /\ Len(got'[c]) = Len(got[c]) + 1 /\ got'[c][Len(got[c]) + 1] = x
              /\ \A j \in 1 .. Len(got[c]) : got'[c][j] = got[c][j]
          BY <2>7, <2>8, AppendAt
        <5>2. Len(got[c]) \in Nat
          BY <2>7
        <5>3. i \in 1 .. Len(got[c]) \/ i = Len(got[c]) + 1
          BY <4>1, <4>3, <5>1, <5>2
        <5>4. QED
          BY <3>4, <4>1, <4>3, <5>1, <5>3, HoldsAt
      <4>4. QED
        BY <4>2, <4>3
    <3>5. ASSUME NEW d \in BackEnds, h = ToHop(d) PROVE Holds(h, p)
      BY <1>2, <2>9, <3>5, HoldsAt, HoldsAtNext
    <3>6. ASSUME NEW d \in BackEnds, h = FromHop(d) PROVE Holds(h, p)
      BY <1>2, <2>9, <3>6, HoldsAt, HoldsAtNext
    <3>7. QED
      BY <3>2, <3>3, <3>4, <3>5, <3>6, HopFacts
  <2>10. \A g \in Hops : Holds(g, x) => ~Holds(g, x)'
    BY <2>2, <2>4, <2>6, HoldsAtNext
  <2>11. QED
    BY <1>2, <2>2, <2>5, <2>9, <2>10, DataMoves, HopFacts, UniqueTypes DEF Loses
<1>5. QED
  BY <1>3, <1>4

(***************************************************************************)
(* UniqueInv is an invariant.                                              *)
(***************************************************************************)
LEMMA UniqueInit == Init => UniqueInv
<1> SUFFICES ASSUME Init PROVE UniqueInv
  OBVIOUS
<1>1. /\ to_back = [b \in BackEnds |-> <<>>] /\ from_back = [b \in BackEnds |-> <<>>]
      /\ up = [c \in Conns |-> <<>>] /\ down = [c \in Conns |-> <<>>]
      /\ got = [c \in Conns |-> <<>>]
  BY DEF Init, Connect
<1>2. ASSUME NEW p \in Payload, NEW h \in Hops PROVE ~Holds(h, p)
  <2>1. p.conn \in Conns
    BY DEF Payload
  <2>2. CASE h = UpHop \/ h = DownHop
    BY <1>1, <2>1, <2>2, HoldsAt, CarriesNothing
  <2>3. CASE h = GotHop
    BY <1>1, <2>1, <2>3, HoldsAt
  <2>4. ASSUME NEW b \in BackEnds, h = ToHop(b) \/ h = FromHop(b) PROVE ~Holds(h, p)
    <3>1. to_back[b] = <<>> /\ from_back[b] = <<>>
      BY <1>1, <2>4
    <3>2. ~Carries(to_back[b], p) /\ ~Carries(from_back[b], p)
      BY <3>1, CarriesNothing
    <3>3. ~Holds(ToHop(b), p) /\ ~Holds(FromHop(b), p)
      BY <3>2, HoldsAt, Zenon
    <3>4. QED
      BY <2>4, <3>3
  <2>5. QED
    BY <2>2, <2>3, <2>4, HopFacts
<1>3. OnePlace
  BY <1>2 DEF OnePlace
<1>4. QED
  BY <1>1, <1>3, PathInit, CarriesNothing DEF UniqueInv

(***************************************************************************)
(* Every step keeps UniqueInv.                                             *)
(***************************************************************************)
LEMMA UniqueStep == UniqueInv /\ [Next]_vars => UniqueInv'
<1> SUFFICES ASSUME UniqueInv, [Next]_vars PROVE UniqueInv'
  OBVIOUS
<1>1. PathInv'
  BY PathStep DEF UniqueInv
<1>2. PathInv
  BY DEF UniqueInv
<1>3. ASSUME NEW c \in Conns, ClientStep(c) PROVE UniqueInv'
  BY <1>1, <1>3, <1>2, ClientsLose, OnlyLosses, UniquePop DEF ClientStep
<1>4. ASSUME NEW c \in Conns, PushMessage(c) \/ PushMessageFailed(c) \/ Terminate(c)
      PROVE  UniqueInv'
  BY <1>1, <1>4, <1>2, UniquePush, ClientsLose, OnlyLosses
<1>5. ASSUME NEW c \in Conns, FrontStep(c) \/ CloseIdle(c) PROVE UniqueInv'
  BY <1>1, <1>5, <1>2, FrontLoses, OnlyLosses, UniqueForwardUp DEF FrontStep
<1>6. ASSUME NEW b \in BackEnds, \/ BackStep(b) \/ OnBackEndRefused(b) \/ Crash(b)
                              \/ Dispatch(b) \/ DispatchStops(b)
      PROVE  UniqueInv'
  BY <1>1, <1>6, <1>2, BackLoses, ElseLoses, OnlyLosses, UniqueForwardDown, UniqueDispatch
     DEF BackStep
<1>7. CASE \/ \E fd \in Fds : ClientConnect(fd)
           \/ \E b \in BackEnds, k \in known : StopConn(b, k)
           \/ CloseNone \/ UNCHANGED vars
  BY <1>1, <1>7, <1>2, ElseLoses, OnlyLosses
<1>8. QED
  BY <1>3, <1>4, <1>5, <1>6, <1>7 DEF Next

(***************************************************************************)
(* UniqueInv is an invariant.                                              *)
(***************************************************************************)
LEMMA UniqueInvariant == Spec => []UniqueInv
BY UniqueInit, UniqueStep, PTL DEF Spec


-----------------------------------------------------------------------------
(***************************************************************************)
(* The refinement.  What PhaseOf makes of each client state, and of a step *)
(* of one client.                                                          *)
(***************************************************************************)
LEMMA PhaseFacts ==
    /\ PhaseOf("NONE") = "idle" /\ PhaseOf("DONE") = "open"
    /\ \A s \in {"TCP_SYNING", "KEY_SYNING", "AUTHING", "READY"} : PhaseOf(s) = "handshake"
    /\ \A s \in {"FAILED", "FINI"} : PhaseOf(s) = "closed"
BY DEF PhaseOf

(***************************************************************************)
(* A step of client c to state s is a step of c's phase.                   *)
(***************************************************************************)
LEMMA PhaseMoves ==
    ASSUME PathInv, NEW c \in Conns, NEW s, client' = [client EXCEPT ![c] = s]
    PROVE  [d \in Conns |-> PhaseOf(client[d])]'
              = [[d \in Conns |-> PhaseOf(client[d])] EXCEPT ![c] = PhaseOf(s)]
<1>1. client'[c] = s /\ \A d \in Conns : d # c => client'[d] = client[d]
  BY DEF PathInv, ClientOK
<1>2. \A d \in Conns : PhaseOf(client'[d]) = IF d = c THEN PhaseOf(s) ELSE PhaseOf(client[d])
  BY <1>1
<1>3. QED
  BY <1>2

(***************************************************************************)
(* A step that changes neither a phase nor a count nor an answer is a      *)
(* stuttering step of the service.                                         *)
(***************************************************************************)
LEMMA EchoStutters ==
    ASSUME UNCHANGED <<pushed, got>>,
           \/ UNCHANGED client
           \/ \E c \in Conns : \E s : /\ client' = [client EXCEPT ![c] = s]
                                      /\ PhaseOf(s) = PhaseOf(client[c]),
           PathInv
    PROVE  UNCHANGED Echo!echoVars
<1>1. CASE UNCHANGED client
  BY <1>1 DEF Echo!echoVars
<1>2. ASSUME NEW c \in Conns, NEW s, client' = [client EXCEPT ![c] = s],
             PhaseOf(s) = PhaseOf(client[c])
      PROVE  UNCHANGED Echo!echoVars
  <2>1. [d \in Conns |-> PhaseOf(client[d])]' = [d \in Conns |-> PhaseOf(client[d])]
    BY <1>2, PhaseMoves
  <2>2. QED
    BY <2>1 DEF Echo!echoVars
<1>3. QED
  BY <1>1, <1>2

(***************************************************************************)
(* A client that changes its phase makes one of the moves of the service.  *)
(***************************************************************************)
LEMMA EchoMoves ==
    ASSUME PathInv, NEW c \in Conns, NEW s, client' = [client EXCEPT ![c] = s],
           UNCHANGED <<pushed, got>>,
           \/ client[c] = "NONE" /\ s = "TCP_SYNING"
           \/ client[c] = "READY" /\ s = "DONE"
           \/ ClientOpen(c) /\ s \in {"FAILED", "FINI"}
    PROVE  Echo!EchoNext
<1>1. PICK ph : ph = [d \in Conns |-> PhaseOf(client[d])]
  OBVIOUS
<1>2. [d \in Conns |-> PhaseOf(client[d])]' = [ph EXCEPT ![c] = PhaseOf(s)]
  BY <1>1, PhaseMoves
<1>3. ph[c] = PhaseOf(client[c])
  BY <1>1
<1>4. CASE client[c] = "NONE" /\ s = "TCP_SYNING"
  <2>1. ph[c] = "idle" /\ PhaseOf(s) = "handshake"
    BY <1>3, <1>4, PhaseFacts
  <2>2. Echo!Begin(c)
    BY <1>1, <1>2, <2>1 DEF Echo!Begin, Echo!Move
  <2>3. QED
    BY <2>2 DEF Echo!EchoNext
<1>5. CASE client[c] = "READY" /\ s = "DONE"
  <2>1. ph[c] = "handshake" /\ PhaseOf(s) = "open"
    BY <1>3, <1>5, PhaseFacts
  <2>2. Echo!Open(c)
    BY <1>1, <1>2, <2>1 DEF Echo!Open, Echo!Move
  <2>3. QED
    BY <2>2 DEF Echo!EchoNext
<1>6. CASE ClientOpen(c) /\ s \in {"FAILED", "FINI"}
  <2>1. client[c] \in {"TCP_SYNING", "KEY_SYNING", "AUTHING", "READY"} \/ client[c] = "DONE"
    BY <1>6 DEF ClientOpen, PathInv, ClientOK
  <2>2. ph[c] \in {"handshake", "open"} /\ PhaseOf(s) = "closed"
    BY <1>3, <1>6, <2>1, PhaseFacts
  <2>3. Echo!End(c)
    BY <1>1, <1>2, <2>2 DEF Echo!End, Echo!Move
  <2>4. QED
    BY <2>3 DEF Echo!EchoNext
<1>7. QED
  BY <1>4, <1>5, <1>6

(***************************************************************************)
(* PushMessage, successful or not, asks.                                   *)
(***************************************************************************)
LEMMA EchoAsks ==
    ASSUME PathInv, NEW c \in Conns, PushMessage(c) \/ PushMessageFailed(c)
    PROVE  Echo!EchoNext
<1>1. /\ MayPush(c) /\ pushed[c] < MaxPush /\ pushed' = [pushed EXCEPT ![c] = @ + 1]
      /\ UNCHANGED <<client, got>>
  BY DEF PushMessage, PushMessageFailed
<1>2. client[c] \in {"TCP_SYNING", "KEY_SYNING", "AUTHING", "READY"} \/ client[c] = "DONE"
  BY <1>1 DEF MayPush, ClientOpen, PathInv, ClientOK
<1>3. PhaseOf(client[c]) \in {"handshake", "open"}
  BY <1>2, PhaseFacts
<1>4. [d \in Conns |-> PhaseOf(client[d])][c] = PhaseOf(client[c])
  OBVIOUS
<1>5. [d \in Conns |-> PhaseOf(client[d])]' = [d \in Conns |-> PhaseOf(client[d])]
  BY <1>1
<1>6. Echo!Ask(c)
  BY <1>1, <1>3, <1>4, <1>5 DEF Echo!Ask
<1>7. QED
  BY <1>6 DEF Echo!EchoNext

(***************************************************************************)
(* PopMessage of data answers: the data is in the down queue and therefore *)
(* not among what the client has taken.                                    *)
(***************************************************************************)
LEMMA EchoAnswers ==
    ASSUME UniqueInv, NEW c \in Conns, PopMessage(c), Head(down[c]).id = "DATA"
    PROVE  Echo!EchoNext
<1>1. PICK x : x = Head(down[c]).data
  OBVIOUS
<1>2. /\ client[c] = "DONE" /\ down[c] # <<>>
      /\ got' = [got EXCEPT ![c] = Append(@, x)]
      /\ UNCHANGED <<client, pushed>>
  BY <1>1 DEF PopMessage
<1>3. x \in Own(c)
  BY <1>1, <1>2, ClientFacts DEF UniqueInv, DownMsgs, UpMsgs
<1>4. x \in Payload /\ x.conn = c
  BY <1>3, UniqueTypes
<1>5. PICK n \in 1 .. pushed[c] : x = [conn |-> c, n |-> n]
  BY <1>3 DEF Own
<1>6. down[c] \in Seq(CSMsgs)
  BY UniqueTypes
<1>7. Carries(down[c], x)
  BY <1>1, <1>2, <1>6, HeadCarried
<1>8. ~Holds(GotHop, x)
  BY <1>4, <1>7, HoldsAt, HopFacts, HopsDiffer DEF UniqueInv, OnePlace
<1>9. ASSUME NEW i \in 1 .. Len(got[c]) PROVE got[c][i].n # n
  <2>1. got[c][i] \in Own(c)
    BY ElementOfSeq DEF UniqueInv, PathInv, GotOK
  <2>2. PICK k \in 1 .. pushed[c] : got[c][i] = [conn |-> c, n |-> k]
    BY <2>1 DEF Own
  <2>3. got[c][i] # x
    BY <1>4, <1>8, HoldsAt
  <2>4. QED
    BY <1>5, <2>2, <2>3
<1>10. [d \in Conns |-> PhaseOf(client[d])][c] = "open"
  BY <1>2, PhaseFacts
<1>11. [d \in Conns |-> PhaseOf(client[d])]' = [d \in Conns |-> PhaseOf(client[d])]
  BY <1>2
<1>12. Echo!Answer(c, n)
  BY <1>2, <1>5, <1>9, <1>10, <1>11 DEF Echo!Answer
<1>13. QED
  BY <1>5, <1>12 DEF Echo!EchoNext

(***************************************************************************)
(* Every step of the connector system is a step of the service or none.    *)
(***************************************************************************)
LEMMA EchoStep == UniqueInv /\ [Next]_vars => [Echo!EchoNext]_(Echo!echoVars)
<1> SUFFICES ASSUME UniqueInv, [Next]_vars
             PROVE  Echo!EchoNext \/ UNCHANGED Echo!echoVars
  OBVIOUS
<1>1. PathInv
  BY DEF UniqueInv
<1>2. ASSUME NEW fd \in Fds, ClientConnect(fd) PROVE Echo!EchoNext
  <2>1. PICK c : c = ConnOf(nid_seed)
    OBVIOUS
  <2>2. /\ pool[fd] = NoNet /\ nid_seed < MaxNid
        /\ pool' = [pool EXCEPT ![fd] = nid_seed] /\ nid_seed' = nid_seed + 1
        /\ session' = [session EXCEPT ![fd] = NewSession]
        /\ conn_fd' = [conn_fd EXCEPT ![c] = fd]
        /\ client' = [client EXCEPT ![c] = "TCP_SYNING"] /\ UNCHANGED <<pushed, got>>
    BY <1>2, <2>1 DEF ClientConnect, OnFrontEndConnect, AddHandlerBySocket
  <2>3. c \in Conns /\ ~Begun(c)
    BY <1>1, <2>1, <2>2, ConnectionComes DEF PathInv
  <2>4. client[c] = "NONE"
    BY <1>1, <2>3 DEF PathInv, ClientOK
  <2>5. QED
    BY <1>1, <2>2, <2>3, <2>4, EchoMoves
<1>3. ASSUME NEW c \in Conns, HandShake_SYN(c) \/ TryAck(c) \/ TryReady(c) \/ TryDone(c)
      PROVE  Echo!EchoNext \/ UNCHANGED Echo!echoVars
  <2>1. UNCHANGED <<pushed, got>>
    BY <1>3 DEF HandShake_SYN, TryAck, TryReady, TryDone, TryNext
  <2>2. CASE HandShake_SYN(c)
    <3>1. client[c] = "TCP_SYNING" /\ client' = [client EXCEPT ![c] = "KEY_SYNING"]
      BY <2>2 DEF HandShake_SYN
    <3>2. PhaseOf("KEY_SYNING") = PhaseOf(client[c])
      BY <3>1, PhaseFacts
    <3>3. QED
      BY <1>1, <2>1, <3>1, <3>2, EchoStutters
  <2>3. CASE TryAck(c)
    <3>1. client[c] = "KEY_SYNING"
          /\ (client' = [client EXCEPT ![c] = "AUTHING"] \/ UNCHANGED client)
      BY <2>3 DEF TryAck
    <3>2. PhaseOf("AUTHING") = PhaseOf(client[c])
      BY <3>1, PhaseFacts
    <3>3. QED
      BY <1>1, <2>1, <3>1, <3>2, EchoStutters
  <2>4. CASE TryReady(c)
    <3>1. client[c] = "AUTHING" /\ \E s \in {"READY", "FAILED"} : client' = [client EXCEPT ![c] = s]
      BY <2>4 DEF TryReady, TryNext
    <3>2. PhaseOf("READY") = PhaseOf(client[c]) /\ ClientOpen(c)
      BY <3>1, PhaseFacts DEF ClientOpen
    <3>3. CASE client' = [client EXCEPT ![c] = "READY"]
      BY <1>1, <2>1, <3>2, <3>3, EchoStutters
    <3>4. CASE client' = [client EXCEPT ![c] = "FAILED"]
      BY <1>1, <2>1, <3>2, <3>4, EchoMoves
    <3>5. QED
      BY <3>1, <3>3, <3>4
  <2>5. CASE TryDone(c)
    <3>1. client[c] = "READY" /\ \E s \in {"DONE", "FAILED"} : client' = [client EXCEPT ![c] = s]
      BY <2>5 DEF TryDone, TryNext
    <3>2. ClientOpen(c)
      BY <3>1 DEF ClientOpen
    <3>3. QED
      BY <1>1, <2>1, <3>1, <3>2, EchoMoves
  <2>6. QED
    BY <1>3, <2>2, <2>3, <2>4, <2>5
<1>4. ASSUME NEW c \in Conns, OnServerClose(c) \/ Terminate(c) PROVE Echo!EchoNext
  <2>1. /\ ClientOpen(c) /\ UNCHANGED <<pushed, got>>
        /\ \E s \in {"FAILED", "FINI"} : client' = [client EXCEPT ![c] = s]
    BY <1>4 DEF OnServerClose, Terminate
  <2>2. QED
    BY <1>1, <2>1, EchoMoves
<1>5. ASSUME NEW c \in Conns, PopMessage(c)
      PROVE  Echo!EchoNext \/ UNCHANGED Echo!echoVars
  <2>1. CASE Head(down[c]).id = "DATA"
    BY <1>5, <2>1, EchoAnswers
  <2>2. CASE Head(down[c]).id # "DATA"
    <3>1. UNCHANGED <<client, pushed, got>>
      BY <1>5, <2>2 DEF PopMessage
    <3>2. QED
      BY <1>1, <3>1, EchoStutters
  <2>3. QED
    BY <2>1, <2>2
<1>6. ASSUME NEW c \in Conns, FrontStep(c) \/ CloseIdle(c)
      PROVE  UNCHANGED Echo!echoVars
  <2>1. UNCHANGED <<client, pushed, got>>
    BY <1>6 DEF FrontStep, UpSideRejected, HandleKeyMaking, ClientStartsApp, UpSideAnswered,
                HandleAuthRequest, ForwardUpSideMessage, OnFrontEndClose, CloseIdle, clientVars
  <2>2. QED
    BY <1>1, <2>1, EchoStutters
<1>7. ASSUME NEW b \in BackEnds, \/ BackStep(b) \/ OnBackEndRefused(b) \/ Crash(b)
                              \/ Dispatch(b) \/ DispatchStops(b)
      PROVE  UNCHANGED Echo!echoVars
  <2>1. UNCHANGED <<client, pushed, got>>
    BY <1>7 DEF BackStep, DownSideIgnored, HandShake_OnStartAcked, HandShake_OnStopNotify,
                ForwardDownSideMessage, DownSideRefused, DownSideMessage, OnBackEndConnected,
                OnBackEndLost, OnBackEndRefused, BackNetEvent, Crash, Dispatch,
                DispatchStops, clientVars
  <2>2. QED
    BY <1>1, <2>1, EchoStutters
<1>8. CASE \/ \E b \in BackEnds, k \in known : StopConn(b, k)
           \/ CloseNone \/ UNCHANGED vars
  <2>1. UNCHANGED <<client, pushed, got>>
    BY <1>8 DEF StopConn, CloseNone, vars, clientVars
  <2>2. QED
    BY <1>1, <2>1, EchoStutters
<1>9. ASSUME NEW c \in Conns, PushMessage(c) \/ PushMessageFailed(c) PROVE Echo!EchoNext
  BY <1>1, <1>9, EchoAsks
<1>10. QED
  BY <1>2, <1>3, <1>4, <1>5, <1>6, <1>7, <1>8, <1>9 DEF Next, ClientStep

(***************************************************************************)
(* The connector with its clients and back ends is an implementation of    *)
(* EchoService, for any number of connections and back ends, however early *)
(* the clients push and whatever fails: what a client takes answers a      *)
(* message it pushed on that connection and did not get an answer to yet   *)
(* (PushMessage, ForwardUpSideMessage, Dispatch, ForwardDownSideMessage,   *)
(* PopMessage).                                                            *)
(***************************************************************************)
THEOREM ConnectorImplementsEcho == Spec => ImplementsEcho
<1>1. Init => Echo!EchoInit
  <2> SUFFICES ASSUME Init PROVE Echo!EchoInit
    OBVIOUS
  <2>1. client = [c \in Conns |-> "NONE"] /\ pushed = [c \in Conns |-> 0]
        /\ got = [c \in Conns |-> <<>>]
    BY DEF Init
  <2>2. \A c \in Conns : PhaseOf(client[c]) = "idle"
    BY <2>1, PhaseFacts
  <2>3. QED
    BY <2>1, <2>2 DEF Echo!EchoInit
<1>2. QED
  BY <1>1, EchoStep, UniqueInvariant, PTL DEF Spec, ImplementsEcho, Echo!EchoSpec
-----------------------------------------------------------------------------
(***************************************************************************)
(* The place of data within a hop: the i-th of the queue, or the i-th that *)
(* the client has taken.                                                   *)
(***************************************************************************)
Sits(q, i, p) == i \in 1 .. Len(q) /\ q[i].data = p

Spot(h, i, p) ==
    \/ h.at = "up" /\ Sits(up[p.conn], i, p)
    \/ h.at = "down" /\ Sits(down[p.conn], i, p)
    \/ h.at = "got" /\ i \in 1 .. Len(got[p.conn]) /\ got[p.conn][i] = p
    \/ h.at = "to" /\ Sits(to_back[h.back], i, p)
    \/ h.at = "from" /\ Sits(from_back[h.back], i, p)

(***************************************************************************)
(* Spot, hop by hop, now and in the next state.                            *)
(***************************************************************************)
LEMMA SpotAt ==
    \A i, p : /\ Spot(UpHop, i, p) <=> Sits(up[p.conn], i, p)
              /\ Spot(DownHop, i, p) <=> Sits(down[p.conn], i, p)
              /\ Spot(GotHop, i, p) <=> i \in 1 .. Len(got[p.conn]) /\ got[p.conn][i] = p
              /\ \A b : /\ Spot(ToHop(b), i, p) <=> Sits(to_back[b], i, p)
                        /\ Spot(FromHop(b), i, p) <=> Sits(from_back[b], i, p)
<1>1. /\ UpHop.at = "up" /\ DownHop.at = "down" /\ GotHop.at = "got"
      /\ \A b : /\ ToHop(b).at = "to" /\ ToHop(b).back = b
                /\ FromHop(b).at = "from" /\ FromHop(b).back = b
  BY DEF UpHop, DownHop, GotHop, ToHop, FromHop
<1>2. QED
  BY <1>1 DEF Spot

(***************************************************************************)
(* The same in the next state.                                             *)
(***************************************************************************)
LEMMA SpotAtNext ==
    \A i, p : /\ Spot(UpHop, i, p)' <=> Sits(up'[p.conn], i, p)
              /\ Spot(DownHop, i, p)' <=> Sits(down'[p.conn], i, p)
              /\ Spot(GotHop, i, p)' <=> i \in 1 .. Len(got'[p.conn]) /\ got'[p.conn][i] = p
              /\ \A b : /\ Spot(ToHop(b), i, p)' <=> Sits(to_back'[b], i, p)
                        /\ Spot(FromHop(b), i, p)' <=> Sits(from_back'[b], i, p)
<1>1. /\ UpHop.at = "up" /\ DownHop.at = "down" /\ GotHop.at = "got"
      /\ \A b : /\ ToHop(b).at = "to" /\ ToHop(b).back = b
                /\ FromHop(b).at = "from" /\ FromHop(b).back = b
  BY DEF UpHop, DownHop, GotHop, ToHop, FromHop
<1>2. QED
  BY <1>1 DEF Spot

(***************************************************************************)
(* What has a spot is held.                                                *)
(***************************************************************************)
LEMMA SpotIsHeld == \A h, i, p : Spot(h, i, p) => Holds(h, p)
BY DEF Spot, Sits, Holds, Carries

(***************************************************************************)
(* The client takes nothing twice: what it takes next is still on its way  *)
(* down and, being in one place only, not among what it has taken.         *)
(***************************************************************************)
GotOnce == \A c \in Conns : \A i, j \in 1 .. Len(got[c]) : got[c][i] = got[c][j] => i = j

(***************************************************************************)
(* Only PopMessage changes got, and it appends the head of the queue.      *)
(***************************************************************************)
LEMMA GotChanges ==
    ASSUME PathInv, [Next]_vars
    PROVE  \/ UNCHANGED got
           \/ \E c \in Conns : /\ PopMessage(c) /\ down[c] # <<>> /\ Head(down[c]).id = "DATA"
                               /\ got' = [got EXCEPT ![c] = Append(@, Head(down[c]).data)]
<1>1. CASE \E fd \in Fds : ClientConnect(fd)
  BY <1>1 DEF ClientConnect
<1>2. ASSUME NEW c \in Conns, ClientStep(c) \/ PushMessage(c) \/ PushMessageFailed(c) \/ Terminate(c),
             ~PopMessage(c)
      PROVE  UNCHANGED got
  BY <1>2 DEF ClientStep, HandShake_SYN, TryAck, TryReady, TryDone, TryNext, OnServerClose,
              PushMessage, PushMessageFailed, Terminate
<1>3. ASSUME NEW c \in Conns, PopMessage(c)
      PROVE  \/ UNCHANGED got
             \/ /\ down[c] # <<>> /\ Head(down[c]).id = "DATA"
                /\ got' = [got EXCEPT ![c] = Append(@, Head(down[c]).data)]
  BY <1>3 DEF PopMessage
<1>4. ASSUME NEW c \in Conns, FrontStep(c) \/ CloseIdle(c) PROVE UNCHANGED got
  BY <1>4 DEF FrontStep, UpSideRejected, HandleKeyMaking, ClientStartsApp, UpSideAnswered,
              HandleAuthRequest, ForwardUpSideMessage, OnFrontEndClose, CloseIdle, clientVars
<1>5. ASSUME NEW b \in BackEnds, \/ BackStep(b) \/ OnBackEndRefused(b) \/ Crash(b)
                              \/ Dispatch(b) \/ DispatchStops(b)
      PROVE  UNCHANGED got
  BY <1>5 DEF BackStep, DownSideIgnored, HandShake_OnStartAcked, HandShake_OnStopNotify,
              ForwardDownSideMessage, DownSideRefused, DownSideMessage, OnBackEndConnected,
              OnBackEndLost, OnBackEndRefused, BackNetEvent, Crash, Dispatch,
              DispatchStops, clientVars
<1>6. CASE \/ \E b \in BackEnds, k \in known : StopConn(b, k)
           \/ CloseNone \/ UNCHANGED vars
  BY <1>6 DEF StopConn, CloseNone, vars, clientVars
<1>7. QED
  BY <1>1, <1>2, <1>3, <1>4, <1>5, <1>6 DEF Next

(***************************************************************************)
(* GotOnce follows step by step from UniqueInv.                            *)
(***************************************************************************)
LEMMA GotOnceStep == UniqueInv /\ GotOnce /\ [Next]_vars => GotOnce'
<1> SUFFICES ASSUME UniqueInv, GotOnce, [Next]_vars PROVE GotOnce'
  OBVIOUS
<1>1. CASE UNCHANGED got
  BY <1>1 DEF GotOnce
<1>2. ASSUME NEW c \in Conns, down[c] # <<>>, Head(down[c]).id = "DATA",
             got' = [got EXCEPT ![c] = Append(@, Head(down[c]).data)]
      PROVE  GotOnce'
  <2>1. PICK x : x = Head(down[c]).data
    OBVIOUS
  <2>2. x \in Own(c)
    BY <1>2, <2>1, ClientFacts DEF UniqueInv, DownMsgs, UpMsgs
  <2>3. x \in Payload /\ x.conn = c
    BY <2>2, UniqueTypes
  <2>4. Holds(DownHop, x)
    <3>1. down[c] \in Seq(CSMsgs)
      BY UniqueTypes
    <3>2. Carries(down[c], x)
      BY <1>2, <2>1, <3>1, HeadCarried
    <3>3. QED
      BY <2>3, <3>2, HoldsAt
  <2>5. ~Holds(GotHop, x)
    BY <2>3, <2>4, HopFacts, HopsDiffer DEF UniqueInv, OnePlace
  <2>6. got \in [Conns -> Seq(Payload)] /\ got[c] \in Seq(Payload)
    BY DEF UniqueInv, PathInv, GotOK
  <2>7. got'[c] = Append(got[c], x) /\ \A d \in Conns : d # c => got'[d] = got[d]
    BY <1>2, <2>1, <2>6
  <2>8. PICK n \in Nat : n = Len(got[c])
    BY <2>6
  <2>9. /\ Len(got'[c]) = n + 1 /\ got'[c][n + 1] = x
        /\ \A j \in 1 .. n : got'[c][j] = got[c][j]
    BY <2>6, <2>7, <2>8, AppendAt
  <2>10. \A j \in 1 .. n : got[c][j] # x
    BY <2>3, <2>5, <2>8, HoldsAt
  <2>11. \A i \in 1 .. n + 1 : i \in 1 .. n \/ i = n + 1
    BY <2>8
  <2>12. ASSUME NEW i \in 1 .. n + 1, NEW j \in 1 .. n + 1, got'[c][i] = got'[c][j]
         PROVE  i = j
    <3>1. CASE i \in 1 .. n /\ j \in 1 .. n
      BY <2>8, <2>9, <2>12, <3>1 DEF GotOnce
    <3>2. CASE i \in 1 .. n /\ j = n + 1
      BY <2>9, <2>10, <2>12, <3>2
    <3>3. CASE i = n + 1 /\ j \in 1 .. n
      BY <2>9, <2>10, <2>12, <3>3
    <3>4. QED
      BY <2>11, <3>1, <3>2, <3>3
  <2>13. QED
    BY <2>7, <2>9, <2>12 DEF GotOnce
<1>3. PathInv
  BY DEF UniqueInv
<1>4. QED
  BY <1>1, <1>2, <1>3, GotChanges

(***************************************************************************)
(* Every sighting is a spot in a hop.                                      *)
(***************************************************************************)
Label(h, i, p) == <<h.at, IF h.at \in {"to", "from"} THEN h.back ELSE p.conn, i>>

(***************************************************************************)
(* A sighting names a hop, its connection or back end, and the place       *)
(* there.                                                                  *)
(***************************************************************************)
LEMMA SightingIsSpot ==
    ASSUME NEW p \in Payload, NEW x \in Sightings(p)
    PROVE  \E h \in Hops : \E i : Spot(h, i, p) /\ x = Label(h, i, p)
<1>1. /\ UpHop.at = "up" /\ DownHop.at = "down" /\ GotHop.at = "got"
      /\ \A b : /\ ToHop(b).at = "to" /\ ToHop(b).back = b
                /\ FromHop(b).at = "from" /\ FromHop(b).back = b
  BY DEF UpHop, DownHop, GotHop, ToHop, FromHop
<1>2. CASE x \in {"up"} \X {p.conn} \X At(up[p.conn], p)
  <2>1. PICK i : i \in At(up[p.conn], p) /\ x = <<"up", p.conn, i>>
    BY <1>2
  <2>2. Spot(UpHop, i, p) /\ x = Label(UpHop, i, p)
    BY <1>1, <2>1, SpotAt DEF At, Sits, Label
  <2>3. QED
    BY <2>2, HopFacts
<1>3. CASE x \in {"down"} \X {p.conn} \X At(down[p.conn], p)
  <2>1. PICK i : i \in At(down[p.conn], p) /\ x = <<"down", p.conn, i>>
    BY <1>3
  <2>2. Spot(DownHop, i, p) /\ x = Label(DownHop, i, p)
    BY <1>1, <2>1, SpotAt DEF At, Sits, Label
  <2>3. QED
    BY <2>2, HopFacts
<1>4. CASE x \in {"got"} \X {p.conn} \X {i \in 1 .. Len(got[p.conn]) : got[p.conn][i] = p}
  <2>1. PICK i : i \in 1 .. Len(got[p.conn]) /\ got[p.conn][i] = p /\ x = <<"got", p.conn, i>>
    BY <1>4
  <2>2. Spot(GotHop, i, p) /\ x = Label(GotHop, i, p)
    BY <1>1, <2>1, SpotAt DEF Label
  <2>3. QED
    BY <2>2, HopFacts
<1>5. ASSUME NEW b \in BackEnds, x \in {"to"} \X {b} \X At(to_back[b], p)
      PROVE  \E h \in Hops : \E i : Spot(h, i, p) /\ x = Label(h, i, p)
  <2>1. PICK i : i \in At(to_back[b], p) /\ x = <<"to", b, i>>
    BY <1>5
  <2>2. Spot(ToHop(b), i, p) /\ x = Label(ToHop(b), i, p)
    BY <1>1, <2>1, SpotAt DEF At, Sits, Label
  <2>3. QED
    BY <2>2, HopFacts
<1>6. ASSUME NEW b \in BackEnds, x \in {"from"} \X {b} \X At(from_back[b], p)
      PROVE  \E h \in Hops : \E i : Spot(h, i, p) /\ x = Label(h, i, p)
  <2>1. PICK i : i \in At(from_back[b], p) /\ x = <<"from", b, i>>
    BY <1>6
  <2>2. Spot(FromHop(b), i, p) /\ x = Label(FromHop(b), i, p)
    BY <1>1, <2>1, SpotAt DEF At, Sits, Label
  <2>3. QED
    BY <2>2, HopFacts
<1>7. \/ x \in {"up"} \X {p.conn} \X At(up[p.conn], p)
      \/ x \in {"down"} \X {p.conn} \X At(down[p.conn], p)
      \/ x \in {"got"} \X {p.conn} \X {i \in 1 .. Len(got[p.conn]) : got[p.conn][i] = p}
      \/ x \in UNION {{"to"} \X {b} \X At(to_back[b], p) : b \in BackEnds}
      \/ x \in UNION {{"from"} \X {b} \X At(from_back[b], p) : b \in BackEnds}
  <2> DEFINE A == {"up"} \X {p.conn} \X At(up[p.conn], p)
             B == {"down"} \X {p.conn} \X At(down[p.conn], p)
             C == {"got"} \X {p.conn} \X {i \in 1 .. Len(got[p.conn]) : got[p.conn][i] = p}
             D == UNION {{"to"} \X {b} \X At(to_back[b], p) : b \in BackEnds}
             E == UNION {{"from"} \X {b} \X At(from_back[b], p) : b \in BackEnds}
  <2>1. Sightings(p) = A \cup B \cup C \cup D \cup E
    BY DEF Sightings
  <2> HIDE DEF A, B, C, D, E
  <2>2. x \in A \/ x \in B \/ x \in C \/ x \in D \/ x \in E
    BY <2>1
  <2>3. QED
    BY <2>2 DEF A, B, C, D, E
<1>8. CASE x \in UNION {{"to"} \X {b} \X At(to_back[b], p) : b \in BackEnds}
  <2>1. PICK b \in BackEnds : x \in {"to"} \X {b} \X At(to_back[b], p)
    BY <1>8
  <2>2. QED
    BY <1>5, <2>1
<1>9. CASE x \in UNION {{"from"} \X {b} \X At(from_back[b], p) : b \in BackEnds}
  <2>1. PICK b \in BackEnds : x \in {"from"} \X {b} \X At(from_back[b], p)
    BY <1>9
  <2>2. QED
    BY <1>6, <2>1
<1>10. QED
  BY <1>2, <1>3, <1>4, <1>7, <1>8, <1>9

(***************************************************************************)
(* In one hop data has one spot.                                           *)
(***************************************************************************)
LEMMA OneSpot ==
    ASSUME UniqueInv, GotOnce, NEW p \in Payload, NEW h \in Hops, NEW i, NEW j,
           Spot(h, i, p), Spot(h, j, p)
    PROVE  i = j
<1>1. p.conn \in Conns
  BY DEF Payload
<1>2. \A q : NoRepeat(q) /\ Sits(q, i, p) /\ Sits(q, j, p) => i = j
  BY DEF NoRepeat, Sits
<1>3. CASE h = UpHop
  BY <1>1, <1>2, <1>3, SpotAt DEF UniqueInv
<1>4. CASE h = DownHop
  BY <1>1, <1>2, <1>4, SpotAt DEF UniqueInv
<1>5. CASE h = GotHop
  BY <1>1, <1>5, SpotAt DEF GotOnce
<1>6. ASSUME NEW b \in BackEnds, h = ToHop(b) PROVE i = j
  <2>1. Sits(to_back[b], i, p) /\ Sits(to_back[b], j, p)
    BY <1>6, SpotAt
  <2>2. QED
    BY <1>2, <2>1 DEF UniqueInv
<1>7. ASSUME NEW b \in BackEnds, h = FromHop(b) PROVE i = j
  <2>1. Sits(from_back[b], i, p) /\ Sits(from_back[b], j, p)
    BY <1>7, SpotAt
  <2>2. QED
    BY <1>2, <2>1 DEF UniqueInv
<1>8. QED
  BY <1>3, <1>4, <1>5, <1>6, <1>7, HopFacts

(***************************************************************************)
(* A pushed message is at most once in the system, for any number of       *)
(* connections and back ends: no hop duplicates it, and no answer is taken *)
(* twice (ForwardUpSideMessage, Dispatch, ForwardDownSideMessage,          *)
(* PopMessage).                                                            *)
(***************************************************************************)
THEOREM MessagesAreNotDuplicated == Spec => []AtMostOnce
<1>1. Init => GotOnce
  <2> SUFFICES ASSUME Init PROVE GotOnce
    OBVIOUS
  <2>1. got = [c \in Conns |-> <<>>]
    BY DEF Init
  <2>2. \A c \in Conns : Len(got[c]) = 0
    BY <2>1
  <2>3. QED
    BY <2>2 DEF GotOnce
<1>2. UniqueInv /\ GotOnce => AtMostOnce
  <2> SUFFICES ASSUME UniqueInv, GotOnce, NEW p \in Payload,
                      NEW x \in Sightings(p), NEW y \in Sightings(p)
               PROVE  x = y
    BY DEF AtMostOnce
  <2>1. PICK g \in Hops : \E i : Spot(g, i, p) /\ x = Label(g, i, p)
    BY SightingIsSpot
  <2>2. PICK i : Spot(g, i, p) /\ x = Label(g, i, p)
    BY <2>1
  <2>3. PICK h \in Hops : \E j : Spot(h, j, p) /\ y = Label(h, j, p)
    BY SightingIsSpot
  <2>4. PICK j : Spot(h, j, p) /\ y = Label(h, j, p)
    BY <2>3
  <2>5. g = h
    BY <2>2, <2>4, SpotIsHeld DEF UniqueInv, OnePlace
  <2>6. i = j
    BY <2>2, <2>4, <2>5, OneSpot
  <2>7. QED
    BY <2>2, <2>4, <2>5, <2>6
<1>3. QED
  BY <1>1, <1>2, UniqueInvariant, UniqueStep, GotOnceStep, PTL DEF Spec
-----------------------------------------------------------------------------
(***************************************************************************)
(* The order of the hops on the way of a message, from its end: what is    *)
(* ahead has been pushed earlier.                                          *)
(***************************************************************************)
Rank(h) == CASE h.at = "got" -> 0 [] h.at = "down" -> 1 [] h.at = "from" -> 2
             [] h.at = "to" -> 3 [] OTHER -> 4

InFront(g, i, h, j) == Rank(g) < Rank(h) \/ (g = h /\ i < j)

OrderInv ==
    \A p, q \in Payload : \A g, h \in Hops : \A i, j :
        p.conn = q.conn /\ Spot(g, i, p) /\ Spot(h, j, q) /\ InFront(g, i, h, j) => p.n < q.n

(***************************************************************************)
(* The ranks are numbers, and with one back end each is that of one hop.   *)
(***************************************************************************)
LEMMA RankFacts ==
    /\ Rank(GotHop) = 0 /\ Rank(DownHop) = 1 /\ Rank(UpHop) = 4
    /\ \A b : Rank(FromHop(b)) = 2 /\ Rank(ToHop(b)) = 3
    /\ \A h \in Hops : Rank(h) \in 0 .. 4
<1>1. /\ UpHop.at = "up" /\ DownHop.at = "down" /\ GotHop.at = "got"
      /\ \A b : ToHop(b).at = "to" /\ FromHop(b).at = "from"
  BY DEF UpHop, DownHop, GotHop, ToHop, FromHop
<1>2. /\ Rank(GotHop) = 0 /\ Rank(DownHop) = 1 /\ Rank(UpHop) = 4
      /\ \A b : Rank(FromHop(b)) = 2 /\ Rank(ToHop(b)) = 3
  BY <1>1 DEF Rank
<1>3. \A h \in Hops : Rank(h) \in 0 .. 4
  BY <1>2, HopFacts
<1>4. QED
  BY <1>2, <1>3

(***************************************************************************)
(* With one back end a rank is the rank of one hop.                        *)
(***************************************************************************)
LEMMA RankNames ==
    ASSUME NumBackEnds = 1, NEW g \in Hops, NEW h \in Hops, Rank(g) = Rank(h)
    PROVE  g = h
<1>1. \A b \in BackEnds : b = 0
  BY DEF BackEnds
<1>2. \A f \in Hops : f \in {UpHop, DownHop, GotHop, ToHop(0), FromHop(0)}
  BY <1>1, HopFacts
<1>3. QED
  BY <1>2, RankFacts

(***************************************************************************)
(* Spots are numbered from 1.                                              *)
(***************************************************************************)
LEMMA SpotIsNumber ==
    /\ \A h, i, p : Spot(h, i, p) => i \in Nat /\ i >= 1
    /\ \A h, i, p : Spot(h, i, p)' => i \in Nat /\ i >= 1
BY DEF Spot, Sits

(***************************************************************************)
(* A step that loses data, or moves the head x of one hop to the end of    *)
(* the next, keeps the order: what is left in a hop has moved up together. *)
(***************************************************************************)
MovedUp(g, c) == \E s \in Nat : \A p \in Payload : \A i :
    p.conn = c /\ Spot(g, i, p)' => Spot(g, i + s, p)

(***************************************************************************)
(* If what is left has moved up in every hop, the order is kept.           *)
(***************************************************************************)
LEMMA OrderLoses ==
    ASSUME OrderInv, \A g \in Hops, c \in Conns : MovedUp(g, c)
    PROVE  OrderInv'
<1> SUFFICES ASSUME NEW p \in Payload, NEW q \in Payload, NEW g \in Hops, NEW h \in Hops,
                    NEW i, NEW j, p.conn = q.conn, Spot(g, i, p)', Spot(h, j, q)',
                    InFront(g, i, h, j)
             PROVE  p.n < q.n
  BY DEF OrderInv, InFront, Rank
<1>1. p.conn \in Conns /\ i \in Nat /\ j \in Nat
  BY SpotIsNumber DEF Payload
<1>2. PICK s \in Nat : \A r \in Payload : \A k :
        r.conn = p.conn /\ Spot(g, k, r)' => Spot(g, k + s, r)
  BY <1>1 DEF MovedUp
<1>3. PICK t \in Nat : \A r \in Payload : \A k :
        r.conn = p.conn /\ Spot(h, k, r)' => Spot(h, k + t, r)
  BY <1>1 DEF MovedUp
<1>4. Spot(g, i + s, p)
  BY <1>2
<1>5. CASE Rank(g) < Rank(h)
  <2>1. Spot(h, j + t, q)
    BY <1>3
  <2>2. QED
    BY <1>4, <1>5, <2>1 DEF OrderInv, InFront
<1>6. CASE g = h /\ i < j
  <2>1. Spot(h, j + s, q)
    BY <1>2, <1>6
  <2>2. i + s < j + s
    BY <1>1, <1>6
  <2>3. QED
    BY <1>4, <1>6, <2>1, <2>2 DEF OrderInv, InFront
<1>7. QED
  BY <1>5, <1>6 DEF InFront

(***************************************************************************)
(* The same when x comes to the end of dst, the (n + 1)-st there.          *)
(***************************************************************************)
MovedUpBut(g, c, dst, n, x) == \E s \in Nat : \A p \in Payload : \A i :
    p.conn = c /\ Spot(g, i, p)' => Spot(g, i + s, p) \/ (g = dst /\ i = n + 1 /\ p = x)

(***************************************************************************)
(* If besides x comes behind what is in dst and further on, and before     *)
(* what is further back, the order is kept.                                *)
(***************************************************************************)
LEMMA OrderComes ==
    ASSUME OrderInv, NEW dst \in Hops, NEW x \in Payload, NEW n \in Nat,
           \A g \in Hops, c \in Conns : MovedUpBut(g, c, dst, n, x),
           \A p \in Payload : \A i : p.conn = x.conn /\ Spot(dst, i, p)' => i <= n + 1,
           \A p \in Payload : \A g \in Hops : \A i :
               p.conn = x.conn /\ Spot(g, i, p) /\ Rank(g) <= Rank(dst) => p.n < x.n,
           \A q \in Payload : \A h \in Hops : \A j :
               q.conn = x.conn /\ Spot(h, j, q)' /\ Rank(dst) < Rank(h) => x.n < q.n
    PROVE  OrderInv'
<1> SUFFICES ASSUME NEW p \in Payload, NEW q \in Payload, NEW g \in Hops, NEW h \in Hops,
                    NEW i, NEW j, p.conn = q.conn, Spot(g, i, p)', Spot(h, j, q)',
                    InFront(g, i, h, j)
             PROVE  p.n < q.n
  BY DEF OrderInv, InFront, Rank
<1>1. /\ p.conn \in Conns /\ i \in Nat /\ j \in Nat
      /\ Rank(g) \in 0 .. 4 /\ Rank(h) \in 0 .. 4 /\ Rank(dst) \in 0 .. 4
  BY SpotIsNumber, RankFacts DEF Payload
<1>2. PICK s \in Nat : \A r \in Payload : \A k : r.conn = p.conn /\ Spot(g, k, r)' =>
        Spot(g, k + s, r) \/ (g = dst /\ k = n + 1 /\ r = x)
  BY <1>1 DEF MovedUpBut
<1>3. PICK t \in Nat : \A r \in Payload : \A k : r.conn = p.conn /\ Spot(h, k, r)' =>
        Spot(h, k + t, r) \/ (h = dst /\ k = n + 1 /\ r = x)
  BY <1>1 DEF MovedUpBut
<1>4. CASE g = dst /\ i = n + 1 /\ p = x
  <2>1. ~(g = h /\ i < j)
    <3> SUFFICES ASSUME g = h, i < j PROVE FALSE
      OBVIOUS
    <3>1. j <= n + 1
      BY <1>4
    <3>2. QED
      BY <1>1, <1>4, <3>1
  <2>2. Rank(dst) < Rank(h)
    BY <1>4, <2>1 DEF InFront
  <2>3. QED
    BY <1>4, <2>2
<1>5. CASE Spot(g, i + s, p) /\ h = dst /\ j = n + 1 /\ q = x
  <2>1. Rank(g) <= Rank(dst)
    BY <1>1, <1>5 DEF InFront
  <2>2. QED
    BY <1>5, <2>1
<1>6. CASE Spot(g, i + s, p) /\ ~(h = dst /\ j = n + 1 /\ q = x)
  <2>1. CASE Rank(g) < Rank(h)
    <3>1. Spot(h, j + t, q)
      BY <1>3, <1>6
    <3>2. QED
      BY <1>6, <2>1, <3>1 DEF OrderInv, InFront
  <2>2. CASE g = h /\ i < j
    <3>1. Spot(h, j + s, q)
      BY <1>2, <1>6, <2>2
    <3>2. i + s < j + s
      BY <1>1, <2>2
    <3>3. QED
      BY <1>6, <2>2, <3>1, <3>2 DEF OrderInv, InFront
  <2>3. QED
    BY <2>1, <2>2 DEF InFront
<1>7. QED
  BY <1>2, <1>4, <1>5, <1>6

(***************************************************************************)
(* x was at the head of src, which is one hop behind dst.                  *)
(***************************************************************************)
LEMMA OrderMoves ==
    ASSUME NumBackEnds = 1, OrderInv, NEW src \in Hops, NEW dst \in Hops,
           Rank(src) = Rank(dst) + 1, NEW x \in Payload, NEW n \in Nat, Spot(src, 1, x),
           \A g \in Hops, c \in Conns : MovedUpBut(g, c, dst, n, x),
           \A p \in Payload : \A i : p.conn = x.conn /\ Spot(dst, i, p)' => i <= n + 1,
           \A p \in Payload : \A i :
               p.conn = x.conn /\ Spot(src, i, p)' => Spot(src, i + 1, p)
    PROVE  OrderInv'
<1>1. Rank(src) \in 0 .. 4 /\ Rank(dst) \in 0 .. 4 /\ src # dst
  BY RankFacts
<1>2. ASSUME NEW p \in Payload, NEW g \in Hops, NEW i,
             p.conn = x.conn, Spot(g, i, p), Rank(g) <= Rank(dst)
      PROVE  p.n < x.n
  <2>1. Rank(g) < Rank(src)
    BY <1>1, <1>2, RankFacts
  <2>2. InFront(g, i, src, 1)
    BY <2>1 DEF InFront
  <2>3. QED
    BY <1>2, <2>2 DEF OrderInv
<1>3. ASSUME NEW q \in Payload, NEW h \in Hops, NEW j,
             q.conn = x.conn, Spot(h, j, q)', Rank(dst) < Rank(h)
      PROVE  x.n < q.n
  <2>1. j \in Nat /\ j >= 1 /\ x.conn \in Conns
    BY <1>3, SpotIsNumber DEF Payload
  <2>2. CASE Rank(h) = Rank(src)
    <3>1. h = src
      BY <2>2, RankNames
    <3>2. Spot(src, j + 1, q)
      BY <1>3, <3>1
    <3>3. InFront(src, 1, src, j + 1)
      BY <2>1 DEF InFront
    <3>4. QED
      BY <1>3, <3>2, <3>3 DEF OrderInv
  <2>3. CASE Rank(h) # Rank(src)
    <3>1. Rank(src) < Rank(h) /\ h # dst
      BY <1>1, <1>3, <2>3, RankFacts
    <3>2. PICK s \in Nat : Spot(h, j + s, q)
      BY <1>3, <2>1, <3>1 DEF MovedUpBut
    <3>3. InFront(src, 1, h, j + s)
      BY <3>1 DEF InFront
    <3>4. QED
      BY <1>3, <3>2, <3>3 DEF OrderInv
  <2>4. QED
    BY <2>2, <2>3
<1>4. QED
  BY <1>2, <1>3, OrderComes

(***************************************************************************)
(* Queues: after a change what is left of one has moved up together.       *)
(***************************************************************************)
Shifts(q, r) == \E s \in Nat : \A p \in Payload : \A i : Sits(r, i, p) => Sits(q, i + s, p)

(***************************************************************************)
(* A queue that stays as it is, or is emptied.                             *)
(***************************************************************************)
LEMMA ShiftsNot ==
    ASSUME NEW S, NEW q \in Seq(S)
    PROVE  Shifts(q, q) /\ Shifts(q, <<>>)
<1>1. \A p : \A i : Sits(q, i, p) => Sits(q, i + 0, p)
  BY DEF Sits
<1>2. \A p : \A i : Sits(<<>>, i, p) => Sits(q, i + 0, p)
  BY DEF Sits
<1>3. QED
  BY <1>1, <1>2 DEF Shifts

(***************************************************************************)
(* The head is taken: everything moves up by one.                          *)
(***************************************************************************)
LEMMA ShiftsTail ==
    ASSUME NEW S, NEW q \in Seq(S), q # <<>>
    PROVE  /\ \A p : \A i : Sits(Tail(q), i, p) => Sits(q, i + 1, p)
           /\ Shifts(q, Tail(q))
<1>1. PICK n \in Nat \ {0} : n = Len(q)
  BY TailAt
<1>2. Len(Tail(q)) = n - 1 /\ \A i \in 1 .. n - 1 : Tail(q)[i] = q[i + 1]
  BY <1>1, TailAt
<1>3. ASSUME NEW p, NEW i, Sits(Tail(q), i, p) PROVE Sits(q, i + 1, p)
  <2>1. i \in 1 .. n - 1 /\ Tail(q)[i].data = p
    BY <1>2, <1>3 DEF Sits
  <2>2. i + 1 \in 1 .. n /\ q[i + 1].data = p
    BY <1>2, <2>1
  <2>3. QED
    BY <1>1, <2>2 DEF Sits
<1>4. 1 \in Nat
  OBVIOUS
<1>5. QED
  BY <1>3, <1>4 DEF Shifts

(***************************************************************************)
(* A message at the end leaves the others where they are.                  *)
(***************************************************************************)
LEMMA ShiftsAppend ==
    ASSUME NEW S, NEW q \in Seq(S), NEW m
    PROVE  /\ \A p : \A i : Sits(Append(q, m), i, p) =>
                  \/ Sits(q, i + 0, p)
                  \/ i = Len(q) + 1 /\ p = m.data
           /\ \A p : \A i : Sits(Append(q, m), i, p) => i <= Len(q) + 1
           /\ m.data = NoData => Shifts(q, Append(q, m))
<1>1. PICK n \in Nat : n = Len(q)
  OBVIOUS
<1>2. /\ Len(Append(q, m)) = n + 1 /\ Append(q, m)[n + 1] = m
      /\ \A i \in 1 .. n : Append(q, m)[i] = q[i]
  BY <1>1, AppendAt
<1>3. ASSUME NEW p, NEW i, Sits(Append(q, m), i, p)
      PROVE  (Sits(q, i + 0, p) \/ (i = n + 1 /\ p = m.data)) /\ i <= n + 1
  <2>1. i \in 1 .. n + 1 /\ Append(q, m)[i].data = p
    BY <1>2, <1>3 DEF Sits
  <2>2. CASE i \in 1 .. n
    <3>1. i + 0 = i
      BY <2>2
    <3>2. Sits(q, i, p)
      BY <1>1, <1>2, <2>1, <2>2 DEF Sits
    <3>3. QED
      BY <2>1, <3>1, <3>2
  <2>3. CASE i = n + 1
    BY <1>2, <2>1, <2>3
  <2>4. QED
    BY <2>1, <2>2, <2>3
<1>4. ASSUME m.data = NoData PROVE Shifts(q, Append(q, m))
  <2>1. \A p \in Payload : \A i : Sits(Append(q, m), i, p) => Sits(q, i + 0, p)
    BY <1>3, <1>4, NoDataIsNone
  <2>2. 0 \in Nat
    OBVIOUS
  <2>3. QED
    BY <2>1, <2>2 DEF Shifts
<1>5. QED
  BY <1>1, <1>3, <1>4

(***************************************************************************)
(* A cut leaves the others where they are.                                 *)
(***************************************************************************)
LEMMA ShiftsFront ==
    ASSUME NEW S, NEW q \in Seq(S), NEW k \in 0 .. Len(q)
    PROVE  Shifts(q, SubSeq(q, 1, k))
<1>1. Len(q) \in Nat
  OBVIOUS
<1>2. Len(SubSeq(q, 1, k)) = k /\ \A i \in 1 .. k : SubSeq(q, 1, k)[i] = q[i]
  BY <1>1, SubSeqProperties
<1>3. \A i \in 1 .. k : i \in 1 .. Len(q) /\ i + 0 = i
  BY <1>1
<1>4. \A p : \A i : Sits(SubSeq(q, 1, k), i, p) => Sits(q, i + 0, p)
  BY <1>2, <1>3 DEF Sits
<1>5. 0 \in Nat
  OBVIOUS
<1>6. QED
  BY <1>4, <1>5 DEF Shifts

(***************************************************************************)
(* A family of queues of which one is touched.                             *)
(***************************************************************************)
LEMMA TouchedShifts ==
    ASSUME NEW D, NEW S, NEW f \in [D -> Seq(S)], NEW f2, Touched(f, f2, D)
    PROVE  \A d \in D : Shifts(f[d], f2[d])
<1>1. \A d \in D : f[d] \in Seq(S) /\ Shifts(f[d], f[d])
  BY ShiftsNot
<1>2. ASSUME NEW c \in D, NEW r, Shifts(f[c], r), f2 = [f EXCEPT ![c] = r]
      PROVE  \A d \in D : Shifts(f[d], f2[d])
  BY <1>1, <1>2
<1>3. CASE f2 = f
  BY <1>1, <1>3
<1>4. ASSUME NEW c \in D, f[c] # <<>>, f2 = [f EXCEPT ![c] = Tail(@)]
      PROVE  \A d \in D : Shifts(f[d], f2[d])
  <2>1. Shifts(f[c], Tail(f[c]))
    BY <1>1, <1>4, ShiftsTail
  <2>2. QED
    BY <1>2, <1>4, <2>1
<1>5. ASSUME NEW c \in D, f2 = [f EXCEPT ![c] = <<>>]
      PROVE  \A d \in D : Shifts(f[d], f2[d])
  <2>1. Shifts(f[c], <<>>)
    BY <1>1, ShiftsNot
  <2>2. QED
    BY <1>2, <1>5, <2>1
<1>6. ASSUME NEW c \in D, NEW k \in 0 .. Len(f[c]), f2 = [f EXCEPT ![c] = SubSeq(@, 1, k)]
      PROVE  \A d \in D : Shifts(f[d], f2[d])
  <2>1. Shifts(f[c], SubSeq(f[c], 1, k))
    BY <1>1, ShiftsFront
  <2>2. QED
    BY <1>2, <1>6, <2>1
<1>7. ASSUME NEW c \in D, NEW m, m.data = NoData, f2 = [f EXCEPT ![c] = Append(@, m)]
      PROVE  \A d \in D : Shifts(f[d], f2[d])
  <2>1. Shifts(f[c], Append(f[c], m))
    BY <1>1, <1>7, ShiftsAppend
  <2>2. QED
    BY <1>2, <1>7, <2>1
<1>8. QED
  BY <1>3, <1>4, <1>5, <1>6, <1>7 DEF Touched

(***************************************************************************)
(* Hops whose queues shift move up; so does got when it does not change.   *)
(***************************************************************************)
LEMMA HopsMoveUp ==
    /\ \A c \in Conns : Shifts(up[c], up'[c]) => MovedUp(UpHop, c)
    /\ \A c \in Conns : Shifts(down[c], down'[c]) => MovedUp(DownHop, c)
    /\ \A c \in Conns : UNCHANGED got => MovedUp(GotHop, c)
    /\ \A c \in Conns, b \in BackEnds : Shifts(to_back[b], to_back'[b]) => MovedUp(ToHop(b), c)
    /\ \A c \in Conns, b \in BackEnds : Shifts(from_back[b], from_back'[b]) => MovedUp(FromHop(b), c)
<1>1. ASSUME NEW c \in Conns, Shifts(up[c], up'[c]) PROVE MovedUp(UpHop, c)
  <2>1. PICK s \in Nat : \A p \in Payload : \A i : Sits(up'[c], i, p) => Sits(up[c], i + s, p)
    BY <1>1 DEF Shifts
  <2>2. \A p \in Payload : \A i : p.conn = c /\ Spot(UpHop, i, p)' => Spot(UpHop, i + s, p)
    BY <2>1, SpotAt, SpotAtNext
  <2>3. QED
    BY <2>2 DEF MovedUp
<1>2. ASSUME NEW c \in Conns, Shifts(down[c], down'[c]) PROVE MovedUp(DownHop, c)
  <2>1. PICK s \in Nat : \A p \in Payload : \A i : Sits(down'[c], i, p) => Sits(down[c], i + s, p)
    BY <1>2 DEF Shifts
  <2>2. \A p \in Payload : \A i : p.conn = c /\ Spot(DownHop, i, p)' => Spot(DownHop, i + s, p)
    BY <2>1, SpotAt, SpotAtNext
  <2>3. QED
    BY <2>2 DEF MovedUp
<1>3. ASSUME NEW c \in Conns, UNCHANGED got PROVE MovedUp(GotHop, c)
  <2>1. \A p \in Payload : \A i : Spot(GotHop, i, p)' => Spot(GotHop, i, p) /\ i + 0 = i
    BY <1>3, SpotAt, SpotAtNext, SpotIsNumber
  <2>2. \A p \in Payload : \A i : p.conn = c /\ Spot(GotHop, i, p)' => Spot(GotHop, i + 0, p)
    BY <2>1
  <2>3. 0 \in Nat
    OBVIOUS
  <2>4. QED
    BY <2>2, <2>3 DEF MovedUp
<1>4. ASSUME NEW c \in Conns, NEW b \in BackEnds, Shifts(to_back[b], to_back'[b])
      PROVE  MovedUp(ToHop(b), c)
  <2>1. PICK s \in Nat : \A p \in Payload : \A i :
          Sits(to_back'[b], i, p) => Sits(to_back[b], i + s, p)
    BY <1>4 DEF Shifts
  <2>2. \A p \in Payload : \A i : Spot(ToHop(b), i, p)' => Spot(ToHop(b), i + s, p)
    BY <2>1, SpotAt, SpotAtNext
  <2>3. QED
    BY <2>2 DEF MovedUp
<1>5. ASSUME NEW c \in Conns, NEW b \in BackEnds, Shifts(from_back[b], from_back'[b])
      PROVE  MovedUp(FromHop(b), c)
  <2>1. PICK s \in Nat : \A p \in Payload : \A i :
          Sits(from_back'[b], i, p) => Sits(from_back[b], i + s, p)
    BY <1>5 DEF Shifts
  <2>2. \A p \in Payload : \A i : Spot(FromHop(b), i, p)' => Spot(FromHop(b), i + s, p)
    BY <2>1, SpotAt, SpotAtNext
  <2>3. QED
    BY <2>2 DEF MovedUp
<1>6. QED
  BY <1>1, <1>2, <1>3, <1>4, <1>5

(***************************************************************************)
(* The four families of queues, as far as a step has touched them.         *)
(***************************************************************************)
LEMMA QueuesShift ==
    ASSUME PathInv
    PROVE  /\ Touched(up, up', Conns) => \A c \in Conns : MovedUp(UpHop, c)
           /\ Touched(down, down', Conns) => \A c \in Conns : MovedUp(DownHop, c)
           /\ Touched(to_back, to_back', BackEnds) =>
                  \A c \in Conns, b \in BackEnds : MovedUp(ToHop(b), c)
           /\ Touched(from_back, from_back', BackEnds) =>
                  \A c \in Conns, b \in BackEnds : MovedUp(FromHop(b), c)
           /\ UNCHANGED got => \A c \in Conns : MovedUp(GotHop, c)
<1>1. /\ up \in [Conns -> Seq(CSMsgs)] /\ down \in [Conns -> Seq(CSMsgs)]
      /\ to_back \in [BackEnds -> Seq(ToMsgs)] /\ from_back \in [BackEnds -> Seq(FromMsgs)]
  BY DEF PathInv, UpOK, DownOK, ToOK, FromOK
<1>2. ASSUME Touched(up, up', Conns) PROVE \A c \in Conns : MovedUp(UpHop, c)
  BY <1>1, <1>2, TouchedShifts, HopsMoveUp
<1>3. ASSUME Touched(down, down', Conns) PROVE \A c \in Conns : MovedUp(DownHop, c)
  BY <1>1, <1>3, TouchedShifts, HopsMoveUp
<1>4. ASSUME Touched(to_back, to_back', BackEnds)
      PROVE  \A c \in Conns, b \in BackEnds : MovedUp(ToHop(b), c)
  BY <1>1, <1>4, TouchedShifts, HopsMoveUp
<1>5. ASSUME Touched(from_back, from_back', BackEnds)
      PROVE  \A c \in Conns, b \in BackEnds : MovedUp(FromHop(b), c)
  BY <1>1, <1>5, TouchedShifts, HopsMoveUp
<1>6. QED
  BY <1>2, <1>3, <1>4, <1>5, HopsMoveUp

(***************************************************************************)
(* A step that only loses data keeps the order.                            *)
(***************************************************************************)
LEMMA OrderLossy ==
    ASSUME PathInv, OrderInv, LossyStep
    PROVE  OrderInv'
<1>1. \A g \in Hops, c \in Conns : MovedUp(g, c)
  BY QueuesShift, HopFacts DEF LossyStep
<1>2. QED
  BY <1>1, OrderLoses

(***************************************************************************)
(* A family of queues of which one gets a message with data x at its end.  *)
(***************************************************************************)
ComesLast(f, f2, D, d, n, x) ==
    /\ n \in Nat
    /\ \A e \in D : \A p, i : Sits(f2[e], i, p) =>
           Sits(f[e], i + 0, p) \/ (e = d /\ i = n + 1 /\ p = x)
    /\ \A p, i : Sits(f2[d], i, p) => i <= n + 1

(***************************************************************************)
(* Append does that.                                                       *)
(***************************************************************************)
LEMMA FamilyAppend ==
    ASSUME NEW D, NEW S, NEW f \in [D -> Seq(S)], NEW d \in D, NEW m, NEW f2,
           f2 = [f EXCEPT ![d] = Append(@, m)]
    PROVE  ComesLast(f, f2, D, d, Len(f[d]), m.data)
<1>1. f[d] \in Seq(S) /\ f2[d] = Append(f[d], m) /\ \A e \in D : e # d => f2[e] = f[e]
  OBVIOUS
<1>2. \A e : \A i : i \in 1 .. Len(f[e]) => i + 0 = i
  OBVIOUS
<1>3. \A e \in D : \A p, i : e # d /\ Sits(f2[e], i, p) => Sits(f[e], i + 0, p)
  BY <1>1, <1>2 DEF Sits
<1>4. /\ \A p, i : Sits(f2[d], i, p) => Sits(f[d], i + 0, p) \/ (i = Len(f[d]) + 1 /\ p = m.data)
      /\ \A p, i : Sits(f2[d], i, p) => i <= Len(f[d]) + 1
  BY <1>1, ShiftsAppend
<1>5. QED
  BY <1>1, <1>3, <1>4 DEF ComesLast

(***************************************************************************)
(* The head of a queue has the first spot.                                 *)
(***************************************************************************)
LEMMA HeadSits ==
    ASSUME NEW S, NEW q \in Seq(S), q # <<>>
    PROVE  Sits(q, 1, Head(q).data)
<1>1. Len(q) \in Nat \ {0} /\ Head(q) = q[1]
  BY TailAt
<1>2. 1 \in 1 .. Len(q)
  BY <1>1
<1>3. QED
  BY <1>1, <1>2 DEF Sits

(***************************************************************************)
(* A hop that only moves up is one of the others.                          *)
(***************************************************************************)
LEMMA MovedUpAnyway ==
    ASSUME NEW g, NEW c, MovedUp(g, c)
    PROVE  \A dst, n, x : MovedUpBut(g, c, dst, n, x)
BY DEF MovedUp, MovedUpBut

(***************************************************************************)
(* PushMessage: what is pushed comes last and has the highest number.      *)
(***************************************************************************)
LEMMA OrderPush ==
    ASSUME PathInv, OrderInv, NEW c \in Conns, PushMessage(c)
    PROVE  OrderInv'
<1>1. PICK x : x = [conn |-> c, n |-> pushed[c] + 1]
  OBVIOUS
<1>2. PICK m : m = CSMsg("DATA", seqno[c], x)
  OBVIOUS
<1>3. /\ pushed[c] < MaxPush /\ UNCHANGED <<down, to_back, from_back, got>>
      /\ up' = up \/ up' = [up EXCEPT ![c] = Append(@, m)]
  BY <1>1, <1>2 DEF PushMessage, SendUp, backVars
<1>4. m.data = x
  BY <1>2 DEF CSMsg
<1>5. pushed[c] \in 0 .. MaxPush
  BY ClientFacts
<1>6. x \in Payload /\ x.conn = c /\ x.n = pushed[c] + 1
  <2>1. PICK k \in 1 .. MaxPush : k = pushed[c] + 1
    BY <1>3, <1>5, ConnectorAssumption
  <2>2. x = [conn |-> c, n |-> k]
    BY <1>1, <2>1
  <2>3. QED
    BY <2>1, <2>2 DEF Payload
<1>7. CASE up' = up
  BY <1>3, <1>7, OrderLossy DEF Touched, LossyStep
<1>8. CASE up' = [up EXCEPT ![c] = Append(@, m)]
  <2>1. PICK n : n = Len(up[c])
    OBVIOUS
  <2>2. up \in [Conns -> Seq(CSMsgs)]
    BY DEF PathInv, UpOK
  <2>3. ComesLast(up, up', Conns, c, n, x) /\ n \in Nat
    <3>1. ComesLast(up, up', Conns, c, Len(up[c]), m.data)
      BY <1>4, <1>8, <2>1, <2>2, FamilyAppend
    <3>2. QED
      BY <3>1, <1>4, <1>8, <2>1, <2>2 DEF ComesLast
  <2>4. ASSUME NEW d \in Conns PROVE MovedUpBut(UpHop, d, UpHop, n, x)
    <3>1. \A p \in Payload : \A i : p.conn = d /\ Spot(UpHop, i, p)' =>
            Spot(UpHop, i + 0, p) \/ (i = n + 1 /\ p = x)
      BY <2>3, SpotAt, SpotAtNext DEF ComesLast
    <3>2. 0 \in Nat
      OBVIOUS
    <3>3. QED
      BY <3>1, <3>2 DEF MovedUpBut
  <2>5. /\ \A d \in Conns : MovedUp(DownHop, d) /\ MovedUp(GotHop, d)
        /\ \A d \in Conns, b \in BackEnds : MovedUp(ToHop(b), d) /\ MovedUp(FromHop(b), d)
    BY <1>3, QueuesShift DEF Touched
  <2>6. \A g \in Hops, d \in Conns : MovedUpBut(g, d, UpHop, n, x)
    BY <2>4, <2>5, MovedUpAnyway, HopFacts
  <2>7. \A p \in Payload : \A i : p.conn = x.conn /\ Spot(UpHop, i, p)' => i <= n + 1
    BY <1>6, <2>3, SpotAtNext DEF ComesLast
  <2>8. ASSUME NEW p \in Payload, NEW g \in Hops, NEW i, p.conn = x.conn, Spot(g, i, p)
        PROVE  p.n < x.n
    <3>1. p \in Own(c)
      BY <1>6, <2>8, SpotIsHeld, HeldIsPushed
    <3>2. PICK k \in 1 .. pushed[c] : p = [conn |-> c, n |-> k]
      BY <3>1 DEF Own
    <3>3. p.n = k
      BY <3>2
    <3>4. QED
      BY <1>5, <1>6, <3>3
  <2>9. \A h \in Hops : ~(Rank(UpHop) < Rank(h))
    <3>1. Rank(UpHop) = 4 /\ \A h \in Hops : Rank(h) \in 0 .. 4
      BY RankFacts
    <3>2. QED
      BY <3>1
  <2>10. QED
    BY <1>6, <2>3, <2>6, <2>7, <2>8, <2>9, HopFacts, OrderComes
<1>9. QED
  BY <1>3, <1>7, <1>8

(***************************************************************************)
(* ForwardUpSideMessage: the head of the client's queue goes to the end of *)
(* the back end's.                                                         *)
(***************************************************************************)
LEMMA OrderForwardUp ==
    ASSUME NumBackEnds = 1, UniqueInv, OrderInv, NEW c \in Conns, ForwardUpSideMessage(c)
    PROVE  OrderInv'
<1>1. PICK x : x = Head(up[c]).data
  OBVIOUS
<1>2. PICK m : m = SSMsg("DATA", conn_fd[c], Nid(c), Session(c).sid, x)
  OBVIOUS
<1>3. PICK b \in BackEnds : b = PickBackEnd
  BY PickBackEndFacts DEF UniqueInv
<1>4. /\ up[c] # <<>> /\ Head(up[c]).id = "DATA"
      /\ up' = [up EXCEPT ![c] = Tail(@)]
      /\ to_back' = to_back \/ to_back' = [to_back EXCEPT ![b] = Append(@, m)]
      /\ UNCHANGED <<down, from_back, got>>
  BY <1>1, <1>2, <1>3 DEF ForwardUpSideMessage, UpSideMessage, SendDataToBackEnd,
                          SendToBackEnd, clientVars
<1>5. m.data = x
  BY <1>2 DEF SSMsg
<1>6. x \in Own(c) /\ PathInv
  BY <1>1, <1>4, ClientFacts DEF UniqueInv, UpMsgs
<1>7. x \in Payload /\ x.conn = c
  BY <1>6, UniqueTypes
<1>8. CASE to_back' = to_back
  BY <1>4, <1>6, <1>8, OrderLossy DEF Touched, LossyStep
<1>9. CASE to_back' = [to_back EXCEPT ![b] = Append(@, m)]
  <2>1. PICK n : n = Len(to_back[b])
    OBVIOUS
  <2>2. up \in [Conns -> Seq(CSMsgs)] /\ to_back \in [BackEnds -> Seq(ToMsgs)]
    BY UniqueTypes
  <2>3. ComesLast(to_back, to_back', BackEnds, b, n, x) /\ n \in Nat
    <3>1. ComesLast(to_back, to_back', BackEnds, b, Len(to_back[b]), m.data)
      BY <1>5, <1>9, <2>1, <2>2, FamilyAppend
    <3>2. QED
      BY <3>1, <1>5, <1>9, <2>1, <2>2 DEF ComesLast
  <2>4. ASSUME NEW d \in Conns, NEW e \in BackEnds PROVE MovedUpBut(ToHop(e), d, ToHop(b), n, x)
    <3>1. ASSUME NEW p \in Payload, NEW i, Spot(ToHop(e), i, p)'
          PROVE  Spot(ToHop(e), i + 0, p) \/ (ToHop(e) = ToHop(b) /\ i = n + 1 /\ p = x)
      <4>1. Sits(to_back'[e], i, p)
        BY <3>1, SpotAtNext
      <4>2. Sits(to_back[e], i + 0, p) \/ (e = b /\ i = n + 1 /\ p = x)
        BY <2>3, <4>1 DEF ComesLast
      <4>3. QED
        BY <4>2, SpotAt
    <3>2. 0 \in Nat
      OBVIOUS
    <3>3. QED
      BY <3>1, <3>2 DEF MovedUpBut
  <2>5. /\ \A d \in Conns : MovedUp(UpHop, d) /\ MovedUp(DownHop, d) /\ MovedUp(GotHop, d)
        /\ \A d \in Conns, e \in BackEnds : MovedUp(FromHop(e), d)
    BY <1>4, <1>6, QueuesShift DEF Touched
  <2>6. \A g \in Hops, d \in Conns : MovedUpBut(g, d, ToHop(b), n, x)
    BY <2>4, <2>5, MovedUpAnyway, HopFacts
  <2>7. \A p \in Payload : \A i : Spot(ToHop(b), i, p)' => i <= n + 1
    BY <2>3, SpotAtNext DEF ComesLast
  <2>8. up[c] \in Seq(CSMsgs) /\ up'[c] = Tail(up[c])
    BY <1>4, <2>2
  <2>9. \A p \in Payload : \A i : p.conn = x.conn /\ Spot(UpHop, i, p)' => Spot(UpHop, i + 1, p)
    BY <1>4, <1>7, <2>8, ShiftsTail, SpotAt, SpotAtNext
  <2>10. Spot(UpHop, 1, x)
    BY <1>1, <1>4, <1>7, <2>8, HeadSits, SpotAt
  <2>11. Rank(UpHop) = Rank(ToHop(b)) + 1
    BY RankFacts
  <2>12. QED
    BY <1>7, <2>3, <2>6, <2>7, <2>9, <2>10, <2>11, HopFacts, OrderMoves
<1>10. QED
  BY <1>4, <1>8, <1>9

(***************************************************************************)
(* Dispatch: the head of the queue to the back end is answered at the end  *)
(* of the queue from it.                                                   *)
(***************************************************************************)
LEMMA OrderDispatch ==
    ASSUME NumBackEnds = 1, UniqueInv, OrderInv, NEW b \in BackEnds, Dispatch(b)
    PROVE  OrderInv'
<1>1. PICK msg : msg = Head(to_back[b])
  OBVIOUS
<1>2. PICK m : m = IF msg.id = "SYN" THEN HandshakeToConn(msg) ELSE SendDataToConn(msg)
  OBVIOUS
<1>3. /\ to_back[b] # <<>> /\ to_back' = [to_back EXCEPT ![b] = Tail(@)]
      /\ from_back' = [from_back EXCEPT ![b] = Append(@, m)]
      /\ UNCHANGED <<up, down, got>>
  BY <1>1, <1>2 DEF Dispatch, clientVars, linkVars
<1>4. msg \in ToMsgs /\ PathInv
  BY <1>1, <1>3, UniqueTypes DEF UniqueInv
<1>5. CASE msg.id = "SYN"
  <2>1. m.data = NoData
    BY <1>2, <1>5 DEF HandshakeToConn, SSMsg
  <2>2. QED
    BY <1>3, <1>4, <2>1, OrderLossy DEF Touched, LossyStep
<1>6. CASE msg.id # "SYN"
  <2>1. PICK x : x = msg.data
    OBVIOUS
  <2>2. m.data = x
    BY <1>2, <1>6, <2>1 DEF SendDataToConn, SSMsg
  <2>3. \E c \in Conns : x \in Own(c)
    BY <1>4, <1>6, <2>1 DEF ToMsgs
  <2>4. x \in Payload
    BY <2>3, UniqueTypes
  <2>5. PICK n : n = Len(from_back[b])
    OBVIOUS
  <2>6. /\ to_back \in [BackEnds -> Seq(ToMsgs)] /\ from_back \in [BackEnds -> Seq(FromMsgs)]
    BY UniqueTypes
  <2>7. ComesLast(from_back, from_back', BackEnds, b, n, x) /\ n \in Nat
    <3>1. ComesLast(from_back, from_back', BackEnds, b, Len(from_back[b]), m.data)
      BY <1>3, <2>2, <2>5, <2>6, FamilyAppend
    <3>2. QED
      BY <3>1, <1>3, <2>2, <2>5, <2>6 DEF ComesLast
  <2>8. ASSUME NEW d \in Conns, NEW e \in BackEnds PROVE MovedUpBut(FromHop(e), d, FromHop(b), n, x)
    <3>1. ASSUME NEW p \in Payload, NEW i, Spot(FromHop(e), i, p)'
          PROVE  Spot(FromHop(e), i + 0, p) \/ (FromHop(e) = FromHop(b) /\ i = n + 1 /\ p = x)
      <4>1. Sits(from_back'[e], i, p)
        BY <3>1, SpotAtNext
      <4>2. Sits(from_back[e], i + 0, p) \/ (e = b /\ i = n + 1 /\ p = x)
        BY <2>7, <4>1 DEF ComesLast
      <4>3. QED
        BY <4>2, SpotAt
    <3>2. 0 \in Nat
      OBVIOUS
    <3>3. QED
      BY <3>1, <3>2 DEF MovedUpBut
  <2>9. /\ \A d \in Conns : MovedUp(UpHop, d) /\ MovedUp(DownHop, d) /\ MovedUp(GotHop, d)
        /\ \A d \in Conns, e \in BackEnds : MovedUp(ToHop(e), d)
    BY <1>3, <1>4, QueuesShift DEF Touched
  <2>10. \A g \in Hops, d \in Conns : MovedUpBut(g, d, FromHop(b), n, x)
    BY <2>8, <2>9, MovedUpAnyway, HopFacts
  <2>11. \A p \in Payload : \A i : Spot(FromHop(b), i, p)' => i <= n + 1
    BY <2>7, SpotAtNext DEF ComesLast
  <2>12. to_back[b] \in Seq(ToMsgs) /\ to_back'[b] = Tail(to_back[b])
    BY <1>3, <2>6
  <2>13. ASSUME NEW p \in Payload, NEW i, Spot(ToHop(b), i, p)' PROVE Spot(ToHop(b), i + 1, p)
    <3>1. Sits(Tail(to_back[b]), i, p)
      <4>1. Sits(to_back'[b], i, p)
        BY <2>13, SpotAtNext
      <4>2. QED
        BY <2>12, <4>1
    <3>2. Sits(to_back[b], i + 1, p)
      BY <1>3, <2>12, <3>1, ShiftsTail
    <3>3. QED
      BY <3>2, SpotAt
  <2>14. Spot(ToHop(b), 1, x)
    BY <1>1, <1>3, <2>1, <2>12, HeadSits, SpotAt
  <2>15. Rank(ToHop(b)) = Rank(FromHop(b)) + 1
    BY RankFacts
  <2>16. QED
    BY <2>4, <2>7, <2>10, <2>11, <2>13, <2>14, <2>15, HopFacts, OrderMoves
<1>7. QED
  BY <1>5, <1>6

(***************************************************************************)
(* ForwardDownSideMessage: the head of the back end's queue goes to the    *)
(* end of the client's.                                                    *)
(***************************************************************************)
LEMMA OrderForwardDown ==
    ASSUME NumBackEnds = 1, UniqueInv, OrderInv, NEW b \in BackEnds, ForwardDownSideMessage(b)
    PROVE  OrderInv'
<1>1. PICK msg : msg = Head(from_back[b])
  OBVIOUS
<1>2. /\ from_back[b] # <<>> /\ from_back' = [from_back EXCEPT ![b] = Tail(@)]
      /\ Found(msg) /\ msg.id = "DATA" /\ SendDown(FrontNet(msg), "DATA", msg.data)
      /\ UNCHANGED <<up, to_back, got>>
  BY <1>1 DEF ForwardDownSideMessage, DownSideMessage, clientVars
<1>3. PICK c \in Conns : c = FrontNet(msg) /\ msg.data \in Own(c)
  BY <1>1, <1>2, FromHead DEF UniqueInv
<1>4. PICK x : x = msg.data
  OBVIOUS
<1>5. PICK m : m = CSMsg("DATA", 0, x)
  OBVIOUS
<1>6. m.data = x /\ (down' = down \/ down' = [down EXCEPT ![c] = Append(@, m)])
  BY <1>2, <1>3, <1>4, <1>5 DEF SendDown, CSMsg
<1>7. x \in Payload /\ x.conn = c /\ PathInv
  BY <1>3, <1>4, UniqueTypes DEF UniqueInv
<1>8. CASE down' = down
  BY <1>2, <1>7, <1>8, OrderLossy DEF Touched, LossyStep
<1>9. CASE down' = [down EXCEPT ![c] = Append(@, m)]
  <2>1. PICK n : n = Len(down[c])
    OBVIOUS
  <2>2. down \in [Conns -> Seq(CSMsgs)] /\ from_back \in [BackEnds -> Seq(FromMsgs)]
    BY UniqueTypes
  <2>3. ComesLast(down, down', Conns, c, n, x) /\ n \in Nat
    <3>1. ComesLast(down, down', Conns, c, Len(down[c]), m.data)
      BY <1>6, <1>9, <2>1, <2>2, FamilyAppend
    <3>2. QED
      BY <3>1, <1>6, <1>9, <2>1, <2>2 DEF ComesLast
  <2>4. ASSUME NEW d \in Conns PROVE MovedUpBut(DownHop, d, DownHop, n, x)
    <3>1. \A p \in Payload : \A i : p.conn = d /\ Spot(DownHop, i, p)' =>
            Spot(DownHop, i + 0, p) \/ (i = n + 1 /\ p = x)
      BY <2>3, SpotAt, SpotAtNext DEF ComesLast
    <3>2. 0 \in Nat
      OBVIOUS
    <3>3. QED
      BY <3>1, <3>2 DEF MovedUpBut
  <2>5. /\ \A d \in Conns : MovedUp(UpHop, d) /\ MovedUp(GotHop, d)
        /\ \A d \in Conns, e \in BackEnds : MovedUp(ToHop(e), d) /\ MovedUp(FromHop(e), d)
    BY <1>2, <1>7, QueuesShift DEF Touched
  <2>6. \A g \in Hops, d \in Conns : MovedUpBut(g, d, DownHop, n, x)
    BY <2>4, <2>5, MovedUpAnyway, HopFacts
  <2>7. \A p \in Payload : \A i : p.conn = x.conn /\ Spot(DownHop, i, p)' => i <= n + 1
    BY <1>7, <2>3, SpotAtNext DEF ComesLast
  <2>8. from_back[b] \in Seq(FromMsgs) /\ from_back'[b] = Tail(from_back[b])
    BY <1>2, <2>2
  <2>9. ASSUME NEW p \in Payload, NEW i, Spot(FromHop(b), i, p)' PROVE Spot(FromHop(b), i + 1, p)
    <3>1. Sits(Tail(from_back[b]), i, p)
      <4>1. Sits(from_back'[b], i, p)
        BY <2>9, SpotAtNext
      <4>2. QED
        BY <2>8, <4>1
    <3>2. Sits(from_back[b], i + 1, p)
      BY <1>2, <2>8, <3>1, ShiftsTail
    <3>3. QED
      BY <3>2, SpotAt
  <2>10. Spot(FromHop(b), 1, x)
    BY <1>1, <1>2, <1>4, <2>8, HeadSits, SpotAt
  <2>11. Rank(FromHop(b)) = Rank(DownHop) + 1
    BY RankFacts
  <2>12. QED
    BY <1>7, <2>3, <2>6, <2>7, <2>9, <2>10, <2>11, HopFacts, OrderMoves
<1>10. QED
  BY <1>6, <1>8, <1>9

(***************************************************************************)
(* PopMessage: the client takes the head of its queue after all it has     *)
(* taken.                                                                  *)
(***************************************************************************)
LEMMA OrderPop ==
    ASSUME NumBackEnds = 1, UniqueInv, OrderInv, NEW c \in Conns, PopMessage(c)
    PROVE  OrderInv'
<1>1. PICK x : x = Head(down[c]).data
  OBVIOUS
<1>2. /\ down[c] # <<>> /\ down' = [down EXCEPT ![c] = Tail(@)]
      /\ got' = IF Head(down[c]).id = "DATA" THEN [got EXCEPT ![c] = Append(@, x)] ELSE got
      /\ UNCHANGED <<up, to_back, from_back>>
  BY <1>1 DEF PopMessage, backVars
<1>3. PathInv
  BY DEF UniqueInv
<1>4. CASE Head(down[c]).id # "DATA"
  BY <1>2, <1>3, <1>4, OrderLossy DEF Touched, LossyStep
<1>5. CASE Head(down[c]).id = "DATA"
  <2>1. x \in Own(c)
    BY <1>1, <1>2, <1>3, <1>5, ClientFacts DEF DownMsgs, UpMsgs
  <2>2. x \in Payload /\ x.conn = c
    BY <2>1, UniqueTypes
  <2>3. down[c] \in Seq(CSMsgs) /\ down'[c] = Tail(down[c])
    BY <1>2, UniqueTypes
  <2>4. got \in [Conns -> Seq(Payload)] /\ got[c] \in Seq(Payload)
    BY <1>3 DEF PathInv, GotOK
  <2>5. got'[c] = Append(got[c], x) /\ \A d \in Conns : d # c => got'[d] = got[d]
    BY <1>2, <1>5, <2>4
  <2>6. PICK n \in Nat : n = Len(got[c])
    BY <2>4
  <2>7. /\ Len(got'[c]) = n + 1 /\ got'[c][n + 1] = x
        /\ \A j \in 1 .. n : got'[c][j] = got[c][j]
    BY <2>4, <2>5, <2>6, AppendAt
  <2>8. ASSUME NEW p \in Payload, NEW i, Spot(GotHop, i, p)'
        PROVE  /\ Spot(GotHop, i + 0, p) \/ (i = n + 1 /\ p = x)
               /\ p.conn = c => i <= n + 1
    <3>1. p.conn \in Conns /\ i \in Nat /\ i + 0 = i
      BY <2>8, SpotIsNumber DEF Payload
    <3>2. i \in 1 .. Len(got'[p.conn]) /\ got'[p.conn][i] = p
      BY <2>8, SpotAtNext
    <3>3. CASE p.conn # c
      BY <2>5, <3>1, <3>2, <3>3, SpotAt
    <3>4. CASE p.conn = c
      <4>1. i \in 1 .. n + 1 /\ got'[c][i] = p
        BY <2>7, <3>2, <3>4
      <4>2. CASE i = n + 1
        BY <2>7, <4>1, <4>2
      <4>3. CASE i \in 1 .. n
        <5>1. i \in 1 .. Len(got[c]) /\ got[c][i] = p
          BY <2>6, <2>7, <4>1, <4>3
        <5>2. QED
          BY <3>1, <3>4, <4>1, <5>1, SpotAt
      <4>4. QED
        BY <4>1, <4>2, <4>3
    <3>5. QED
      BY <3>3, <3>4
  <2>9. ASSUME NEW d \in Conns PROVE MovedUpBut(GotHop, d, GotHop, n, x)
    <3>1. 0 \in Nat
      OBVIOUS
    <3>2. QED
      BY <2>8, <3>1 DEF MovedUpBut
  <2>10. /\ \A d \in Conns : MovedUp(UpHop, d) /\ MovedUp(DownHop, d)
         /\ \A d \in Conns, e \in BackEnds : MovedUp(ToHop(e), d) /\ MovedUp(FromHop(e), d)
    BY <1>2, <1>3, QueuesShift DEF Touched
  <2>11. \A g \in Hops, d \in Conns : MovedUpBut(g, d, GotHop, n, x)
    BY <2>9, <2>10, MovedUpAnyway, HopFacts
  <2>12. \A p \in Payload : \A i : p.conn = x.conn /\ Spot(GotHop, i, p)' => i <= n + 1
    BY <2>2, <2>8
  <2>13. \A p \in Payload : \A i :
           p.conn = x.conn /\ Spot(DownHop, i, p)' => Spot(DownHop, i + 1, p)
    BY <1>2, <2>2, <2>3, ShiftsTail, SpotAt, SpotAtNext
  <2>14. Spot(DownHop, 1, x)
    BY <1>1, <1>2, <2>2, <2>3, HeadSits, SpotAt
  <2>15. Rank(DownHop) = Rank(GotHop) + 1
    BY RankFacts
  <2>16. QED
    BY <2>2, <2>11, <2>12, <2>13, <2>14, <2>15, HopFacts, OrderMoves
<1>6. QED
  BY <1>4, <1>5

(***************************************************************************)
(* At the start nothing is on its way.                                     *)
(***************************************************************************)
LEMMA OrderInit == Init => OrderInv
<1> SUFFICES ASSUME Init PROVE OrderInv
  OBVIOUS
<1>1. /\ to_back = [b \in BackEnds |-> <<>>] /\ from_back = [b \in BackEnds |-> <<>>]
      /\ up = [c \in Conns |-> <<>>] /\ down = [c \in Conns |-> <<>>]
      /\ got = [c \in Conns |-> <<>>]
  BY DEF Init, Connect
<1>2. \A i, p : ~Sits(<<>>, i, p)
  BY DEF Sits
<1>3. ASSUME NEW p \in Payload, NEW h \in Hops, NEW i PROVE ~Spot(h, i, p)
  <2>1. p.conn \in Conns
    BY DEF Payload
  <2>2. CASE h = UpHop \/ h = DownHop
    BY <1>1, <1>2, <2>1, <2>2, SpotAt
  <2>3. CASE h = GotHop
    BY <1>1, <2>1, <2>3, SpotAt
  <2>4. ASSUME NEW b \in BackEnds, h = ToHop(b) PROVE ~Spot(h, i, p)
    BY <1>1, <1>2, <2>4, SpotAt
  <2>5. ASSUME NEW b \in BackEnds, h = FromHop(b) PROVE ~Spot(h, i, p)
    BY <1>1, <1>2, <2>5, SpotAt
  <2>6. QED
    BY <2>2, <2>3, <2>4, <2>5, HopFacts
<1>4. QED
  BY <1>3 DEF OrderInv

(***************************************************************************)
(* With one back end every step keeps the order.                           *)
(***************************************************************************)
LEMMA OrderStep ==
    ASSUME NumBackEnds = 1
    PROVE  UniqueInv /\ OrderInv /\ [Next]_vars => OrderInv'
<1> SUFFICES ASSUME UniqueInv, OrderInv, [Next]_vars PROVE OrderInv'
  OBVIOUS
<1>1. PathInv
  BY DEF UniqueInv
<1>2. ASSUME NEW c \in Conns, ClientStep(c) PROVE OrderInv'
  BY <1>1, <1>2, ClientsLose, OrderLossy, OrderPop DEF ClientStep
<1>3. ASSUME NEW c \in Conns, PushMessage(c) \/ PushMessageFailed(c) \/ Terminate(c)
      PROVE  OrderInv'
  BY <1>1, <1>3, ClientsLose, OrderLossy, OrderPush
<1>4. ASSUME NEW c \in Conns, FrontStep(c) \/ CloseIdle(c) PROVE OrderInv'
  BY <1>1, <1>4, FrontLoses, OrderLossy, OrderForwardUp DEF FrontStep
<1>5. ASSUME NEW b \in BackEnds, \/ BackStep(b) \/ OnBackEndRefused(b) \/ Crash(b)
                              \/ Dispatch(b) \/ DispatchStops(b)
      PROVE  OrderInv'
  BY <1>1, <1>5, BackLoses, ElseLoses, OrderLossy, OrderForwardDown, OrderDispatch
     DEF BackStep
<1>6. CASE \/ \E fd \in Fds : ClientConnect(fd)
           \/ \E b \in BackEnds, k \in known : StopConn(b, k)
           \/ CloseNone \/ UNCHANGED vars
  BY <1>1, <1>6, ElseLoses, OrderLossy
<1>7. QED
  BY <1>2, <1>3, <1>4, <1>5, <1>6 DEF Next

(***************************************************************************)
(* With one back end a client takes the answers in the order of its        *)
(* requests, through any losses, closes and restarts of the handshake: the *)
(* hops are queues, and what is ahead on the way was pushed earlier        *)
(* (PushMessage, ForwardUpSideMessage, Dispatch, ForwardDownSideMessage,   *)
(* PopMessage).  With more back ends the round robin of                    *)
(* SendDataToBackEnd lets answers overtake each other.                     *)
(***************************************************************************)
THEOREM OneBackEndKeepsOrder ==
    ASSUME NumBackEnds = 1
    PROVE  Spec => []AnswersInOrder
<1>1. UniqueInv /\ OrderInv => AnswersInOrder
  <2> SUFFICES ASSUME UniqueInv, OrderInv, NEW c \in Conns, NEW i \in 1 .. Len(got[c]),
                      NEW j \in 1 .. Len(got[c]), i < j
               PROVE  got[c][i].n < got[c][j].n
    BY DEF AnswersInOrder
  <2>1. got[c] \in Seq(Own(c))
    BY DEF UniqueInv, PathInv, GotOK
  <2>2. PICK p : p = got[c][i]
    OBVIOUS
  <2>3. PICK q : q = got[c][j]
    OBVIOUS
  <2>4. p \in Own(c) /\ q \in Own(c)
    BY <2>1, <2>2, <2>3, ElementOfSeq
  <2>5. p \in Payload /\ q \in Payload /\ p.conn = c /\ q.conn = c
    BY <2>4, UniqueTypes
  <2>6. Spot(GotHop, i, p) /\ Spot(GotHop, j, q)
    BY <2>2, <2>3, <2>5, SpotAt
  <2>7. InFront(GotHop, i, GotHop, j)
    BY DEF InFront
  <2>8. p.n < q.n
    BY <2>5, <2>6, <2>7, HopFacts DEF OrderInv
  <2>9. QED
    BY <2>2, <2>3, <2>8
<1>2. UniqueInv /\ OrderInv /\ [Next]_vars => OrderInv'
  BY OrderStep
<1>3. QED
  BY <1>1, <1>2, OrderInit, UniqueInvariant, PTL DEF Spec
=============================================================================
