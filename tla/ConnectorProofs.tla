-------------------------- MODULE ConnectorProofs --------------------------
(***************************************************************************)
(* Proofs about the connector: for any number of connections, descriptors, *)
(* back ends and messages, whatever breaks and however early clients push. *)
(***************************************************************************)
EXTENDS Connector, SequenceTheorems, TLAPS

(***************************************************************************)
(* How far the session of a connection has come.  A connection that the    *)
(* connector does not serve counts as having come to the end.              *)
(***************************************************************************)
RankOf(state) ==
    IF state = "INIT" THEN 0 ELSE
    IF state = "AUTH" THEN 1 ELSE
    IF state = "SYNACK" THEN 2 ELSE 3

Reached(c) == IF Serving(c) THEN RankOf(Session(c).state) ELSE 3

(***************************************************************************)
(* How far the session must have come for the client to be where it is,    *)
(* and for a message to be on its way to the client.                       *)
(***************************************************************************)
ClientRank(state) ==
    IF state = "AUTHING" THEN 1 ELSE
    IF state = "READY" THEN 2 ELSE
    IF state = "DONE" THEN 3 ELSE 0

DownRank(id) ==
    IF id = "SYNACK" THEN 1 ELSE
    IF id = "PASSPORT" THEN 2 ELSE 3

(***************************************************************************)
(* Connections are numbered in the order of acceptance; Own(c) is what has *)
(* been pushed on connection c.                                            *)
(***************************************************************************)
Begun(c) == Nid(c) < nid_seed
Own(c) == [conn : {c}, n : 1 .. pushed[c]]

(***************************************************************************)
(* A net id in the pool is that of the connection whose descriptor it is   *)
(* stored under.                                                           *)
(***************************************************************************)
PoolOK ==
    /\ pool \in [Fds -> Nat] /\ nid_seed \in Nat /\ nid_seed > NumBackEnds
    /\ session \in [Fds -> Sessions]
    /\ conn_fd \in [Conns -> Fds \cup {EndFd}]
    /\ \A fd \in Fds : pool[fd] # NoNet =>
         \E c \in Conns : pool[fd] = Nid(c) /\ Begun(c) /\ conn_fd[c] = fd
    /\ \A c \in Conns : Begun(c) <=> conn_fd[c] # EndFd

(***************************************************************************)
(* What each hop may hold.  A message names the connection it belongs to   *)
(* by descriptor and net id, and the session has come as far as it had     *)
(* when the message was sent.                                              *)
(***************************************************************************)
UpMsgs(c) ==
    {m \in CSMsgs : /\ Begun(c)
                    /\ IF m.id = "DATA" THEN m.data \in Own(c) ELSE m.data = NoData}

DownMsgs(c) == {m \in UpMsgs(c) : DownRank(m.id) <= Reached(c)}

Names(m, c) == Begun(c) /\ m.nid = Nid(c) /\ m.fd = conn_fd[c]

ToMsgs ==
    {m \in SSMsgs : \E c \in Conns :
        /\ Names(m, c)
        /\ \/ m.id = "SYN" /\ m.data = NoData /\ Reached(c) >= 2
           \/ m.id = "DATA" /\ m.data \in Own(c) /\ Reached(c) >= 3
        /\ ~Stateful => m.sid = NoSid}

StartHandled(m) == \E k \in known : k.on = "SYN" /\ k.fd = m.fd /\ k.nid = m.nid

FromMsgs ==
    {m \in SSMsgs : \E c \in Conns :
        /\ Names(m, c)
        /\ \/ /\ m.id \in {"ACK", "FIN"} /\ m.data = NoData /\ Reached(c) >= 2
              /\ Reached(c) >= 3 \/ StartHandled(m)
           \/ m.id = "DATA" /\ m.data \in Own(c) /\ Reached(c) >= 3
        /\ m.sid = SidFor(m.nid)}

UpOK == up \in [Conns -> Seq(CSMsgs)] /\ \A c \in Conns : up[c] \in Seq(UpMsgs(c))
DownOK == down \in [Conns -> Seq(CSMsgs)] /\ \A c \in Conns : down[c] \in Seq(DownMsgs(c))
GotOK == got \in [Conns -> Seq(Payload)] /\ \A c \in Conns : got[c] \in Seq(Own(c))
ToOK == to_back \in [BackEnds -> Seq(ToMsgs)]
FromOK == from_back \in [BackEnds -> Seq(FromMsgs)]

KnownAs(k, c) == Names(k, c) /\ Reached(c) >= IF k.on = "SYN" THEN 2 ELSE 3

KnownOK ==
    /\ known \subseteq [back : BackEnds, fd : Fds, nid : Nat, on : {"SYN", "DATA"}]
    /\ \A k \in known : \E c \in Conns : KnownAs(k, c)

CountOK ==
    /\ seqno \in [Conns -> Nat] /\ pushed \in [Conns -> 0 .. MaxPush]
    /\ backend_pos \in 0 .. NumBackEnds
    /\ \A c \in Conns : ~Begun(c) => pushed[c] = 0

ClientOK ==
    /\ client \in [Conns -> {"NONE", "TCP_SYNING", "KEY_SYNING", "AUTHING", "READY",
                             "DONE", "FAILED", "FINI"}]
    /\ \A c \in Conns : /\ Begun(c) <=> client[c] # "NONE"
                        /\ ClientRank(client[c]) <= Reached(c)

SidOK == ~Stateful => \A fd \in Fds : session[fd].sid = NoSid

PathInv ==
    /\ PoolOK /\ UpOK /\ DownOK /\ GotOK /\ ToOK /\ FromOK /\ KnownOK
    /\ CountOK /\ ClientOK /\ SidOK

-----------------------------------------------------------------------------
(***************************************************************************)
(* Numbers of connections and their net ids.                               *)
(***************************************************************************)
LEMMA ConnNumbers ==
    /\ \A c \in Conns : c \in Nat \ {0} /\ Nid(c) \in Nat \ {0} /\ ConnOf(Nid(c)) = c
    /\ \A c, d \in Conns : Nid(c) = Nid(d) => c = d
    /\ \A n \in Nat : n > NumBackEnds /\ n < MaxNid => ConnOf(n) \in Conns /\ Nid(ConnOf(n)) = n
    /\ \A n \in Nat : ConnOf(n) \in Conns => Nid(ConnOf(n)) = n
    /\ \A fd \in Fds : fd # EndFd
BY ConnectorAssumption, BoundAssumption, FdsAssumption DEF Conns, Nid, ConnOf

(***************************************************************************)
(* A connection is served when its net id is in the pool.                  *)
(***************************************************************************)
LEMMA ServingFacts ==
    ASSUME PoolOK
    PROVE  /\ \A c \in Conns : Serving(c) => Begun(c) /\ conn_fd[c] \in Fds
           /\ \A c, d \in Conns : Serving(c) /\ Serving(d) /\ conn_fd[c] = conn_fd[d] => c = d
           /\ \A fd \in Fds : pool[fd] # NoNet =>
                /\ ConnOf(pool[fd]) \in Conns
                /\ Serving(ConnOf(pool[fd])) /\ conn_fd[ConnOf(pool[fd])] = fd
           /\ \A c \in Conns : Reached(c) \in 0 .. 3
           /\ \A c \in Conns : Begun(c) => conn_fd[c] \in Fds
<1> USE ConnNumbers
<1>1. \A c \in Conns : Serving(c) => Begun(c) /\ conn_fd[c] \in Fds
  BY DEF PoolOK, Serving
<1>2. \A c, d \in Conns : Serving(c) /\ Serving(d) /\ conn_fd[c] = conn_fd[d] => c = d
  BY DEF Serving
<1>3. \A fd \in Fds : pool[fd] # NoNet =>
        /\ ConnOf(pool[fd]) \in Conns
        /\ Serving(ConnOf(pool[fd])) /\ conn_fd[ConnOf(pool[fd])] = fd
  BY DEF PoolOK, Serving
<1>4. \A c \in Conns : Reached(c) \in 0 .. 3
  BY DEF Reached, RankOf
<1>5. \A c \in Conns : Begun(c) => conn_fd[c] \in Fds
  BY DEF PoolOK
<1>6. QED
  BY <1>1, <1>2, <1>3, <1>4, <1>5

(***************************************************************************)
(* The four ways in which a step treats pool and sessions.                 *)
(***************************************************************************)
LEMMA NothingMoves ==
    ASSUME PoolOK, UNCHANGED <<pool, nid_seed, session, conn_fd>>
    PROVE  /\ PoolOK'
           /\ \A c \in Conns : /\ Serving(c)' <=> Serving(c)
                               /\ Begun(c)' <=> Begun(c)
                               /\ Reached(c)' = Reached(c)
                               /\ Session(c)' = Session(c)
BY DEF PoolOK, Begun, Reached, Serving, Session

(***************************************************************************)
(* The session of one connection changes (SetSession, set_sid).            *)
(***************************************************************************)
LEMMA SessionMoves ==
    ASSUME PoolOK, NEW c \in Conns, Serving(c), NEW s \in Sessions,
           session' = [session EXCEPT ![conn_fd[c]] = s],
           UNCHANGED <<pool, nid_seed, conn_fd>>
    PROVE  /\ PoolOK'
           /\ \A d \in Conns : /\ Serving(d)' <=> Serving(d)
                               /\ Begun(d)' <=> Begun(d)
                               /\ d # c => Reached(d)' = Reached(d)
                               /\ d # c /\ Serving(d) => Session(d)' = Session(d)
           /\ Reached(c)' = RankOf(s.state)
           /\ Session(c)' = s
<1>1. conn_fd[c] \in Fds
  BY ServingFacts
<1>2. PoolOK'
  BY <1>1 DEF PoolOK, Begun
<1>3. \A d \in Conns : (Serving(d)' <=> Serving(d)) /\ (Begun(d)' <=> Begun(d))
  BY DEF Serving, Begun
<1>4. Session(c)' = s
  BY <1>1 DEF PoolOK, Session
<1>5. \A d \in Conns : d # c /\ Serving(d) => Session(d)' = Session(d)
  BY <1>1, ServingFacts DEF PoolOK, Session
<1>6. QED
  BY <1>2, <1>3, <1>4, <1>5 DEF Reached

(***************************************************************************)
(* A connection is removed (DestroyFrontEnd, WalkThrough).                 *)
(***************************************************************************)
LEMMA ConnectionGoes ==
    ASSUME PoolOK, NEW c \in Conns, Serving(c),
           pool' = [pool EXCEPT ![conn_fd[c]] = NoNet],
           session' = [session EXCEPT ![conn_fd[c]] = NewSession],
           UNCHANGED <<nid_seed, conn_fd>>
    PROVE  /\ PoolOK'
           /\ \A d \in Conns : /\ Serving(d)' <=> Serving(d) /\ d # c
                               /\ Begun(d)' <=> Begun(d)
                               /\ d # c => Reached(d)' = Reached(d)
                               /\ d # c /\ Serving(d) => Session(d)' = Session(d)
           /\ Reached(c)' = 3
<1>1. conn_fd[c] \in Fds
  BY ServingFacts
<1>2. NewSession \in Sessions
  BY DEF NewSession, Sessions, NoSid
<1>3. PoolOK'
  BY <1>1, <1>2 DEF PoolOK, Begun, NoNet
<1>4. \A d \in Conns : Begun(d)' <=> Begun(d)
  BY DEF Begun
<1>5. \A d \in Conns : d # c => (Serving(d)' <=> Serving(d))
  BY <1>1, ServingFacts, ConnNumbers DEF PoolOK, Serving, NoNet
<1>6. ~Serving(c)'
  BY <1>1, ConnNumbers DEF PoolOK, Serving, NoNet
<1>7. \A d \in Conns : d # c /\ Serving(d) => Session(d)' = Session(d)
  BY <1>1, ServingFacts DEF PoolOK, Session
<1>8. QED
  BY <1>3, <1>4, <1>5, <1>6, <1>7 DEF Reached

(***************************************************************************)
(* A connection is accepted (AddHandlerBySocket, OnFrontEndConnect).       *)
(***************************************************************************)
LEMMA ConnectionComes ==
    ASSUME PoolOK, NEW fd \in Fds, pool[fd] = NoNet, nid_seed < MaxNid,
           NEW n, n = ConnOf(nid_seed),
           pool' = [pool EXCEPT ![fd] = nid_seed], nid_seed' = nid_seed + 1,
           session' = [session EXCEPT ![fd] = NewSession],
           conn_fd' = [conn_fd EXCEPT ![n] = fd]
    PROVE  /\ PoolOK'
           /\ n \in Conns /\ ~Begun(n)
           /\ \A d \in Conns : d # n =>
                /\ Serving(d)' <=> Serving(d)
                /\ Begun(d)' <=> Begun(d)
                /\ Reached(d)' = Reached(d)
                /\ Serving(d) => Session(d)' = Session(d)
           /\ Serving(n)' /\ Begun(n)' /\ Session(n)' = NewSession /\ Reached(n)' = 0
<1>1. n \in Conns /\ Nid(n) = nid_seed /\ nid_seed \in Nat /\ nid_seed > NumBackEnds
  BY ConnNumbers DEF PoolOK
<1>2. \A d \in Conns : Nid(d) \in Nat /\ (Nid(d) = nid_seed <=> d = n)
  BY <1>1, ConnNumbers
<1>3. ~Begun(n) /\ Begun(n)' /\ \A d \in Conns : d # n => (Begun(d)' <=> Begun(d))
  BY <1>1, <1>2 DEF Begun
<1>4. conn_fd'[n] = fd /\ \A d \in Conns : d # n => conn_fd'[d] = conn_fd[d]
  BY <1>1 DEF PoolOK
<1>5. pool'[fd] = nid_seed /\ \A f \in Fds : f # fd => pool'[f] = pool[f]
  BY DEF PoolOK
<1>6. NewSession \in Sessions /\ NewSession.state = "INIT"
  BY DEF NewSession, Sessions, NoSid
<1>7. session'[fd] = NewSession /\ \A f \in Fds : f # fd => session'[f] = session[f]
  BY DEF PoolOK
<1>8. PoolOK'
  <2>1. /\ pool' \in [Fds -> Nat] /\ nid_seed' \in Nat /\ nid_seed' > NumBackEnds
        /\ session' \in [Fds -> Sessions]
        /\ conn_fd' \in [Conns -> Fds \cup {EndFd}]
    BY <1>1, <1>6, ConnectorAssumption DEF PoolOK
  <2>2. \A d \in Conns : Begun(d)' <=> conn_fd'[d] # EndFd
    BY <1>1, <1>3, <1>4, ConnNumbers DEF PoolOK
  <2>3. ASSUME NEW f \in Fds, pool'[f] # NoNet
        PROVE  \E d \in Conns : pool'[f] = Nid(d) /\ Begun(d)' /\ conn_fd'[d] = f
    <3>1. CASE f = fd
      BY <1>1, <1>3, <1>4, <1>5, <3>1
    <3>2. CASE f # fd
      <4>1. PICK d \in Conns : pool[f] = Nid(d) /\ Begun(d) /\ conn_fd[d] = f
        BY <1>5, <2>3, <3>2 DEF PoolOK
      <4>2. QED
        BY <1>3, <1>4, <1>5, <3>2, <4>1
    <3>3. QED
      BY <3>1, <3>2
  <2>4. QED
    BY <2>1, <2>2, <2>3 DEF PoolOK
<1>9. Serving(n)' /\ Session(n)' = NewSession
  BY <1>1, <1>4, <1>5, <1>7, ConnNumbers DEF Serving, Session
<1>10. \A d \in Conns : d # n => (Serving(d)' <=> Serving(d))
  BY <1>2, <1>4, <1>5, ConnNumbers DEF PoolOK, Serving, NoNet
<1>11. \A d \in Conns : d # n /\ Serving(d) => Session(d)' = Session(d)
  BY <1>4, <1>7, ConnNumbers, ServingFacts DEF Serving, Session, NoNet
<1>12. Reached(n)' = 0
  BY <1>6, <1>9 DEF Reached, RankOf
<1>13. \A d \in Conns : d # n => Reached(d)' = Reached(d)
  BY <1>10, <1>11 DEF Reached
<1>14. QED
  BY <1>1, <1>3, <1>8, <1>9, <1>10, <1>11, <1>12, <1>13

-----------------------------------------------------------------------------
(***************************************************************************)
(* What a message says of its connection stays true: connections keep      *)
(* their numbers and descriptors, sessions advance or end, and what was    *)
(* pushed remains pushed.                                                  *)
(***************************************************************************)
Later ==
    /\ \A c \in Conns : Begun(c) => /\ Begun(c)' /\ conn_fd'[c] = conn_fd[c]
                                    /\ Reached(c) <= Reached(c)'
    /\ \A c \in Conns : pushed[c] <= pushed'[c]
    /\ known \subseteq known'

(***************************************************************************)
(* A sequence over a set is one over every larger set.                     *)
(***************************************************************************)
LEMMA SeqGrows == \A S, T : S \subseteq T => Seq(S) \subseteq Seq(T)
OBVIOUS

(***************************************************************************)
(* What may be in the queues may still be there later: a step only pushes, *)
(* starts and begins more.                                                 *)
(***************************************************************************)
LEMMA Inherited ==
    ASSUME PathInv, PoolOK', CountOK', Later
    PROVE  /\ \A c \in Conns : /\ Own(c) \subseteq Own(c)' /\ Own(c)' \subseteq Payload
                               /\ UpMsgs(c) \subseteq UpMsgs(c)'
                               /\ DownMsgs(c) \subseteq DownMsgs(c)'
           /\ ToMsgs \subseteq ToMsgs' /\ FromMsgs \subseteq FromMsgs'
<1>1. ASSUME NEW c \in Conns PROVE Own(c) \subseteq Own(c)' /\ Own(c)' \subseteq Payload
  <2>1. pushed[c] \in 0 .. MaxPush /\ pushed'[c] \in 0 .. MaxPush /\ pushed[c] <= pushed'[c]
    BY DEF PathInv, CountOK, Later
  <2>2. 1 .. pushed[c] \subseteq 1 .. pushed'[c] /\ 1 .. pushed'[c] \subseteq 1 .. MaxPush
    BY <2>1, ConnectorAssumption
  <2>3. QED
    BY <2>2 DEF Own, Payload
<1>2. \A c \in Conns : Reached(c) \in Int /\ Reached(c)' \in Int
  BY DEF Reached, RankOf
<1>3. \A m : \A c \in Conns : Names(m, c) => Names(m, c)'
  BY DEF Later, Names
<1>4. \A c \in Conns : UpMsgs(c) \subseteq UpMsgs(c)'
  BY <1>1 DEF Later, UpMsgs
<1>5. \A c \in Conns : DownMsgs(c) \subseteq DownMsgs(c)'
  <2> SUFFICES ASSUME NEW c \in Conns, NEW m \in DownMsgs(c) PROVE m \in DownMsgs(c)'
    OBVIOUS
  <2>1. m \in UpMsgs(c)' /\ DownRank(m.id) <= Reached(c) /\ Begun(c)
    BY <1>4 DEF DownMsgs, UpMsgs
  <2>2. DownRank(m.id) \in Int
    BY DEF DownRank
  <2>3. QED
    BY <1>2, <2>1, <2>2 DEF Later, DownMsgs
<1>6. \A c \in Conns : Begun(c) => /\ Reached(c) >= 2 => Reached(c)' >= 2
                                   /\ Reached(c) >= 3 => Reached(c)' >= 3
  BY <1>2 DEF Later
<1>7. ToMsgs \subseteq ToMsgs'
  <2> SUFFICES ASSUME NEW m \in ToMsgs PROVE m \in ToMsgs'
    OBVIOUS
  <2>1. PICK c \in Conns :
          /\ Names(m, c)
          /\ \/ m.id = "SYN" /\ m.data = NoData /\ Reached(c) >= 2
             \/ m.id = "DATA" /\ m.data \in Own(c) /\ Reached(c) >= 3
          /\ ~Stateful => m.sid = NoSid
    BY DEF ToMsgs
  <2>2. QED
    BY <1>1, <1>3, <1>6, <2>1 DEF ToMsgs, Names
<1>8. FromMsgs \subseteq FromMsgs'
  <2> SUFFICES ASSUME NEW m \in FromMsgs PROVE m \in FromMsgs'
    OBVIOUS
  <2>1. PICK c \in Conns :
          /\ Names(m, c)
          /\ \/ /\ m.id \in {"ACK", "FIN"} /\ m.data = NoData /\ Reached(c) >= 2
                /\ Reached(c) >= 3 \/ StartHandled(m)
             \/ m.id = "DATA" /\ m.data \in Own(c) /\ Reached(c) >= 3
          /\ m.sid = SidFor(m.nid)
    BY DEF FromMsgs
  <2>2. Begun(c) /\ Names(m, c)'
    BY <1>3, <2>1 DEF Names
  <2>3. m \in SSMsgs
    BY DEF FromMsgs
  <2>4. StartHandled(m) => StartHandled(m)'
    BY DEF StartHandled, Later
  <2>5. QED
    BY <1>1, <1>6, <2>1, <2>2, <2>3, <2>4 DEF FromMsgs
<1>9. QED
  BY <1>1, <1>4, <1>5, <1>7, <1>8

(***************************************************************************)
(* So what a step leaves alone is as it should be.                         *)
(***************************************************************************)
LEMMA Untouched ==
    ASSUME PathInv, PoolOK', CountOK', Later
    PROVE  /\ UNCHANGED up => UpOK'
           /\ UNCHANGED down => DownOK'
           /\ UNCHANGED got => GotOK'
           /\ UNCHANGED to_back => ToOK'
           /\ UNCHANGED from_back => FromOK'
           /\ UNCHANGED known => KnownOK'
           /\ UNCHANGED <<client, nid_seed>> => ClientOK'
           /\ UNCHANGED session => SidOK'
<1>1. UNCHANGED up => UpOK'
  BY Inherited, SeqGrows DEF PathInv, UpOK
<1>2. UNCHANGED down => DownOK'
  BY Inherited, SeqGrows DEF PathInv, DownOK
<1>3. UNCHANGED got => GotOK'
  BY Inherited, SeqGrows DEF PathInv, GotOK
<1>4. UNCHANGED to_back => ToOK'
  BY Inherited, SeqGrows DEF PathInv, ToOK
<1>5. UNCHANGED from_back => FromOK'
  BY Inherited, SeqGrows DEF PathInv, FromOK
<1>6. \A c \in Conns : Reached(c) \in 0 .. 3 /\ (Reached(c) \in 0 .. 3)'
  BY DEF Reached, RankOf
<1>7. UNCHANGED known => KnownOK'
  <2> SUFFICES ASSUME UNCHANGED known PROVE KnownOK'
    OBVIOUS
  <2>1. ASSUME NEW k \in known PROVE \E c \in Conns : KnownAs(k, c)'
    <3>1. PICK c \in Conns : KnownAs(k, c)
      BY DEF PathInv, KnownOK
    <3>2. Begun(c) /\ Names(k, c)' /\ Reached(c) <= Reached(c)'
      BY <3>1 DEF KnownAs, Names, Later
    <3>3. QED
      BY <1>6, <3>1, <3>2 DEF KnownAs
  <2>2. QED
    BY <2>1 DEF PathInv, KnownOK
<1>8. UNCHANGED <<client, nid_seed>> => ClientOK'
  <2> SUFFICES ASSUME UNCHANGED <<client, nid_seed>> PROVE ClientOK'
    OBVIOUS
  <2>1. \A c \in Conns : Begun(c)' <=> Begun(c)
    BY DEF Begun
  <2>2. ASSUME NEW c \in Conns PROVE ClientRank(client[c]) <= Reached(c)'
    <3>1. CASE Begun(c)
      <4>1. ClientRank(client[c]) <= Reached(c) /\ Reached(c) <= Reached(c)'
        BY <3>1 DEF PathInv, ClientOK, Later
      <4>2. ClientRank(client[c]) \in Int
        BY DEF ClientRank
      <4>3. QED
        BY <1>6, <4>1, <4>2
    <3>2. CASE ~Begun(c)
      BY <1>6, <3>2 DEF PathInv, ClientOK, ClientRank
    <3>3. QED
      BY <3>1, <3>2
  <2>3. QED
    BY <2>1, <2>2 DEF PathInv, ClientOK
<1>9. UNCHANGED session => SidOK'
  BY DEF PathInv, SidOK
<1>10. QED
  BY <1>1, <1>2, <1>3, <1>4, <1>5, <1>7, <1>8, <1>9

(***************************************************************************)
(* And so is a queue of which one end has been touched.                    *)
(***************************************************************************)
LEMMA UpQueue ==
    ASSUME PathInv, PoolOK', CountOK', Later, NEW c \in Conns,
           NEW q \in Seq(UpMsgs(c)'), up' = [up EXCEPT ![c] = q]
    PROVE  UpOK'
<1>1. UpMsgs(c)' \subseteq CSMsgs
  BY DEF UpMsgs, CSMsgs, Payload
<1>2. q \in Seq(CSMsgs)
  BY <1>1, SeqGrows
<1>3. QED
  BY <1>2, Inherited, SeqGrows DEF PathInv, UpOK

(***************************************************************************)
(* One queue to a client is replaced by another of messages that may be    *)
(* there.                                                                  *)
(***************************************************************************)
LEMMA DownQueue ==
    ASSUME PathInv, PoolOK', CountOK', Later, NEW c \in Conns,
           NEW q \in Seq(DownMsgs(c)'), down' = [down EXCEPT ![c] = q]
    PROVE  DownOK'
<1>1. DownMsgs(c)' \subseteq CSMsgs
  BY DEF DownMsgs, UpMsgs, CSMsgs, Payload
<1>2. q \in Seq(CSMsgs)
  BY <1>1, SeqGrows
<1>3. QED
  BY <1>2, Inherited, SeqGrows DEF PathInv, DownOK

(***************************************************************************)
(* Taking a message, or all of them, out of a queue.                       *)
(***************************************************************************)
LEMMA UpTaken ==
    ASSUME PathInv, PoolOK', CountOK', Later, NEW c \in Conns,
           \/ up[c] # <<>> /\ up' = [up EXCEPT ![c] = Tail(@)]
           \/ up' = [up EXCEPT ![c] = <<>>]
    PROVE  UpOK'
<1>1. Seq(UpMsgs(c)) \subseteq Seq(UpMsgs(c)')
  BY Inherited, SeqGrows
<1>2. CASE up[c] # <<>> /\ up' = [up EXCEPT ![c] = Tail(@)]
  <2>1. Tail(up[c]) \in Seq(UpMsgs(c)')
    BY <1>1, <1>2 DEF PathInv, UpOK
  <2>2. QED
    BY <1>2, <2>1, UpQueue
<1>3. CASE up' = [up EXCEPT ![c] = <<>>]
  <2>1. <<>> \in Seq(UpMsgs(c)')
    OBVIOUS
  <2>2. QED
    BY <1>3, <2>1, UpQueue
<1>4. QED
  BY <1>2, <1>3

(***************************************************************************)
(* A queue to a client loses messages.                                     *)
(***************************************************************************)
LEMMA DownTaken ==
    ASSUME PathInv, PoolOK', CountOK', Later, NEW c \in Conns,
           \/ down[c] # <<>> /\ down' = [down EXCEPT ![c] = Tail(@)]
           \/ \E k \in 0 .. Len(down[c]) : down' = [down EXCEPT ![c] = SubSeq(@, 1, k)]
           \/ down' = [down EXCEPT ![c] = <<>>]
    PROVE  DownOK'
<1>1. Seq(DownMsgs(c)) \subseteq Seq(DownMsgs(c)') /\ down[c] \in Seq(DownMsgs(c))
  BY Inherited, SeqGrows DEF PathInv, DownOK
<1>2. CASE down[c] # <<>> /\ down' = [down EXCEPT ![c] = Tail(@)]
  <2>1. Tail(down[c]) \in Seq(DownMsgs(c)')
    BY <1>1, <1>2
  <2>2. QED
    BY <1>2, <2>1, DownQueue
<1>3. ASSUME NEW k \in 0 .. Len(down[c]), down' = [down EXCEPT ![c] = SubSeq(@, 1, k)]
      PROVE  DownOK'
  <2>1. \A i \in 1 .. k : down[c][i] \in DownMsgs(c)
    BY <1>1, ElementOfSeq
  <2>2. SubSeq(down[c], 1, k) \in Seq(DownMsgs(c))
    BY <2>1, SubSeqProperties
  <2>3. QED
    BY <1>1, <1>3, <2>2, DownQueue
<1>4. CASE down' = [down EXCEPT ![c] = <<>>]
  <2>1. <<>> \in Seq(DownMsgs(c)')
    OBVIOUS
  <2>2. QED
    BY <1>4, <2>1, DownQueue
<1>5. QED
  BY <1>2, <1>3, <1>4

(***************************************************************************)
(* SerializeAndSendToPeer and SendToFrontEnd add a message that may be     *)
(* where it goes.                                                          *)
(***************************************************************************)
LEMMA UpSent ==
    ASSUME PathInv, PoolOK', CountOK', Later, NEW c \in Conns, NEW id, NEW data,
           \/ id \in {"SYN", "AUTH"} /\ data = NoData
           \/ id = "DATA" /\ data \in Own(c)',
           up' = IF Serving(c) THEN [up EXCEPT ![c] = Append(@, CSMsg(id, seqno[c], data))]
                               ELSE up
    PROVE  UpOK'
<1>1. CASE ~Serving(c)
  BY <1>1, Untouched
<1>2. CASE Serving(c)
  <2>1. Begun(c)' /\ seqno[c] \in Nat
    BY <1>2, ServingFacts DEF PathInv, CountOK, Later
  <2>2. Own(c)' \subseteq Payload
    BY Inherited
  <2>3. CSMsg(id, seqno[c], data) \in UpMsgs(c)'
    BY <2>1, <2>2 DEF CSMsg, CSMsgs, UpMsgs
  <2>4. Append(up[c], CSMsg(id, seqno[c], data)) \in Seq(UpMsgs(c)')
    BY <2>3, Inherited, SeqGrows DEF PathInv, UpOK
  <2>5. QED
    BY <1>2, <2>4, UpQueue
<1>3. QED
  BY <1>1, <1>2

(***************************************************************************)
(* SendDown: the session has reached the state in which the connector      *)
(* sends this message.                                                     *)
(***************************************************************************)
LEMMA DownSent ==
    ASSUME PathInv, PoolOK', CountOK', Later, NEW c \in Conns, NEW id, NEW data,
           \/ id \in {"SYNACK", "PASSPORT", "START_APP"} /\ data = NoData
           \/ id = "DATA" /\ data \in Own(c)',
           DownRank(id) <= Reached(c)', SendDown(c, id, data)
    PROVE  DownOK'
<1>1. CASE ~ClientOpen(c)
  BY <1>1, Untouched DEF SendDown
<1>2. CASE ClientOpen(c)
  <2>1. Begun(c)'
    BY <1>2 DEF PathInv, ClientOK, ClientOpen, Later
  <2>2. Own(c)' \subseteq Payload
    BY Inherited
  <2>3. CSMsg(id, 0, data) \in DownMsgs(c)'
    BY <2>1, <2>2 DEF CSMsg, CSMsgs, UpMsgs, DownMsgs
  <2>4. Append(down[c], CSMsg(id, 0, data)) \in Seq(DownMsgs(c)')
    BY <2>3, Inherited, SeqGrows DEF PathInv, DownOK
  <2>5. QED
    BY <1>2, <2>4, DownQueue DEF SendDown
<1>3. QED
  BY <1>1, <1>2

(***************************************************************************)
(* The queues between the connector and the back ends.                     *)
(***************************************************************************)
LEMMA ToQueue ==
    ASSUME PathInv, PoolOK', CountOK', Later, NEW b \in BackEnds,
           \/ to_back' = to_back
           \/ to_back[b] # <<>> /\ to_back' = [to_back EXCEPT ![b] = Tail(@)]
           \/ to_back' = [to_back EXCEPT ![b] = <<>>]
           \/ \E msg \in ToMsgs' : to_back' = [to_back EXCEPT ![b] = Append(@, msg)]
    PROVE  ToOK'
<1>1. to_back \in [BackEnds -> Seq(ToMsgs')]
  BY Inherited, SeqGrows DEF PathInv, ToOK
<1>2. CASE to_back[b] # <<>> /\ to_back' = [to_back EXCEPT ![b] = Tail(@)]
  <2>1. Tail(to_back[b]) \in Seq(ToMsgs')
    BY <1>1, <1>2
  <2>2. QED
    BY <1>1, <1>2, <2>1 DEF ToOK
<1>3. CASE to_back' = [to_back EXCEPT ![b] = <<>>]
  <2>1. <<>> \in Seq(ToMsgs')
    OBVIOUS
  <2>2. QED
    BY <1>1, <1>3, <2>1 DEF ToOK
<1>4. ASSUME NEW msg \in ToMsgs', to_back' = [to_back EXCEPT ![b] = Append(@, msg)]
      PROVE  ToOK'
  <2>1. Append(to_back[b], msg) \in Seq(ToMsgs')
    BY <1>1
  <2>2. QED
    BY <1>1, <1>4, <2>1 DEF ToOK
<1>5. CASE to_back' = to_back
  BY <1>1, <1>5 DEF ToOK
<1>6. QED
  BY <1>2, <1>3, <1>4, <1>5

(***************************************************************************)
(* The queue from a back end loses messages or gets one that a back end    *)
(* may send.                                                               *)
(***************************************************************************)
LEMMA FromQueue ==
    ASSUME PathInv, PoolOK', CountOK', Later, NEW b \in BackEnds,
           \/ from_back[b] # <<>> /\ from_back' = [from_back EXCEPT ![b] = Tail(@)]
           \/ from_back' = [from_back EXCEPT ![b] = <<>>]
           \/ \E msg \in FromMsgs' : from_back' = [from_back EXCEPT ![b] = Append(@, msg)]
    PROVE  FromOK'
<1>1. from_back \in [BackEnds -> Seq(FromMsgs')]
  BY Inherited, SeqGrows DEF PathInv, FromOK
<1>2. CASE from_back[b] # <<>> /\ from_back' = [from_back EXCEPT ![b] = Tail(@)]
  <2>1. Tail(from_back[b]) \in Seq(FromMsgs')
    BY <1>1, <1>2
  <2>2. QED
    BY <1>1, <1>2, <2>1 DEF FromOK
<1>3. CASE from_back' = [from_back EXCEPT ![b] = <<>>]
  <2>1. <<>> \in Seq(FromMsgs')
    OBVIOUS
  <2>2. QED
    BY <1>1, <1>3, <2>1 DEF FromOK
<1>4. ASSUME NEW msg \in FromMsgs', from_back' = [from_back EXCEPT ![b] = Append(@, msg)]
      PROVE  FromOK'
  <2>1. Append(from_back[b], msg) \in Seq(FromMsgs')
    BY <1>1
  <2>2. QED
    BY <1>1, <1>4, <2>1 DEF FromOK
<1>5. QED
  BY <1>2, <1>3, <1>4

(***************************************************************************)
(* The counters.                                                           *)
(***************************************************************************)
LEMMA CountsKept ==
    ASSUME PathInv, UNCHANGED <<nid_seed, seqno, pushed>>, backend_pos' \in 0 .. NumBackEnds
    PROVE  CountOK'
BY DEF PathInv, CountOK, Begun

(***************************************************************************)
(* A client goes to another state.                                         *)
(***************************************************************************)
LEMMA ClientMoves ==
    ASSUME PathInv, PoolOK', Later, UNCHANGED nid_seed,
           NEW c \in Conns, client[c] # "NONE",
           NEW next \in {"KEY_SYNING", "AUTHING", "READY", "DONE", "FAILED", "FINI"},
           client' = [client EXCEPT ![c] = next],
           ClientRank(next) <= Reached(c)'
    PROVE  ClientOK'
<1>1. \A d \in Conns : Begun(d)' <=> Begun(d)
  BY DEF Begun
<1>2. \A d \in Conns : Reached(d) \in 0 .. 3 /\ Reached(d)' \in 0 .. 3
  BY DEF Reached, RankOf
<1>3. ASSUME NEW d \in Conns PROVE (Begun(d) <=> client'[d] # "NONE")
  BY DEF PathInv, ClientOK
<1>4. ASSUME NEW d \in Conns, d # c PROVE ClientRank(client[d]) <= Reached(d)'
  <2>1. ClientRank(client[d]) <= Reached(d) /\ ClientRank(client[d]) \in 0 .. 3
    BY DEF PathInv, ClientOK, ClientRank
  <2>2. CASE Begun(d)
    BY <1>2, <2>1, <2>2 DEF Later
  <2>3. CASE ~Begun(d)
    BY <1>2, <2>3 DEF PathInv, ClientOK, ClientRank
  <2>4. QED
    BY <2>2, <2>3
<1>5. /\ client' \in [Conns -> {"NONE", "TCP_SYNING", "KEY_SYNING", "AUTHING", "READY",
                                "DONE", "FAILED", "FINI"}]
      /\ client'[c] = next /\ \A d \in Conns : d # c => client'[d] = client[d]
  BY DEF PathInv, ClientOK
<1>6. \A d \in Conns : ClientRank(client'[d]) <= Reached(d)'
  BY <1>4, <1>5
<1>7. QED
  BY <1>1, <1>3, <1>5, <1>6 DEF ClientOK

(***************************************************************************)
(* Three of the four ways of the pool again, with what follows for the     *)
(* messages under way.                                                     *)
(***************************************************************************)
LEMMA PoolKept ==
    ASSUME PathInv, UNCHANGED <<pool, nid_seed, session, conn_fd>>,
           \A c \in Conns : pushed[c] <= pushed'[c], known \subseteq known'
    PROVE  /\ PoolOK' /\ Later /\ SidOK'
           /\ \A c \in Conns : Reached(c)' = Reached(c) /\ (Begun(c)' <=> Begun(c))
<1>1. PoolOK' /\ \A c \in Conns : Reached(c)' = Reached(c) /\ (Begun(c)' <=> Begun(c))
  BY NothingMoves DEF PathInv
<1>2. \A c \in Conns : Reached(c) \in 0 .. 3
  BY ServingFacts DEF PathInv
<1>3. Later
  BY <1>1, <1>2 DEF Later
<1>4. QED
  BY <1>1, <1>3 DEF PathInv, SidOK

(***************************************************************************)
(* The session of a served connection goes on to a state that is not       *)
(* behind.                                                                 *)
(***************************************************************************)
LEMMA SessionAdvances ==
    ASSUME PathInv, NEW c \in Conns, Serving(c), NEW s \in Sessions,
           session' = [session EXCEPT ![conn_fd[c]] = s],
           Reached(c) <= RankOf(s.state), ~Stateful => s.sid = NoSid,
           UNCHANGED <<pool, nid_seed, conn_fd, pushed, known>>
    PROVE  /\ PoolOK' /\ Later /\ SidOK'
           /\ Reached(c)' = RankOf(s.state)
           /\ \A d \in Conns : Begun(d)' <=> Begun(d)
<1>1. /\ PoolOK' /\ Reached(c)' = RankOf(s.state)
      /\ \A d \in Conns : /\ Begun(d)' <=> Begun(d)
                          /\ d # c => Reached(d)' = Reached(d)
  BY SessionMoves DEF PathInv
<1>2. \A d \in Conns : Reached(d) \in 0 .. 3 /\ (Serving(d) => conn_fd[d] \in Fds)
  BY ServingFacts DEF PathInv
<1>3. \A d \in Conns : pushed[d] <= pushed[d]
  BY DEF PathInv, CountOK
<1>4. Later
  BY <1>1, <1>2, <1>3 DEF Later
<1>5. SidOK'
  BY <1>2 DEF PathInv, PoolOK, SidOK
<1>6. QED
  BY <1>1, <1>4, <1>5

(***************************************************************************)
(* The session of a connection is deleted with its place in the pool       *)
(* (DeleteSession).                                                        *)
(***************************************************************************)
LEMMA SessionEnds ==
    ASSUME PathInv, NEW c \in Conns, Serving(c), CountOK',
           pool' = [pool EXCEPT ![conn_fd[c]] = NoNet], DeleteSession(c),
           UNCHANGED <<nid_seed, conn_fd, pushed, known>>
    PROVE  PoolOK' /\ Later /\ SidOK' /\ UpOK' /\ DownOK'
<1>1. /\ PoolOK' /\ Reached(c)' = 3
      /\ \A d \in Conns : /\ Begun(d)' <=> Begun(d)
                          /\ d # c => Reached(d)' = Reached(d)
  BY ConnectionGoes DEF PathInv, DeleteSession
<1>2. \A d \in Conns : Reached(d) \in 0 .. 3 /\ (Serving(d) => conn_fd[d] \in Fds)
  BY ServingFacts DEF PathInv
<1>3. \A d \in Conns : pushed[d] <= pushed[d]
  BY DEF PathInv, CountOK
<1>4. Later
  BY <1>1, <1>2, <1>3 DEF Later
<1>5. SidOK'
  BY <1>2 DEF PathInv, PoolOK, SidOK, DeleteSession, NewSession
<1>6. UpOK' /\ DownOK'
  BY <1>1, <1>4, UpTaken, DownTaken DEF DeleteSession
<1>7. QED
  BY <1>1, <1>4, <1>5, <1>6

-----------------------------------------------------------------------------
(***************************************************************************)
(* One lemma per action.  Those of the clients first: an accepted          *)
(* connection is one that nothing has been said about yet.                 *)
(***************************************************************************)
LEMMA ClientConnectStep ==
    ASSUME PathInv, NEW fd \in Fds, ClientConnect(fd)
    PROVE  PathInv'
<1>1. PICK n : n = ConnOf(nid_seed)
  OBVIOUS
<1>2. /\ pool[fd] = NoNet /\ nid_seed < MaxNid
      /\ pool' = [pool EXCEPT ![fd] = nid_seed] /\ nid_seed' = nid_seed + 1
      /\ session' = [session EXCEPT ![fd] = NewSession]
      /\ conn_fd' = [conn_fd EXCEPT ![n] = fd]
      /\ client' = [client EXCEPT ![n] = "TCP_SYNING"]
      /\ \E s \in StartSeqs : seqno' = [seqno EXCEPT ![n] = s]
      /\ UNCHANGED <<backend_pos, to_back, from_back, known, pushed, got, up, down>>
  BY <1>1 DEF ClientConnect, OnFrontEndConnect, AddHandlerBySocket, backVars
<1>3. /\ PoolOK' /\ n \in Conns /\ ~Begun(n) /\ Begun(n)' /\ Reached(n)' = 0
      /\ \A d \in Conns : d # n => (Begun(d)' <=> Begun(d)) /\ Reached(d)' = Reached(d)
  BY <1>1, <1>2, ConnectionComes DEF PathInv
<1>4. CountOK'
  BY <1>2, <1>3, ConnectorAssumption DEF PathInv, CountOK
<1>5. \A d \in Conns : Reached(d) \in 0 .. 3 /\ pushed[d] <= pushed[d]
  BY ServingFacts DEF PathInv, CountOK
<1>6. \A d \in Conns : d # n => conn_fd'[d] = conn_fd[d]
  BY <1>2 DEF PathInv, PoolOK
<1>7. Later
  BY <1>2, <1>3, <1>5, <1>6 DEF Later
<1>8. ClientOK'
  <2>1. ClientRank("TCP_SYNING") = 0
    BY DEF ClientRank
  <2>2. /\ client' \in [Conns -> {"NONE", "TCP_SYNING", "KEY_SYNING", "AUTHING", "READY",
                                  "DONE", "FAILED", "FINI"}]
        /\ client'[n] = "TCP_SYNING" /\ \A d \in Conns : d # n => client'[d] = client[d]
    BY <1>2, <1>3 DEF PathInv, ClientOK
  <2>3. QED
    BY <1>3, <2>1, <2>2 DEF PathInv, ClientOK
<1>9. SidOK'
  BY <1>2 DEF PathInv, PoolOK, SidOK, NewSession
<1>10. UpOK' /\ DownOK' /\ GotOK' /\ ToOK' /\ FromOK' /\ KnownOK'
  BY <1>2, <1>3, <1>4, <1>7, Untouched
<1>11. QED
  BY <1>3, <1>4, <1>8, <1>9, <1>10 DEF PathInv

(***************************************************************************)
(* A client that is somewhere has begun, and its queues and counters are   *)
(* what they should be.                                                    *)
(***************************************************************************)
LEMMA ClientFacts ==
    ASSUME PathInv, NEW c \in Conns
    PROVE  /\ seqno[c] \in Nat /\ pushed[c] \in 0 .. MaxPush
           /\ down[c] # <<>> => Head(down[c]) \in DownMsgs(c)
           /\ up[c] # <<>> => Head(up[c]) \in UpMsgs(c)
           /\ Reached(c) \in 0 .. 3
           /\ backend_pos \in 0 .. NumBackEnds
<1>1. down[c] \in Seq(DownMsgs(c)) /\ up[c] \in Seq(UpMsgs(c))
  BY DEF PathInv, DownOK, UpOK
<1>2. QED
  BY <1>1, ServingFacts DEF PathInv, CountOK

(***************************************************************************)
(* The client begins the handshake.                                        *)
(***************************************************************************)
LEMMA HandShakeSynStep ==
    ASSUME PathInv, NEW c \in Conns, HandShake_SYN(c)
    PROVE  PathInv'
<1>1. /\ client[c] = "TCP_SYNING" /\ client' = [client EXCEPT ![c] = "KEY_SYNING"]
      /\ up' = IF Serving(c) THEN [up EXCEPT ![c] = Append(@, CSMsg("SYN", seqno[c], NoData))]
                             ELSE up
      /\ seqno' = [seqno EXCEPT ![c] = @ + 1]
      /\ UNCHANGED <<pool, nid_seed, session, conn_fd, backend_pos, to_back, from_back,
                     known, pushed, got, down>>
  BY DEF HandShake_SYN, SendUp, poolVars, sessionVars, backVars
<1>2. CountOK'
  BY <1>1 DEF PathInv, CountOK, Begun
<1>3. PoolOK' /\ Later /\ SidOK' /\ Reached(c)' = Reached(c) /\ Reached(c) \in 0 .. 3
  BY <1>1, PoolKept, ClientFacts
<1>4. ClientOK'
  <2>1. ClientRank("KEY_SYNING") <= Reached(c)'
    BY <1>3 DEF ClientRank
  <2>2. QED
    BY <1>1, <1>3, <2>1, ClientMoves
<1>5. UpOK'
  BY <1>1, <1>2, <1>3, UpSent
<1>6. DownOK' /\ GotOK' /\ ToOK' /\ FromOK' /\ KnownOK'
  BY <1>1, <1>2, <1>3, Untouched
<1>7. QED
  BY <1>2, <1>3, <1>4, <1>5, <1>6 DEF PathInv

(***************************************************************************)
(* KEY_SYNING: SYNACK is answered by AUTH, and anything else is taken for  *)
(* no packet yet.                                                          *)
(***************************************************************************)
LEMMA TryAckStep ==
    ASSUME PathInv, NEW c \in Conns, TryAck(c)
    PROVE  PathInv'
<1>1. /\ client[c] = "KEY_SYNING" /\ down[c] # <<>>
      /\ down' = [down EXCEPT ![c] = Tail(@)]
      /\ UNCHANGED <<pool, nid_seed, session, conn_fd, backend_pos, to_back, from_back,
                     known, pushed, got>>
  BY DEF TryAck, poolVars, sessionVars, backVars
<1>2. \/ /\ Head(down[c]).id = "SYNACK"
         /\ up' = IF Serving(c)
                    THEN [up EXCEPT ![c] = Append(@, CSMsg("AUTH", seqno[c], NoData))] ELSE up
         /\ seqno' = [seqno EXCEPT ![c] = @ + 1]
         /\ client' = [client EXCEPT ![c] = "AUTHING"]
      \/ UNCHANGED <<client, seqno, up>>
  BY DEF TryAck, SendUp
<1>3. CountOK'
  BY <1>1, <1>2 DEF PathInv, CountOK, Begun
<1>4. PoolOK' /\ Later /\ SidOK' /\ Reached(c)' = Reached(c) /\ Reached(c) \in 0 .. 3
  BY <1>1, PoolKept, ClientFacts
<1>5. DownOK'
  BY <1>1, <1>3, <1>4, DownTaken
<1>6. GotOK' /\ ToOK' /\ FromOK' /\ KnownOK'
  BY <1>1, <1>3, <1>4, Untouched
<1>7. UpOK' /\ ClientOK'
  <2>1. CASE UNCHANGED <<client, seqno, up>>
    BY <1>1, <1>3, <1>4, <2>1, Untouched
  <2>2. CASE /\ Head(down[c]).id = "SYNACK"
             /\ up' = IF Serving(c)
                        THEN [up EXCEPT ![c] = Append(@, CSMsg("AUTH", seqno[c], NoData))] ELSE up
             /\ seqno' = [seqno EXCEPT ![c] = @ + 1]
             /\ client' = [client EXCEPT ![c] = "AUTHING"]
    <3>1. Reached(c) >= 1
      BY <1>1, <1>4, <2>2, ClientFacts DEF DownMsgs, DownRank
    <3>2. ClientOK'
      BY <1>1, <1>4, <2>2, <3>1, ClientMoves DEF ClientRank
    <3>3. UpOK'
      BY <1>3, <1>4, <2>2, UpSent
    <3>4. QED
      BY <3>2, <3>3
  <2>3. QED
    BY <1>2, <2>1, <2>2
<1>8. QED
  BY <1>3, <1>4, <1>5, <1>6, <1>7 DEF PathInv

(***************************************************************************)
(* The client moves without a word to the connector.                       *)
(***************************************************************************)
LEMMA ClientOnly ==
    ASSUME PathInv, NEW c \in Conns, client[c] # "NONE",
           NEW next \in {"KEY_SYNING", "AUTHING", "READY", "DONE", "FAILED", "FINI"},
           client' = [client EXCEPT ![c] = next],
           ClientRank(next) <= Reached(c),
           \/ down[c] # <<>> /\ down' = [down EXCEPT ![c] = Tail(@)]
           \/ down' = [down EXCEPT ![c] = <<>>],
           UNCHANGED <<poolVars, sessionVars, backVars, seqno, pushed, got, conn_fd, up>>
    PROVE  PathInv'
<1>1. UNCHANGED <<pool, nid_seed, session, conn_fd, backend_pos, to_back, from_back,
                  known, seqno, pushed, got, up>>
  BY DEF poolVars, sessionVars, backVars
<1>2. CountOK'
  BY <1>1, CountsKept, ClientFacts
<1>3. PoolOK' /\ Later /\ SidOK' /\ Reached(c)' = Reached(c)
  BY <1>1, PoolKept, ClientFacts
<1>4. ClientOK'
  BY <1>1, <1>3, ClientMoves
<1>5. DownOK'
  BY <1>2, <1>3, DownTaken
<1>6. UpOK' /\ GotOK' /\ ToOK' /\ FromOK' /\ KnownOK'
  BY <1>1, <1>2, <1>3, Untouched
<1>7. QED
  BY <1>2, <1>3, <1>4, <1>5, <1>6 DEF PathInv

(***************************************************************************)
(* AUTHING: PASSPORT or failure.                                           *)
(***************************************************************************)
LEMMA TryReadyStep ==
    ASSUME PathInv, NEW c \in Conns, TryReady(c)
    PROVE  PathInv'
<1>1. PICK next \in {"READY", "FAILED"} :
        /\ client[c] # "NONE" /\ down[c] # <<>>
        /\ down' = [down EXCEPT ![c] = Tail(@)]
        /\ next = "READY" => Head(down[c]).id = "PASSPORT"
        /\ client' = [client EXCEPT ![c] = next]
        /\ UNCHANGED <<poolVars, sessionVars, backVars, seqno, pushed, got, conn_fd, up>>
  BY DEF TryReady, TryNext
<1>2. ClientRank(next) <= Reached(c)
  BY <1>1, ClientFacts DEF DownMsgs, DownRank, ClientRank
<1>3. QED
  BY <1>1, <1>2, ClientOnly

(***************************************************************************)
(* READY: START_APP or failure.                                            *)
(***************************************************************************)
LEMMA TryDoneStep ==
    ASSUME PathInv, NEW c \in Conns, TryDone(c)
    PROVE  PathInv'
<1>1. PICK next \in {"DONE", "FAILED"} :
        /\ client[c] # "NONE" /\ down[c] # <<>>
        /\ down' = [down EXCEPT ![c] = Tail(@)]
        /\ next = "DONE" => Head(down[c]).id = "START_APP"
        /\ client' = [client EXCEPT ![c] = next]
        /\ UNCHANGED <<poolVars, sessionVars, backVars, seqno, pushed, got, conn_fd, up>>
  BY DEF TryDone, TryNext
<1>2. ClientRank(next) <= Reached(c)
  BY <1>1, ClientFacts DEF DownMsgs, DownRank, ClientRank
<1>3. QED
  BY <1>1, <1>2, ClientOnly

(***************************************************************************)
(* The client gives its connection up.                                     *)
(***************************************************************************)
LEMMA ClientLeavesStep ==
    ASSUME PathInv, NEW c \in Conns, OnServerClose(c) \/ Terminate(c)
    PROVE  PathInv'
<1>1. PICK next \in {"FAILED", "FINI"} :
        /\ client[c] # "NONE"
        /\ client' = [client EXCEPT ![c] = next]
        /\ down' = [down EXCEPT ![c] = <<>>]
        /\ UNCHANGED <<poolVars, sessionVars, backVars, seqno, pushed, got, conn_fd, up>>
  BY DEF OnServerClose, Terminate, ClientOpen
<1>2. ClientRank(next) <= Reached(c)
  BY <1>1, ClientFacts DEF ClientRank
<1>3. QED
  BY <1>1, <1>2, ClientOnly

(***************************************************************************)
(* The client pushes a message, which becomes its own.                     *)
(***************************************************************************)
LEMMA PushMessageStep ==
    ASSUME PathInv, NEW c \in Conns, PushMessage(c)
    PROVE  PathInv'
<1>1. /\ client[c] # "NONE" /\ pushed[c] < MaxPush
      /\ pushed' = [pushed EXCEPT ![c] = @ + 1]
      /\ seqno' = [seqno EXCEPT ![c] = @ + 1]
      /\ UNCHANGED <<pool, nid_seed, session, conn_fd, backend_pos, to_back, from_back,
                     known, client, got, down>>
  BY DEF PushMessage, MayPush, ClientOpen, SendUp, poolVars, sessionVars, backVars
<1>2. Begun(c) /\ pushed[c] \in 0 .. MaxPush /\ c \in Nat
  BY <1>1, ConnNumbers DEF PathInv, ClientOK, CountOK
<1>3. /\ pushed'[c] = pushed[c] + 1 /\ pushed' \in [Conns -> 0 .. MaxPush]
      /\ \A d \in Conns : pushed[d] <= pushed'[d] /\ (d # c => pushed'[d] = pushed[d])
  BY <1>1, <1>2, ConnectorAssumption DEF PathInv, CountOK
<1>4. CountOK'
  BY <1>1, <1>2, <1>3 DEF PathInv, CountOK, Begun
<1>5. PoolOK' /\ Later /\ SidOK'
  BY <1>1, <1>3, PoolKept
<1>6. PICK p : p = [conn |-> c, n |-> pushed[c] + 1]
  OBVIOUS
<1>7. p \in Own(c)'
  BY <1>2, <1>3, <1>6 DEF Own
<1>8. up' = IF Serving(c) THEN [up EXCEPT ![c] = Append(@, CSMsg("DATA", seqno[c], p))]
                          ELSE up
  BY <1>6 DEF PushMessage, SendUp
<1>9. UpOK'
  BY <1>4, <1>5, <1>7, <1>8, UpSent
<1>10. DownOK' /\ GotOK' /\ ToOK' /\ FromOK' /\ KnownOK' /\ ClientOK'
  BY <1>1, <1>4, <1>5, Untouched
<1>11. QED
  BY <1>4, <1>5, <1>9, <1>10 DEF PathInv

(***************************************************************************)
(* The push fails after the sequence number has been taken.                *)
(***************************************************************************)
LEMMA PushMessageFailedStep ==
    ASSUME PathInv, NEW c \in Conns, PushMessageFailed(c)
    PROVE  PathInv'
<1>1. /\ client[c] # "NONE" /\ pushed[c] < MaxPush
      /\ pushed' = [pushed EXCEPT ![c] = @ + 1]
      /\ seqno' = [seqno EXCEPT ![c] = @ + 1]
      /\ UNCHANGED <<pool, nid_seed, session, conn_fd, backend_pos, to_back, from_back,
                     known, client, got, down, up>>
  BY DEF PushMessageFailed, MayPush, ClientOpen, poolVars, sessionVars, backVars, linkVars
<1>2. Begun(c) /\ pushed[c] \in 0 .. MaxPush
  BY <1>1 DEF PathInv, ClientOK, CountOK
<1>3. /\ pushed' \in [Conns -> 0 .. MaxPush]
      /\ \A d \in Conns : pushed[d] <= pushed'[d] /\ (d # c => pushed'[d] = pushed[d])
  BY <1>1, <1>2, ConnectorAssumption DEF PathInv, CountOK
<1>4. CountOK'
  BY <1>1, <1>2, <1>3 DEF PathInv, CountOK, Begun
<1>5. PoolOK' /\ Later /\ SidOK'
  BY <1>1, <1>3, PoolKept
<1>6. UpOK' /\ DownOK' /\ GotOK' /\ ToOK' /\ FromOK' /\ KnownOK' /\ ClientOK'
  BY <1>1, <1>4, <1>5, Untouched
<1>7. QED
  BY <1>4, <1>5, <1>6 DEF PathInv

(***************************************************************************)
(* The client takes a message; data that it takes is its own.              *)
(***************************************************************************)
LEMMA PopMessageStep ==
    ASSUME PathInv, NEW c \in Conns, PopMessage(c)
    PROVE  PathInv'
<1>1. /\ down[c] # <<>> /\ down' = [down EXCEPT ![c] = Tail(@)]
      /\ got' = IF Head(down[c]).id = "DATA"
                  THEN [got EXCEPT ![c] = Append(@, Head(down[c]).data)] ELSE got
      /\ UNCHANGED <<pool, nid_seed, session, conn_fd, backend_pos, to_back, from_back,
                     known, client, seqno, pushed, up>>
  BY DEF PopMessage, poolVars, sessionVars, backVars
<1>2. CountOK'
  BY <1>1, CountsKept, ClientFacts
<1>3. PoolOK' /\ Later /\ SidOK'
  BY <1>1, PoolKept, ClientFacts
<1>4. DownOK'
  BY <1>1, <1>2, <1>3, DownTaken
<1>5. GotOK'
  <2>1. CASE Head(down[c]).id # "DATA"
    BY <1>1, <1>2, <1>3, <2>1, Untouched
  <2>2. CASE Head(down[c]).id = "DATA"
    <3>1. Head(down[c]).data \in Own(c)
      BY <1>1, <2>2, ClientFacts DEF DownMsgs, UpMsgs
    <3>2. \A d \in Conns : Own(d)' = Own(d) /\ Own(d) \subseteq Payload
      BY <1>1, <1>2, <1>3, Inherited DEF Own
    <3>3. Append(got[c], Head(down[c]).data) \in Seq(Own(c)) \cap Seq(Payload)
      BY <3>1, <3>2 DEF PathInv, GotOK
    <3>4. QED
      BY <1>1, <2>2, <3>2, <3>3 DEF PathInv, GotOK
  <2>3. QED
    BY <2>1, <2>2
<1>6. UpOK' /\ ToOK' /\ FromOK' /\ KnownOK' /\ ClientOK'
  BY <1>1, <1>2, <1>3, Untouched
<1>7. QED
  BY <1>2, <1>3, <1>4, <1>5, <1>6 DEF PathInv

-----------------------------------------------------------------------------
(***************************************************************************)
(* The front end of the connector.  SetSession as one assignment.          *)
(***************************************************************************)
LEMMA SetSessionEffect ==
    ASSUME PathInv, NEW c \in Conns, UpSideMessage(c),
           NEW next \in {"INIT", "AUTH", "SYNACK", "OK"},
           SetSession(c, Head(up[c]), next)
    PROVE  \E s \in Sessions :
              /\ s = [state |-> next, sid |-> Session(c).sid, last_seq |-> Head(up[c]).seq]
              /\ session' = [session EXCEPT ![conn_fd[c]] = s]
<1>1. Serving(c) /\ up[c] # <<>> /\ conn_fd[c] \in Fds
  BY ServingFacts DEF PathInv, UpSideMessage
<1>2. session \in [Fds -> Sessions] /\ Session(c) \in Sessions
  BY <1>1 DEF PathInv, PoolOK, Session
<1>3. Head(up[c]).seq \in Nat
  BY <1>1, ClientFacts DEF UpMsgs, CSMsgs
<1>4. PICK s : s = [state |-> next, sid |-> Session(c).sid, last_seq |-> Head(up[c]).seq]
  OBVIOUS
<1>5. s \in Sessions
  BY <1>2, <1>3, <1>4 DEF Sessions
<1>6. session' = [session EXCEPT ![conn_fd[c]] = s]
  <2>1. PICK f \in Fds : f = conn_fd[c]
    BY <1>1
  <2>2. PICK n \in Nat : n = Head(up[c]).seq
    BY <1>3
  <2>3. session' = [session EXCEPT ![f].state = next, ![f].last_seq = n]
    BY <2>1, <2>2 DEF SetSession
  <2>4. s = [state |-> next, sid |-> session[f].sid, last_seq |-> n]
    BY <1>4, <2>1, <2>2 DEF Session
  <2>5. session' = [session EXCEPT ![f] = [session[f] EXCEPT !.state = next, !.last_seq = n]]
    BY <1>2, <2>1, <2>3
  <2>6. [session[f] EXCEPT !.state = next, !.last_seq = n] = s
    <3>1. PICK o \in Sessions : o = session[f]
      BY <1>2, <2>1
    <3>2. PICK t : t = [o EXCEPT !.state = next, !.last_seq = n]
      OBVIOUS
    <3>3. t \in Sessions /\ t.state = next /\ t.sid = o.sid /\ t.last_seq = n
      BY <3>2 DEF Sessions
    <3>4. t = s
      BY <2>4, <3>1, <3>3, <1>5 DEF Sessions
    <3>5. QED
      BY <3>1, <3>2, <3>4
  <2>7. QED
    BY <2>1, <2>5, <2>6
<1>7. QED
  BY <1>4, <1>5, <1>6

(***************************************************************************)
(* SetSession with a state that is not behind is such an advance.          *)
(***************************************************************************)
LEMMA SessionIsSet ==
    ASSUME PathInv, NEW c \in Conns, UpSideMessage(c),
           NEW next \in {"INIT", "AUTH", "SYNACK", "OK"},
           SetSession(c, Head(up[c]), next),
           Reached(c) <= RankOf(next),
           UNCHANGED <<pool, nid_seed, conn_fd, pushed, known>>
    PROVE  /\ PoolOK' /\ Later /\ SidOK' /\ Reached(c)' = RankOf(next)
           /\ \A d \in Conns : Begun(d)' <=> Begun(d)
<1>1. PICK s \in Sessions :
        /\ s = [state |-> next, sid |-> Session(c).sid, last_seq |-> Head(up[c]).seq]
        /\ session' = [session EXCEPT ![conn_fd[c]] = s]
  BY SetSessionEffect
<1>2. Serving(c) /\ conn_fd[c] \in Fds
  BY ServingFacts DEF PathInv, UpSideMessage
<1>3. ~Stateful => s.sid = NoSid
  BY <1>1, <1>2 DEF PathInv, SidOK, Session
<1>4. s.state = next
  BY <1>1
<1>5. QED
  BY <1>1, <1>2, <1>3, <1>4, SessionAdvances

(***************************************************************************)
(* A message is dropped, out of sequence or not DATA on a session that is  *)
(* ready.                                                                  *)
(***************************************************************************)
LEMMA UpSideRejectedStep ==
    ASSUME PathInv, NEW c \in Conns, UpSideRejected(c)
    PROVE  PathInv'
<1>1. /\ UpSideMessage(c) /\ up[c] # <<>> /\ Serving(c)
      /\ up' = [up EXCEPT ![c] = Tail(@)]
      /\ UNCHANGED <<pool, nid_seed, conn_fd, backend_pos, to_back, from_back, known,
                     client, seqno, pushed, got, down>>
  BY DEF UpSideRejected, UpSideMessage, poolVars, backVars, clientVars
<1>2. \/ UNCHANGED session
      \/ Session(c).state = "OK" /\ SetSession(c, Head(up[c]), "OK")
  BY DEF UpSideRejected
<1>3. CountOK'
  BY <1>1, CountsKept, ClientFacts
<1>4. PoolOK' /\ Later /\ SidOK'
  <2>1. CASE UNCHANGED session
    BY <1>1, <2>1, PoolKept, ClientFacts
  <2>2. CASE Session(c).state = "OK" /\ SetSession(c, Head(up[c]), "OK")
    <3>1. Reached(c) <= RankOf("OK")
      BY <1>1, <2>2 DEF Reached, RankOf
    <3>2. QED
      BY <1>1, <2>2, <3>1, SessionIsSet
  <2>3. QED
    BY <1>2, <2>1, <2>2
<1>5. UpOK'
  BY <1>1, <1>3, <1>4, UpTaken
<1>6. DownOK' /\ GotOK' /\ ToOK' /\ FromOK' /\ KnownOK' /\ ClientOK'
  BY <1>1, <1>3, <1>4, Untouched
<1>7. QED
  BY <1>3, <1>4, <1>5, <1>6 DEF PathInv

(***************************************************************************)
(* The connector answers a step of the handshake.                          *)
(***************************************************************************)
LEMMA UpSideAnsweredStep ==
    ASSUME PathInv, NEW c \in Conns,
           HandleKeyMaking(c) \/ ClientStartsApp(c)
    PROVE  PathInv'
<1>1. PICK here, id, next :
        /\ \/ here = "INIT" /\ id = "SYNACK" /\ next = "AUTH"
           \/ here = "SYNACK" /\ id = "START_APP" /\ next = "OK"
        /\ UpSideAnswered(c, here, id, next)
  BY DEF HandleKeyMaking, ClientStartsApp
<1>2. /\ UpSideMessage(c) /\ up[c] # <<>> /\ Serving(c) /\ Session(c).state = here
      /\ SendDown(c, id, NoData) /\ SetSession(c, Head(up[c]), next)
      /\ up' = [up EXCEPT ![c] = Tail(@)]
      /\ UNCHANGED <<pool, nid_seed, conn_fd, backend_pos, to_back, from_back, known,
                     client, seqno, pushed, got>>
  BY <1>1 DEF UpSideAnswered, UpSideMessage, poolVars, backVars, clientVars
<1>3. CountOK'
  BY <1>2, CountsKept, ClientFacts
<1>4. Reached(c) <= RankOf(next) /\ next \in {"INIT", "AUTH", "SYNACK", "OK"}
  BY <1>1, <1>2 DEF Reached, RankOf
<1>5. PoolOK' /\ Later /\ SidOK' /\ Reached(c)' = RankOf(next)
  BY <1>2, <1>4, SessionIsSet
<1>6. DownRank(id) <= Reached(c)' /\ id \in {"SYNACK", "PASSPORT", "START_APP"}
  BY <1>1, <1>5 DEF DownRank, RankOf
<1>7. DownOK'
  BY <1>2, <1>3, <1>5, <1>6, DownSent
<1>8. UpOK'
  BY <1>2, <1>3, <1>5, UpTaken
<1>9. GotOK' /\ ToOK' /\ FromOK' /\ KnownOK' /\ ClientOK'
  BY <1>2, <1>3, <1>5, Untouched
<1>10. QED
  BY <1>3, <1>5, <1>7, <1>8, <1>9 DEF PathInv

(***************************************************************************)
(* The back end whose turn it is.                                          *)
(***************************************************************************)
LEMMA PickBackEndFacts ==
    ASSUME PathInv
    PROVE  PickBackEnd \in BackEnds /\ PickBackEnd + 1 \in 0 .. NumBackEnds
BY ConnectorAssumption DEF PathInv, CountOK, PickBackEnd, BackEnds

(***************************************************************************)
(* AUTH: the session is started on a back end, or closed when that cannot  *)
(* be sent.                                                                *)
(***************************************************************************)
LEMMA HandleAuthRequestStep ==
    ASSUME PathInv, NEW c \in Conns, HandleAuthRequest(c)
    PROVE  PathInv'
<1>1. /\ UpSideMessage(c) /\ up[c] # <<>> /\ Serving(c) /\ Session(c).state = "AUTH"
      /\ backend_pos' = PickBackEnd + 1 /\ StartToBackEnd(PickBackEnd, c)
      /\ UNCHANGED <<nid_seed, conn_fd, from_back, known, client, seqno, pushed, got>>
  BY DEF HandleAuthRequest, UpSideMessage, HandShake_StartSession, DestroyFrontEnd,
         RemoveHandlerByEvent, poolVars, clientVars
<1>2. CountOK'
  BY <1>1, CountsKept, PickBackEndFacts
<1>3. CASE /\ CanSend(PickBackEnd)
           /\ SendDown(c, "PASSPORT", NoData)
           /\ SetSession(c, Head(up[c]), "SYNACK")
           /\ up' = [up EXCEPT ![c] = Tail(@)]
           /\ UNCHANGED <<poolVars, freed_access>>
  <2>1. UNCHANGED pool
    BY <1>3 DEF poolVars
  <2>2. Reached(c) <= RankOf("SYNACK")
    BY <1>1 DEF Reached, RankOf
  <2>3. PoolOK' /\ Later /\ SidOK' /\ Reached(c)' = RankOf("SYNACK")
    BY <1>1, <1>3, <2>1, <2>2, SessionIsSet
  <2>4. Reached(c)' = 2 /\ DownRank("PASSPORT") <= Reached(c)'
    BY <2>3 DEF RankOf, DownRank
  <2>5. DownOK'
    BY <1>2, <1>3, <2>3, <2>4, DownSent
  <2>6. UpOK'
    BY <1>1, <1>2, <1>3, <2>3, UpTaken
  <2>7. ToOK'
    <3>1. PICK b \in BackEnds : b = PickBackEnd
      BY PickBackEndFacts
    <3>2. PICK msg : msg = SSMsg("SYN", conn_fd[c], Nid(c), Session(c).sid, NoData)
      OBVIOUS
    <3>3. /\ conn_fd[c] \in Fds /\ Session(c).sid \in Nat /\ (~Stateful => Session(c).sid = NoSid)
          /\ Begun(c)' /\ conn_fd'[c] = conn_fd[c]
      BY <1>1, <2>3, ServingFacts DEF PathInv, PoolOK, Session, Sessions, SidOK, Later
    <3>4. msg \in SSMsgs
      BY <3>2, <3>3, ConnNumbers DEF SSMsg, SSMsgs
    <3>5. Names(msg, c)' /\ msg.id = "SYN" /\ msg.data = NoData /\ msg.sid = Session(c).sid
      BY <3>2, <3>3 DEF SSMsg, Names
    <3>6. msg \in ToMsgs'
      BY <2>4, <3>3, <3>4, <3>5 DEF ToMsgs
    <3>7. to_back' = to_back \/ to_back' = [to_back EXCEPT ![b] = Append(@, msg)]
      BY <1>1, <3>1, <3>2 DEF StartToBackEnd, SendToBackEnd
    <3>8. QED
      BY <1>2, <2>3, <3>6, <3>7, ToQueue
  <2>8. GotOK' /\ FromOK' /\ KnownOK' /\ ClientOK'
    BY <1>1, <1>2, <2>3, Untouched
  <2>9. QED
    BY <1>2, <2>3, <2>5, <2>6, <2>7, <2>8 DEF PathInv
<1>4. CASE ~CanSend(PickBackEnd) /\ DestroyFrontEnd(c)
  <2>1. pool' = [pool EXCEPT ![conn_fd[c]] = NoNet] /\ DeleteSession(c)
    BY <1>4 DEF DestroyFrontEnd, RemoveHandlerByEvent
  <2>2. PoolOK' /\ Later /\ SidOK' /\ UpOK' /\ DownOK'
    BY <1>1, <1>2, <2>1, SessionEnds
  <2>3. UNCHANGED to_back
    BY <1>1, <1>4 DEF StartToBackEnd, SendToBackEnd
  <2>4. GotOK' /\ ToOK' /\ FromOK' /\ KnownOK' /\ ClientOK'
    BY <1>1, <1>2, <2>2, <2>3, Untouched
  <2>5. QED
    BY <1>2, <2>2, <2>4 DEF PathInv
<1>5. QED
  BY <1>3, <1>4 DEF HandleAuthRequest

(***************************************************************************)
(* Data of a client goes to a back end with the ids of its connection.     *)
(***************************************************************************)
LEMMA ForwardUpSideMessageStep ==
    ASSUME PathInv, NEW c \in Conns, ForwardUpSideMessage(c)
    PROVE  PathInv'
<1>1. /\ UpSideMessage(c) /\ up[c] # <<>> /\ Serving(c)
      /\ Session(c).state = "OK" /\ Head(up[c]).id = "DATA"
      /\ SetSession(c, Head(up[c]), "OK")
      /\ backend_pos' = PickBackEnd + 1
      /\ SendToBackEnd(PickBackEnd,
                       SSMsg("DATA", conn_fd[c], Nid(c), Session(c).sid, Head(up[c]).data))
      /\ up' = [up EXCEPT ![c] = Tail(@)]
      /\ UNCHANGED <<pool, nid_seed, conn_fd, from_back, known, client, seqno, pushed, got,
                     down>>
  BY DEF ForwardUpSideMessage, UpSideMessage, SendDataToBackEnd, poolVars, clientVars
<1>2. CountOK'
  BY <1>1, CountsKept, PickBackEndFacts
<1>3. Reached(c) <= RankOf("OK")
  BY <1>1 DEF Reached, RankOf
<1>4. PoolOK' /\ Later /\ SidOK' /\ Reached(c)' = RankOf("OK")
  BY <1>1, <1>3, SessionIsSet
<1>5. UpOK'
  BY <1>1, <1>2, <1>4, UpTaken
<1>6. ToOK'
  <2>1. PICK b \in BackEnds : b = PickBackEnd
    BY PickBackEndFacts
  <2>2. PICK msg : msg = SSMsg("DATA", conn_fd[c], Nid(c), Session(c).sid, Head(up[c]).data)
    OBVIOUS
  <2>3. /\ conn_fd[c] \in Fds /\ Session(c).sid \in Nat /\ (~Stateful => Session(c).sid = NoSid)
        /\ Begun(c)' /\ conn_fd'[c] = conn_fd[c]
    BY <1>1, <1>4, ServingFacts DEF PathInv, PoolOK, Session, Sessions, SidOK, Later
  <2>4. Head(up[c]).data \in Own(c)
    BY <1>1, ClientFacts DEF UpMsgs
  <2>5. Own(c) \subseteq Own(c)' /\ Own(c)' \subseteq Payload
    BY <1>2, <1>4, Inherited
  <2>6. msg \in SSMsgs
    BY <2>2, <2>3, <2>4, <2>5, ConnNumbers DEF SSMsg, SSMsgs
  <2>7. /\ Names(msg, c)' /\ msg.id = "DATA" /\ msg.data \in Own(c)'
        /\ msg.sid = Session(c).sid
    BY <2>2, <2>3, <2>4, <2>5 DEF SSMsg, Names
  <2>8. Reached(c)' >= 3
    BY <1>4 DEF RankOf
  <2>9. msg \in ToMsgs'
    BY <2>3, <2>6, <2>7, <2>8 DEF ToMsgs
  <2>10. to_back' = to_back \/ to_back' = [to_back EXCEPT ![b] = Append(@, msg)]
    BY <1>1, <2>1, <2>2 DEF SendToBackEnd
  <2>11. QED
    BY <1>2, <1>4, <2>9, <2>10, ToQueue
<1>7. DownOK' /\ GotOK' /\ FromOK' /\ KnownOK' /\ ClientOK'
  BY <1>1, <1>2, <1>4, Untouched
<1>8. QED
  BY <1>2, <1>4, <1>5, <1>6, <1>7 DEF PathInv

(***************************************************************************)
(* A walk that closes a connection has the effect of a close on the pool.  *)
(***************************************************************************)
LEMMA CloseIdleEffect ==
    ASSUME PathInv, NEW c \in Conns, CloseIdle(c)
    PROVE  /\ Serving(c) /\ pool' = [pool EXCEPT ![conn_fd[c]] = NoNet]
           /\ DeleteSession(c) /\ UNCHANGED nid_seed
<1>1. Serving(c) /\ conn_fd[c] \in Visited
  BY DEF CloseIdle
<1>2. Visited \cap {conn_fd[c]} = {conn_fd[c]}
  BY <1>1
<1>3. pool' = [fd \in Fds |-> IF fd \in {conn_fd[c]} THEN NoNet ELSE pool[fd]]
  BY <1>2 DEF CloseIdle, WalkThrough
<1>4. QED
  BY <1>1, <1>3 DEF CloseIdle, WalkThrough, PathInv, PoolOK

(***************************************************************************)
(* A connection ends because its client has left or has been idle.         *)
(***************************************************************************)
LEMMA FrontEndClosesStep ==
    ASSUME PathInv, NEW c \in Conns, OnFrontEndClose(c) \/ CloseIdle(c)
    PROVE  PathInv'
<1>1. /\ Serving(c) /\ pool' = [pool EXCEPT ![conn_fd[c]] = NoNet]
      /\ DeleteSession(c) /\ UNCHANGED nid_seed
  BY CloseIdleEffect DEF OnFrontEndClose, DestroyFrontEnd, RemoveHandlerByEvent
<1>2. UNCHANGED <<conn_fd, backend_pos, to_back, from_back, known, client, seqno, pushed, got>>
  BY DEF OnFrontEndClose, CloseIdle, backVars, clientVars
<1>3. CountOK'
  BY <1>1, <1>2, CountsKept, ClientFacts
<1>4. PoolOK' /\ Later /\ SidOK' /\ UpOK' /\ DownOK'
  BY <1>1, <1>2, <1>3, SessionEnds
<1>5. GotOK' /\ ToOK' /\ FromOK' /\ KnownOK' /\ ClientOK'
  BY <1>1, <1>2, <1>3, <1>4, Untouched
<1>6. QED
  BY <1>3, <1>4, <1>5 DEF PathInv

-----------------------------------------------------------------------------
(***************************************************************************)
(* The back ends.  A message whose ids are found belongs to the connection *)
(* they lead to: net ids are used once, so a descriptor that was reused    *)
(* does not match.                                                         *)
(***************************************************************************)
LEMMA FromHead ==
    ASSUME PathInv, NEW b \in BackEnds, from_back[b] # <<>>,
           NEW msg, msg = Head(from_back[b])
    PROVE  /\ msg \in FromMsgs
           /\ Found(msg) => \E c \in Conns :
                /\ c = FrontNet(msg) /\ Serving(c) /\ conn_fd[c] = msg.fd /\ Nid(c) = msg.nid
                /\ Reached(c) = RankOf(session[msg.fd].state)
                /\ msg.id \in {"ACK", "FIN"} => Reached(c) >= 2
                /\ msg.id = "DATA" => msg.data \in Own(c) /\ Reached(c) >= 3
                /\ msg.id \in {"ACK", "FIN", "DATA"} /\ msg.sid = SidFor(msg.nid) /\ msg.sid \in Nat
<1>1. msg \in FromMsgs
  BY DEF PathInv, FromOK
<1>2. PICK c \in Conns :
        /\ Names(msg, c)
        /\ \/ msg.id \in {"ACK", "FIN"} /\ Reached(c) >= 2
           \/ msg.id = "DATA" /\ msg.data \in Own(c) /\ Reached(c) >= 3
        /\ msg.sid = SidFor(msg.nid)
  BY <1>1 DEF FromMsgs
<1>3. msg.sid \in Nat
  BY <1>1 DEF FromMsgs, SSMsgs
<1>4. ASSUME Found(msg)
      PROVE  c = FrontNet(msg) /\ Serving(c) /\ conn_fd[c] = msg.fd /\ Nid(c) = msg.nid
  BY <1>2, <1>4, ConnNumbers, ServingFacts
     DEF PathInv, Names, Found, GetHandlerByAsyncIds, FrontNet, Serving
<1>5. Found(msg) => Reached(c) = RankOf(session[msg.fd].state)
  BY <1>4 DEF Reached, Session
<1>6. QED
  BY <1>1, <1>2, <1>3, <1>4, <1>5

(***************************************************************************)
(* A message of a back end is used up without effect.                      *)
(***************************************************************************)
LEMMA DownSideIgnoredStep ==
    ASSUME PathInv, NEW b \in BackEnds, DownSideIgnored(b)
    PROVE  PathInv'
<1>1. /\ from_back[b] # <<>> /\ from_back' = [from_back EXCEPT ![b] = Tail(@)]
      /\ UNCHANGED <<pool, nid_seed, session, conn_fd, backend_pos, to_back, known,
                     client, seqno, pushed, got, up, down>>
  BY DEF DownSideIgnored, DownSideMessage, poolVars, clientVars
<1>2. CountOK'
  BY <1>1, CountsKept DEF PathInv, CountOK
<1>3. PoolOK' /\ Later /\ SidOK'
  BY <1>1, PoolKept DEF PathInv, CountOK
<1>4. FromOK'
  BY <1>1, <1>2, <1>3, FromQueue
<1>5. UpOK' /\ DownOK' /\ GotOK' /\ ToOK' /\ KnownOK' /\ ClientOK'
  BY <1>1, <1>2, <1>3, Untouched
<1>6. QED
  BY <1>2, <1>3, <1>4, <1>5 DEF PathInv

(***************************************************************************)
(* A back end has acknowledged the session: the client is told START_APP.  *)
(***************************************************************************)
LEMMA OnStartAckedStep ==
    ASSUME PathInv, NEW b \in BackEnds, HandShake_OnStartAcked(b)
    PROVE  PathInv'
<1>1. PICK msg : msg = Head(from_back[b])
  OBVIOUS
<1>2. /\ from_back[b] # <<>> /\ from_back' = [from_back EXCEPT ![b] = Tail(@)]
      /\ Found(msg) /\ session[msg.fd].state = "SYNACK"
      /\ SendDown(FrontNet(msg), "START_APP", NoData)
      /\ session' = [session EXCEPT ![msg.fd].state = "OK", ![msg.fd].sid = msg.sid]
      /\ UNCHANGED <<pool, nid_seed, conn_fd, backend_pos, to_back, known,
                     client, seqno, pushed, got, up>>
  BY <1>1 DEF HandShake_OnStartAcked, DownSideMessage, poolVars, clientVars
<1>3. PICK c \in Conns :
        /\ c = FrontNet(msg) /\ Serving(c) /\ conn_fd[c] = msg.fd /\ Nid(c) = msg.nid
        /\ Reached(c) = RankOf(session[msg.fd].state)
        /\ msg.sid = SidFor(msg.nid) /\ msg.sid \in Nat
  BY <1>1, <1>2, FromHead
<1>4. msg.fd \in Fds /\ session \in [Fds -> Sessions]
  BY <1>3, ServingFacts DEF PathInv, PoolOK
<1>5. PICK s : s = [state |-> "OK", sid |-> msg.sid, last_seq |-> session[msg.fd].last_seq]
  OBVIOUS
<1>6. s \in Sessions
  BY <1>3, <1>4, <1>5 DEF Sessions
<1>7. session' = [session EXCEPT ![conn_fd[c]] = s]
  <2>1. PICK f \in Fds : f = msg.fd
    BY <1>4
  <2>2. PICK o \in Sessions : o = session[f]
    BY <1>4
  <2>3. PICK t : t = [o EXCEPT !.state = "OK", !.sid = msg.sid]
    OBVIOUS
  <2>4. t \in Sessions /\ t.state = "OK" /\ t.sid = msg.sid /\ t.last_seq = o.last_seq
    BY <1>3, <2>3 DEF Sessions
  <2>5. t = s
    BY <1>5, <1>6, <2>1, <2>2, <2>4 DEF Sessions
  <2>6. session' = [session EXCEPT ![f] = [session[f] EXCEPT !.state = "OK", !.sid = msg.sid]]
    BY <1>2, <1>4, <2>1
  <2>7. QED
    BY <1>3, <2>1, <2>2, <2>3, <2>5, <2>6
<1>8. s.state = "OK" /\ s.sid = msg.sid /\ (~Stateful => s.sid = NoSid)
  BY <1>3, <1>5 DEF SidFor
<1>9. Reached(c) <= RankOf(s.state) /\ RankOf(s.state) = 3
  BY <1>2, <1>3, <1>8 DEF RankOf
<1>10. CountOK'
  BY <1>2, CountsKept DEF PathInv, CountOK
<1>11. PoolOK' /\ Later /\ SidOK' /\ Reached(c)' = 3
  BY <1>2, <1>3, <1>6, <1>7, <1>8, <1>9, SessionAdvances
<1>12. DownOK'
  <2>1. DownRank("START_APP") <= Reached(c)' /\ SendDown(c, "START_APP", NoData)
    BY <1>2, <1>3, <1>11 DEF DownRank
  <2>2. QED
    BY <1>10, <1>11, <2>1, DownSent
<1>13. FromOK'
  BY <1>2, <1>10, <1>11, FromQueue
<1>14. UpOK' /\ GotOK' /\ ToOK' /\ KnownOK' /\ ClientOK'
  BY <1>2, <1>10, <1>11, Untouched
<1>15. QED
  BY <1>10, <1>11, <1>12, <1>13, <1>14 DEF PathInv

(***************************************************************************)
(* A message of a back end closes the connection it finds.                 *)
(***************************************************************************)
LEMMA DownSideClosesStep ==
    ASSUME PathInv, NEW b \in BackEnds,
           HandShake_OnStopNotify(b) \/ DownSideRefused(b)
    PROVE  PathInv'
<1>1. PICK msg : msg = Head(from_back[b])
  OBVIOUS
<1>2. /\ from_back[b] # <<>> /\ from_back' = [from_back EXCEPT ![b] = Tail(@)]
      /\ Found(msg) /\ DestroyFrontEnd(FrontNet(msg))
      /\ UNCHANGED <<conn_fd, backend_pos, to_back, known, client, seqno, pushed, got>>
  BY <1>1 DEF HandShake_OnStopNotify, DownSideRefused, DownSideMessage, clientVars
<1>3. PICK c \in Conns : c = FrontNet(msg) /\ Serving(c)
  BY <1>1, <1>2, FromHead
<1>4. pool' = [pool EXCEPT ![conn_fd[c]] = NoNet] /\ DeleteSession(c) /\ UNCHANGED nid_seed
  BY <1>2, <1>3 DEF DestroyFrontEnd, RemoveHandlerByEvent
<1>5. CountOK'
  BY <1>2, <1>4, CountsKept DEF PathInv, CountOK
<1>6. PoolOK' /\ Later /\ SidOK' /\ UpOK' /\ DownOK'
  BY <1>2, <1>3, <1>4, <1>5, SessionEnds
<1>7. FromOK'
  BY <1>2, <1>5, <1>6, FromQueue
<1>8. GotOK' /\ ToOK' /\ KnownOK' /\ ClientOK'
  BY <1>2, <1>4, <1>5, <1>6, Untouched
<1>9. QED
  BY <1>5, <1>6, <1>7, <1>8 DEF PathInv

(***************************************************************************)
(* Data of a back end goes to the connection that its ids find, which is   *)
(* the one the data came from.                                             *)
(***************************************************************************)
LEMMA ForwardDownSideMessageStep ==
    ASSUME PathInv, NEW b \in BackEnds, ForwardDownSideMessage(b)
    PROVE  PathInv'
<1>1. PICK msg : msg = Head(from_back[b])
  OBVIOUS
<1>2. /\ from_back[b] # <<>> /\ from_back' = [from_back EXCEPT ![b] = Tail(@)]
      /\ Found(msg) /\ msg.id = "DATA"
      /\ SendDown(FrontNet(msg), "DATA", msg.data)
      /\ UNCHANGED <<pool, nid_seed, session, conn_fd, backend_pos, to_back, known,
                     client, seqno, pushed, got, up>>
  BY <1>1 DEF ForwardDownSideMessage, DownSideMessage, poolVars, clientVars
<1>3. PICK c \in Conns : /\ c = FrontNet(msg) /\ Serving(c)
                         /\ msg.data \in Own(c) /\ Reached(c) >= 3
  BY <1>1, <1>2, FromHead
<1>4. CountOK'
  BY <1>2, CountsKept DEF PathInv, CountOK
<1>5. PoolOK' /\ Later /\ SidOK' /\ Reached(c)' = Reached(c)
  BY <1>2, PoolKept DEF PathInv, CountOK
<1>6. DownOK'
  <2>1. Reached(c) \in 0 .. 3
    BY ClientFacts
  <2>2. DownRank("DATA") <= Reached(c)' /\ SendDown(c, "DATA", msg.data)
    BY <1>2, <1>3, <1>5, <2>1 DEF DownRank
  <2>3. msg.data \in Own(c)'
    BY <1>3, <1>4, <1>5, Inherited
  <2>4. QED
    BY <1>4, <1>5, <2>2, <2>3, DownSent
<1>7. FromOK'
  BY <1>2, <1>4, <1>5, FromQueue
<1>8. UpOK' /\ GotOK' /\ ToOK' /\ KnownOK' /\ ClientOK'
  BY <1>2, <1>4, <1>5, Untouched
<1>9. QED
  BY <1>4, <1>5, <1>6, <1>7, <1>8 DEF PathInv

(***************************************************************************)
(* Connections of the back ends come up and break; what was under way is   *)
(* lost.  CloseNone and stuttering belong here too.                        *)
(***************************************************************************)
LEMMA BackEndEventStep ==
    ASSUME PathInv, NEW b \in BackEnds,
           \/ OnBackEndConnected(b) \/ OnBackEndRefused(b) \/ OnBackEndLost(b) \/ Crash(b)
    PROVE  PathInv'
<1>1. /\ UNCHANGED <<pool, nid_seed, session, conn_fd, backend_pos, known,
                     client, seqno, pushed, got, up, down>>
      /\ from_back' = from_back \/ from_back' = [from_back EXCEPT ![b] = <<>>]
      /\ to_back' = to_back \/ to_back' = [to_back EXCEPT ![b] = <<>>]
  BY DEF OnBackEndConnected, OnBackEndRefused, OnBackEndLost, Crash, BackNetEvent,
         poolVars, sessionVars, clientVars, linkVars
<1>2. CountOK'
  BY <1>1, CountsKept DEF PathInv, CountOK
<1>3. PoolOK' /\ Later /\ SidOK'
  BY <1>1, PoolKept DEF PathInv, CountOK
<1>4. FromOK'
  BY <1>1, <1>2, <1>3, FromQueue, Untouched
<1>5. ToOK'
  BY <1>1, <1>2, <1>3, ToQueue
<1>6. UpOK' /\ DownOK' /\ GotOK' /\ KnownOK' /\ ClientOK'
  BY <1>1, <1>2, <1>3, Untouched
<1>7. QED
  BY <1>2, <1>3, <1>4, <1>5, <1>6 DEF PathInv

(***************************************************************************)
(* A walk that closes nothing leaves the pool alone.                       *)
(***************************************************************************)
LEMMA CloseNoneEffect ==
    ASSUME PathInv, CloseNone
    PROVE  UNCHANGED pool
<1>1. Visited \cap {} = {}
  OBVIOUS
<1>2. pool' = [fd \in Fds |-> IF fd \in {} THEN NoNet ELSE pool[fd]]
  BY <1>1 DEF CloseNone, WalkThrough
<1>3. QED
  BY <1>2 DEF PathInv, PoolOK

(***************************************************************************)
(* Such a walk, and a stuttering step.                                     *)
(***************************************************************************)
LEMMA QuietStep ==
    ASSUME PathInv, CloseNone \/ UNCHANGED vars
    PROVE  PathInv'
<1>1. UNCHANGED <<nid_seed, session, conn_fd, backend_pos, known, to_back, from_back,
                  client, seqno, pushed, got, up, down>>
  BY DEF CloseNone, WalkThrough, vars, poolVars, sessionVars, backVars, clientVars, linkVars
<1>2. UNCHANGED pool
  BY CloseNoneEffect DEF vars, poolVars
<1>3. CountOK'
  BY <1>1, CountsKept DEF PathInv, CountOK
<1>4. PoolOK' /\ Later /\ SidOK'
  BY <1>1, <1>2, PoolKept DEF PathInv, CountOK
<1>5. UpOK' /\ DownOK' /\ GotOK' /\ ToOK' /\ FromOK' /\ KnownOK' /\ ClientOK'
  BY <1>1, <1>3, <1>4, Untouched
<1>6. QED
  BY <1>3, <1>4, <1>5 DEF PathInv

(***************************************************************************)
(* A back end handles a message, and its answer a is one that may be under *)
(* way.  The session it starts has been announced by the connector, and    *)
(* the data belongs to the connection it was sent for.                     *)
(***************************************************************************)
LEMMA HandledStep ==
    ASSUME PathInv, NEW b \in BackEnds, NEW msg, NEW a, msg = Head(to_back[b]),
           to_back[b] # <<>>, to_back' = [to_back EXCEPT ![b] = Tail(@)],
           from_back' = [from_back EXCEPT ![b] = Append(@, a)],
           Knows(b, msg),
           UNCHANGED <<pool, nid_seed, session, conn_fd, backend_pos,
                       client, seqno, pushed, got, up, down>>,
           \/ msg.id = "SYN" /\ a = HandshakeToConn(msg)
           \/ msg.id # "SYN" /\ a = SendDataToConn(msg)
           \/ a = Fin(msg)
    PROVE  PathInv'
<1>2. PICK k : k = [back |-> b, fd |-> msg.fd, nid |-> msg.nid, on |-> msg.id]
  OBVIOUS
<1>3. msg \in ToMsgs /\ msg \in SSMsgs
  <2>1. msg \in ToMsgs
    BY DEF PathInv, ToOK
  <2>2. QED
    BY <2>1 DEF ToMsgs
<1>4. CountOK'
  BY CountsKept DEF PathInv, CountOK
<1>5. known' = known \cup {k}
  BY <1>2 DEF Knows
<1>6. PoolOK' /\ Later /\ SidOK' /\ \A d \in Conns : Reached(d)' = Reached(d)
  BY <1>5, PoolKept DEF PathInv, CountOK
<1>7. PICK c \in Conns :
        /\ Names(msg, c)
        /\ \/ msg.id = "SYN" /\ msg.data = NoData /\ Reached(c) >= 2
           \/ msg.id = "DATA" /\ msg.data \in Own(c) /\ Reached(c) >= 3
        /\ ~Stateful => msg.sid = NoSid
  BY <1>3 DEF ToMsgs
<1>8. Reached(c)' = Reached(c) /\ Own(c) \subseteq Own(c)'
  BY <1>4, <1>6, Inherited
<1>9. Begun(c)' /\ conn_fd'[c] = conn_fd[c] /\ msg.nid = Nid(c) /\ msg.fd = conn_fd[c]
  BY <1>6, <1>7 DEF Names, Later
<1>10. ToOK'
  BY <1>4, <1>6, ToQueue
<1>11. KnownOK'
  <2>1. k \in [back : BackEnds, fd : Fds, nid : Nat, on : {"SYN", "DATA"}] /\ Names(k, c)'
    BY <1>2, <1>3, <1>7, <1>9 DEF SSMsgs, Names
  <2>2. KnownAs(k, c)'
    BY <1>2, <1>7, <1>8, <2>1 DEF KnownAs
  <2>3. \A j \in known : \E d \in Conns : KnownAs(j, d)'
    <3> SUFFICES ASSUME NEW j \in known PROVE \E d \in Conns : KnownAs(j, d)'
      OBVIOUS
    <3>1. PICK d \in Conns : KnownAs(j, d)
      BY DEF PathInv, KnownOK
    <3>2. Names(j, d)' /\ Reached(d)' = Reached(d)
      BY <1>6, <3>1 DEF KnownAs, Names, Later
    <3>3. QED
      BY <3>1, <3>2 DEF KnownAs
  <2>4. QED
    BY <1>5, <2>1, <2>2, <2>3 DEF PathInv, KnownOK
<1>12. a \in FromMsgs'
  <2>1. msg.id = "SYN" => StartHandled(msg)'
    BY <1>2, <1>5 DEF StartHandled
  <2>2. CASE msg.id = "SYN" /\ a = HandshakeToConn(msg)
    <3>1. /\ a.id = "ACK" /\ a.fd = msg.fd /\ a.nid = msg.nid /\ a.sid = SidFor(a.nid)
          /\ a.data = NoData
      BY <2>2 DEF HandshakeToConn, SSMsg
    <3>2. a \in SSMsgs
      BY <1>3, <2>2 DEF HandshakeToConn, SSMsg, SSMsgs, SidFor, NoSid
    <3>3. Names(a, c)' /\ StartHandled(a)'
      BY <1>9, <2>1, <2>2, <3>1 DEF Names, StartHandled
    <3>4. QED
      BY <1>7, <1>8, <2>2, <3>1, <3>2, <3>3 DEF FromMsgs
  <2>3. CASE msg.id # "SYN" /\ a = SendDataToConn(msg)
    <3>1. /\ a.id = "DATA" /\ a.fd = msg.fd /\ a.nid = msg.nid /\ a.data = msg.data
          /\ a.sid = SidFor(a.nid)
      BY <1>7, <2>3 DEF SendDataToConn, SSMsg, SidFor
    <3>2. a \in SSMsgs
      BY <1>3, <2>3 DEF SendDataToConn, SSMsg, SSMsgs, SidFor, NoSid
    <3>3. Names(a, c)'
      BY <1>9, <3>1 DEF Names
    <3>4. QED
      BY <1>7, <1>8, <2>3, <3>1, <3>2, <3>3 DEF FromMsgs
  <2>4. CASE a = Fin(msg)
    <3>1. /\ a.id = "FIN" /\ a.fd = msg.fd /\ a.nid = msg.nid /\ a.sid = SidFor(a.nid)
          /\ a.data = NoData
      BY <2>4 DEF Fin, SSMsg
    <3>2. a \in SSMsgs
      BY <1>3, <2>4 DEF Fin, SSMsg, SSMsgs, SidFor, NoSid
    <3>3. Names(a, c)' /\ (msg.id = "SYN" => StartHandled(a)')
      BY <1>9, <2>1, <3>1 DEF Names, StartHandled
    <3>4. Reached(c)' >= 2 /\ (msg.id = "DATA" => Reached(c)' >= 3)
      <4>1. Reached(c) \in 0 .. 3
        BY DEF Reached, RankOf
      <4>2. QED
        BY <1>7, <1>8, <4>1
    <3>5. QED
      BY <1>7, <3>1, <3>2, <3>3, <3>4 DEF FromMsgs
  <2>5. QED
    BY <2>2, <2>3, <2>4
<1>13. FromOK'
  BY <1>4, <1>6, <1>12, FromQueue
<1>14. UpOK' /\ DownOK' /\ GotOK' /\ ClientOK'
  BY <1>4, <1>6, Untouched
<1>15. QED
  BY <1>4, <1>6, <1>10, <1>11, <1>13, <1>14 DEF PathInv

(***************************************************************************)
(* A back end answers, or stops the connection instead.                    *)
(***************************************************************************)
LEMMA DispatchStep ==
    ASSUME PathInv, NEW b \in BackEnds, Dispatch(b) \/ DispatchStops(b)
    PROVE  PathInv'
<1>1. PICK msg : msg = Head(to_back[b])
  OBVIOUS
<1>2. /\ to_back[b] # <<>> /\ to_back' = [to_back EXCEPT ![b] = Tail(@)]
      /\ Knows(b, msg)
      /\ UNCHANGED <<pool, nid_seed, session, conn_fd, backend_pos,
                     client, seqno, pushed, got, up, down>>
  BY <1>1 DEF Dispatch, DispatchStops, poolVars, sessionVars, clientVars, linkVars
<1>3. PICK a : /\ from_back' = [from_back EXCEPT ![b] = Append(@, a)]
               /\ \/ msg.id = "SYN" /\ a = HandshakeToConn(msg)
                  \/ msg.id # "SYN" /\ a = SendDataToConn(msg)
                  \/ a = Fin(msg)
  BY <1>1 DEF Dispatch, DispatchStops
<1>4. QED
  BY <1>1, <1>2, <1>3, HandledStep

(***************************************************************************)
(* A back end stops a session and tells the connector by FIN.              *)
(***************************************************************************)
LEMMA StopConnStep ==
    ASSUME PathInv, NEW b \in BackEnds, NEW k \in known, StopConn(b, k)
    PROVE  PathInv'
<1>1. PICK a : a = Fin(k)
  OBVIOUS
<1>2. /\ from_back' = [from_back EXCEPT ![b] = Append(@, a)]
      /\ UNCHANGED <<pool, nid_seed, session, conn_fd, backend_pos, known, to_back,
                     client, seqno, pushed, got, up, down>>
  BY <1>1 DEF StopConn, poolVars, sessionVars, clientVars, linkVars
<1>3. CountOK'
  BY <1>2, CountsKept DEF PathInv, CountOK
<1>4. PoolOK' /\ Later /\ SidOK' /\ \A d \in Conns : Reached(d)' = Reached(d)
  BY <1>2, PoolKept DEF PathInv, CountOK
<1>5. PICK c \in Conns : KnownAs(k, c)
  BY DEF PathInv, KnownOK
<1>6. /\ a.id = "FIN" /\ a.fd = k.fd /\ a.nid = k.nid /\ a.sid = SidFor(a.nid)
      /\ a.data = NoData
  BY <1>1 DEF Fin, SSMsg
<1>7. k.fd \in Fds /\ k.nid \in Nat /\ k.on \in {"SYN", "DATA"}
  BY DEF PathInv, KnownOK
<1>8. a \in SSMsgs
  BY <1>1, <1>7 DEF Fin, SSMsg, SSMsgs, SidFor, NoSid
<1>9. Names(a, c)' /\ Reached(c)' = Reached(c)
  BY <1>4, <1>5, <1>6 DEF KnownAs, Names, Later
<1>10. Reached(c)' >= 2 /\ (k.on # "SYN" => Reached(c)' >= 3)
  <2>1. Reached(c) \in 0 .. 3
    BY DEF Reached, RankOf
  <2>2. QED
    BY <1>5, <1>9, <2>1 DEF KnownAs
<1>11. k.on = "SYN" => StartHandled(a)'
  BY <1>2, <1>6 DEF StartHandled
<1>12. a \in FromMsgs'
  BY <1>6, <1>8, <1>9, <1>10, <1>11 DEF FromMsgs
<1>13. FromOK'
  BY <1>2, <1>3, <1>4, <1>12, FromQueue
<1>14. UpOK' /\ DownOK' /\ GotOK' /\ ToOK' /\ KnownOK' /\ ClientOK'
  BY <1>2, <1>3, <1>4, Untouched
<1>15. QED
  BY <1>3, <1>4, <1>13, <1>14 DEF PathInv

-----------------------------------------------------------------------------
(***************************************************************************)
(* PathInv holds when the connector has come up.                           *)
(***************************************************************************)
LEMMA PathInit == Init => PathInv
<1> SUFFICES ASSUME Init PROVE PathInv
  OBVIOUS
<1>1. /\ pool = [fd \in Fds |-> NoNet] /\ nid_seed = NumBackEnds + 1
      /\ session = [fd \in Fds |-> NewSession] /\ backend_pos = 0
      /\ to_back = [b \in BackEnds |-> <<>>] /\ from_back = [b \in BackEnds |-> <<>>]
      /\ known = {}
      /\ conn_fd = [c \in Conns |-> EndFd]
      /\ up = [c \in Conns |-> <<>>] /\ down = [c \in Conns |-> <<>>]
      /\ client = [c \in Conns |-> "NONE"] /\ seqno = [c \in Conns |-> 0]
      /\ pushed = [c \in Conns |-> 0] /\ got = [c \in Conns |-> <<>>]
  BY DEF Init, PoolInit, Connect
<1>2. NewSession \in Sessions /\ NewSession.sid = NoSid
  BY DEF NewSession, Sessions, NoSid
<1>3. \A c \in Conns : ~Begun(c) /\ ~Serving(c)
  BY <1>1, ConnectorAssumption DEF Begun, Nid, Conns, Serving
<1>4. PoolOK
  BY <1>1, <1>2, <1>3, ConnectorAssumption DEF PoolOK, NoNet
<1>5. UpOK /\ DownOK /\ GotOK /\ ToOK /\ FromOK
  BY <1>1 DEF UpOK, DownOK, GotOK, ToOK, FromOK
<1>6. KnownOK /\ CountOK /\ SidOK
  BY <1>1, <1>2, ConnectorAssumption DEF KnownOK, CountOK, SidOK
<1>7. ClientOK
  BY <1>1, <1>3 DEF ClientOK, ClientRank, Reached
<1>8. QED
  BY <1>4, <1>5, <1>6, <1>7 DEF PathInv

(***************************************************************************)
(* Every step preserves PathInv.                                           *)
(***************************************************************************)
LEMMA PathStep == PathInv /\ [Next]_vars => PathInv'
<1> SUFFICES ASSUME PathInv, [Next]_vars PROVE PathInv'
  OBVIOUS
<1>1. ASSUME NEW fd \in Fds, ClientConnect(fd) PROVE PathInv'
  BY <1>1, ClientConnectStep
<1>2. ASSUME NEW c \in Conns, ClientStep(c) PROVE PathInv'
  BY <1>2, HandShakeSynStep, TryAckStep, TryReadyStep, TryDoneStep, PopMessageStep,
     ClientLeavesStep DEF ClientStep
<1>3. ASSUME NEW c \in Conns, PushMessage(c) \/ PushMessageFailed(c) \/ Terminate(c)
      PROVE  PathInv'
  BY <1>3, PushMessageStep, PushMessageFailedStep, ClientLeavesStep
<1>4. ASSUME NEW c \in Conns, FrontStep(c) \/ CloseIdle(c) PROVE PathInv'
  BY <1>4, UpSideRejectedStep, UpSideAnsweredStep, HandleAuthRequestStep,
     ForwardUpSideMessageStep, FrontEndClosesStep DEF FrontStep
<1>5. ASSUME NEW b \in BackEnds, BackStep(b) \/ OnBackEndRefused(b) \/ Crash(b) PROVE PathInv'
  BY <1>5, DownSideIgnoredStep, OnStartAckedStep, DownSideClosesStep,
     ForwardDownSideMessageStep, BackEndEventStep DEF BackStep
<1>6. ASSUME NEW b \in BackEnds, Dispatch(b) \/ DispatchStops(b) PROVE PathInv'
  BY <1>6, DispatchStep
<1>7. ASSUME NEW b \in BackEnds, NEW k \in known, StopConn(b, k) PROVE PathInv'
  BY <1>7, StopConnStep
<1>8. CASE CloseNone \/ UNCHANGED vars
  BY <1>8, QuietStep
<1>9. QED
  BY <1>1, <1>2, <1>3, <1>4, <1>5, <1>6, <1>7, <1>8 DEF Next

(***************************************************************************)
(* The invariant of the path from client to back end and back.             *)
(***************************************************************************)
LEMMA PathInvariant == Spec => []PathInv
BY PathInit, PathStep, PTL DEF Spec

(***************************************************************************)
(* No client is handed data of another connection, however descriptors are *)
(* reused while answers are under way.                                     *)
(***************************************************************************)
THEOREM AnswersReachTheirClient == Spec => []NoCrossTalk
<1>1. PathInv => NoCrossTalk
  <2> SUFFICES ASSUME PathInv, NEW c \in Conns
               PROVE  /\ \A i \in 1 .. Len(down[c]) : down[c][i].id = "DATA" => down[c][i].data.conn = c
                      /\ \A i \in 1 .. Len(got[c]) : got[c][i].conn = c
    BY DEF NoCrossTalk
  <2>1. \A i \in 1 .. Len(down[c]) : down[c][i] \in DownMsgs(c)
    BY ElementOfSeq DEF PathInv, DownOK
  <2>2. \A i \in 1 .. Len(got[c]) : got[c][i] \in Own(c)
    BY ElementOfSeq DEF PathInv, GotOK
  <2>3. \A p \in Own(c) : p.conn = c
    BY DEF Own
  <2>4. QED
    BY <2>1, <2>2, <2>3 DEF DownMsgs, UpMsgs
<1>2. QED
  BY PathInvariant, <1>1, PTL

(***************************************************************************)
(* A message of a back end that finds its connection finds a session that  *)
(* has been started (OnRecvBackEnd -> DriveStateMachine).                  *)
(***************************************************************************)
THEOREM BackEndsFindStartedSessions == Spec => []BackEndFindsStarted
<1>1. PathInv => BackEndFindsStarted
  <2> SUFFICES ASSUME PathInv, NEW b \in BackEnds, NEW i \in 1 .. Len(from_back[b]),
                      Found(from_back[b][i])
               PROVE  session[from_back[b][i].fd].state \in {"SYNACK", "OK"}
    BY DEF BackEndFindsStarted
  <2>1. PICK msg : msg = from_back[b][i]
    OBVIOUS
  <2>2. msg \in FromMsgs
    BY <2>1, ElementOfSeq DEF PathInv, FromOK
  <2>3. PICK c \in Conns : Names(msg, c) /\ Reached(c) >= 2
    BY <2>2, ServingFacts DEF FromMsgs, PathInv
  <2>4. Serving(c) /\ msg.fd = conn_fd[c] /\ conn_fd[c] \in Fds
    BY <2>1, <2>3, ServingFacts, ConnNumbers
       DEF PathInv, Names, Found, GetHandlerByAsyncIds, Serving
  <2>5. session[msg.fd] \in Sessions /\ RankOf(session[msg.fd].state) >= 2
    BY <2>3, <2>4 DEF PathInv, PoolOK, Reached, Session
  <2>6. QED
    BY <2>1, <2>5 DEF Sessions, RankOf
<1>2. QED
  BY PathInvariant, <1>1, PTL

(***************************************************************************)
(* The client's view of the handshake never runs ahead of the connector's. *)
(***************************************************************************)
THEOREM ClientsFollowTheConnector == Spec => []ClientNotAhead
<1>1. PathInv => ClientNotAhead
  <2> SUFFICES ASSUME PathInv, NEW c \in Conns, Serving(c)
               PROVE  /\ client[c] = "AUTHING" => Session(c).state \in {"AUTH", "SYNACK", "OK"}
                      /\ client[c] = "READY" => Session(c).state \in {"SYNACK", "OK"}
                      /\ client[c] = "DONE" => Session(c).state = "OK"
    BY DEF ClientNotAhead
  <2>1. ClientRank(client[c]) <= RankOf(Session(c).state)
    BY DEF PathInv, ClientOK, Reached
  <2>2. Session(c).state \in {"INIT", "AUTH", "SYNACK", "OK"}
    BY ServingFacts DEF PathInv, PoolOK, Session, Sessions
  <2>3. QED
    BY <2>1, <2>2 DEF ClientRank, RankOf
<1>2. QED
  BY PathInvariant, <1>1, PTL

(***************************************************************************)
(* The part of the state that no message depends on: the cursor of the     *)
(* walk, which points at an entry of the pool or at its end, and the       *)
(* connections to the back ends.                                           *)
(***************************************************************************)
RestOK ==
    /\ it_cursor \in InPool \cup {EndFd}
    /\ back_net \in [BackEnds -> {"CONNECTING", "ESTABLISHED", "FAILED", "BEEN_CLOSED"}]
    /\ back_up \in [BackEnds -> BOOLEAN]
    /\ freed_access \subseteq {"OnRecvFrontEnd", "OnRecvBackEnd"}

(***************************************************************************)
(* begin() and the successor of an entry.                                  *)
(***************************************************************************)
LEMMA FirstOfPool ==
    ASSUME NEW S \in SUBSET Fds
    PROVE  First(S) \in S \cup {EndFd}
<1>1. CASE S = {}
  BY <1>1 DEF First
<1>2. CASE S # {}
  <2>1. \E fd \in S : \A g \in S : fd <= g
    BY <1>2, LeastFdAssumption
  <2>2. QED
    BY <1>2, <2>1 DEF First
<1>3. QED
  BY <1>1, <1>2

(***************************************************************************)
(* RemoveHandlerByEvent leaves the cursor on an entry that is still there. *)
(***************************************************************************)
LEMMA RemoveKeepsCursor ==
    ASSUME pool \in [Fds -> Nat], it_cursor \in InPool \cup {EndFd},
           NEW fd \in Fds, RemoveHandlerByEvent(fd)
    PROVE  it_cursor' \in InPool' \cup {EndFd}
<1> DEFINE later == {g \in InPool : g > fd}
<1>1. After(InPool, fd) \in later \cup {EndFd}
  BY FirstOfPool DEF After, InPool
<1>2. InPool' = InPool \ {fd}
  BY DEF RemoveHandlerByEvent, InPool, NoNet
<1>3. fd \notin later
  BY FdsAssumption
<1>4. QED
  BY <1>1, <1>2, <1>3 DEF RemoveHandlerByEvent

(***************************************************************************)
(* So does a walk, whatever it deletes.                                    *)
(***************************************************************************)
LEMMA WalkKeepsCursor ==
    ASSUME pool \in [Fds -> Nat], NEW closing \in SUBSET Fds, WalkThrough(closing)
    PROVE  it_cursor' \in InPool' \cup {EndFd}
<1> DEFINE gone == Visited \cap closing
           rest == {fd \in InPool : fd >= it_cursor} \ Visited
<1>1. First(InPool \ gone) \in (InPool \ gone) \cup {EndFd}
  BY FirstOfPool DEF InPool
<1>2. First(rest) \in rest \cup {EndFd}
  BY FirstOfPool DEF InPool
<1>3. InPool' = InPool \ gone
  BY DEF WalkThrough, InPool, NoNet
<1>4. it_cursor' = IF rest = {} THEN First(InPool \ gone) ELSE First(rest)
  BY DEF WalkThrough
<1>5. QED
  BY <1>1, <1>2, <1>3, <1>4

(***************************************************************************)
(* Every step keeps the rest of the state.                                 *)
(***************************************************************************)
LEMMA RestStep ==
    ASSUME PathInv, RestOK, [Next]_vars
    PROVE  RestOK'
<1> USE DEF RestOK
<1>1. pool \in [Fds -> Nat] /\ nid_seed \in Nat
  BY DEF PathInv, PoolOK
<1>2. \A c \in Conns : Serving(c) => conn_fd[c] \in Fds
  BY ServingFacts DEF PathInv
<1>3. UNCHANGED poolVars => it_cursor' \in InPool' \cup {EndFd}
  BY DEF poolVars, InPool
<1>4. \A b \in BackEnds : from_back[b] # <<>> => Head(from_back[b]) \in FromMsgs
  BY DEF PathInv, FromOK
<1>5. ASSUME NEW fd \in Fds, ClientConnect(fd) PROVE RestOK'
  <2>1. pool' = [pool EXCEPT ![fd] = nid_seed] /\ it_cursor' = it_cursor
    BY <1>5 DEF ClientConnect, OnFrontEndConnect, AddHandlerBySocket
  <2>2. nid_seed # NoNet
    BY ConnectorAssumption DEF PathInv, PoolOK, NoNet
  <2>3. InPool \subseteq InPool'
    BY <1>1, <2>1, <2>2 DEF InPool
  <2>4. QED
    BY <1>5, <2>1, <2>3 DEF ClientConnect, backVars
<1>6. ASSUME NEW c \in Conns,
             ClientStep(c) \/ PushMessage(c) \/ PushMessageFailed(c) \/ Terminate(c)
      PROVE  RestOK'
  <2>1. UNCHANGED <<poolVars, freed_access, backVars>>
    BY <1>6 DEF ClientStep, HandShake_SYN, TryAck, TryReady, TryDone, TryNext, PopMessage,
                OnServerClose, PushMessage, PushMessageFailed, Terminate, sessionVars
  <2>2. QED
    BY <1>3, <2>1 DEF backVars
<1>7. ASSUME NEW c \in Conns, FrontStep(c) PROVE RestOK'
  <2>1. CASE UpSideRejected(c) \/ HandleKeyMaking(c) \/ ClientStartsApp(c)
             \/ ForwardUpSideMessage(c)
    <3>1. UNCHANGED <<poolVars, freed_access, back_net, back_up>>
      BY <2>1 DEF UpSideRejected, HandleKeyMaking, ClientStartsApp, UpSideAnswered,
                  ForwardUpSideMessage, backVars
    <3>2. QED
      BY <1>3, <3>1
  <2>2. CASE OnFrontEndClose(c)
    <3>1. RemoveHandlerByEvent(conn_fd[c]) /\ conn_fd[c] \in Fds
      BY <1>2, <2>2 DEF OnFrontEndClose, DestroyFrontEnd
    <3>2. QED
      BY <1>1, <2>2, <3>1, RemoveKeepsCursor DEF OnFrontEndClose, backVars
  <2>3. CASE HandleAuthRequest(c)
    <3>1. UNCHANGED <<back_net, back_up>> /\ conn_fd[c] \in Fds
      BY <1>2, <2>3 DEF HandleAuthRequest, UpSideMessage
    <3>2. \/ UNCHANGED <<poolVars, freed_access>>
          \/ RemoveHandlerByEvent(conn_fd[c]) /\ freed_access' = freed_access \cup {"OnRecvFrontEnd"}
      BY <2>3 DEF HandleAuthRequest, DestroyFrontEnd
    <3>3. QED
      BY <1>1, <1>3, <3>1, <3>2, RemoveKeepsCursor
  <2>4. QED
    BY <1>7, <2>1, <2>2, <2>3 DEF FrontStep
<1>8. ASSUME NEW c \in Conns, CloseIdle(c) PROVE RestOK'
  <2>1. WalkThrough({conn_fd[c]}) /\ {conn_fd[c]} \in SUBSET Fds
    BY <1>2, <1>8 DEF CloseIdle
  <2>2. QED
    BY <1>1, <1>8, <2>1, WalkKeepsCursor DEF CloseIdle, backVars
<1>9. CASE CloseNone
  <2>1. WalkThrough({}) /\ {} \in SUBSET Fds
    BY <1>9 DEF CloseNone
  <2>2. QED
    BY <1>1, <1>9, <2>1, WalkKeepsCursor DEF CloseNone, backVars, sessionVars
<1>10. ASSUME NEW b \in BackEnds, BackStep(b) PROVE RestOK'
  <2>1. CASE DownSideIgnored(b) \/ HandShake_OnStartAcked(b) \/ ForwardDownSideMessage(b)
    <3>1. UNCHANGED <<poolVars, freed_access, back_net, back_up>>
      BY <2>1 DEF DownSideIgnored, HandShake_OnStartAcked, ForwardDownSideMessage,
                  DownSideMessage
    <3>2. QED
      BY <1>3, <3>1
  <2>2. CASE HandShake_OnStopNotify(b) \/ DownSideRefused(b)
    <3>1. PICK msg : msg = Head(from_back[b])
      OBVIOUS
    <3>2. /\ UNCHANGED <<back_net, back_up>>
          /\ from_back[b] # <<>> /\ Found(msg)
          /\ RemoveHandlerByEvent(conn_fd[FrontNet(msg)])
          /\ \/ freed_access' = freed_access \cup {"OnRecvBackEnd"}
             \/ UNCHANGED freed_access
      BY <2>2, <3>1 DEF HandShake_OnStopNotify, DownSideRefused, DownSideMessage,
                        DestroyFrontEnd
    <3>3. msg.fd \in Fds
      BY <1>4, <3>1, <3>2 DEF FromMsgs, SSMsgs
    <3>4. conn_fd[FrontNet(msg)] = msg.fd
      BY <3>2, <3>3, ServingFacts DEF PathInv, Found, GetHandlerByAsyncIds, FrontNet
    <3>5. QED
      BY <1>1, <3>2, <3>3, <3>4, RemoveKeepsCursor
  <2>3. CASE OnBackEndConnected(b) \/ OnBackEndLost(b)
    <3>1. /\ UNCHANGED <<poolVars, freed_access, back_up>>
          /\ \E state \in {"ESTABLISHED", "FAILED", "BEEN_CLOSED"} :
               back_net' = [back_net EXCEPT ![b] = state]
      BY <2>3 DEF OnBackEndConnected, OnBackEndLost, BackNetEvent, sessionVars
    <3>2. QED
      BY <1>3, <3>1
  <2>4. QED
    BY <1>10, <2>1, <2>2, <2>3 DEF BackStep
<1>11. ASSUME NEW b \in BackEnds, OnBackEndRefused(b) \/ Crash(b) PROVE RestOK'
  <2>1. /\ UNCHANGED <<poolVars, freed_access>>
        /\ back_up' = [back_up EXCEPT ![b] = FALSE]
        /\ \/ UNCHANGED back_net
           \/ \E state \in {"FAILED", "ESTABLISHED"} :
                back_net' = [back_net EXCEPT ![b] = state]
    BY <1>11 DEF OnBackEndRefused, Crash, BackNetEvent, sessionVars
  <2>2. QED
    BY <1>3, <2>1
<1>12. ASSUME NEW b \in BackEnds, \/ Dispatch(b) \/ DispatchStops(b)
                              \/ (\E k \in known : StopConn(b, k))
       PROVE  RestOK'
  <2>1. UNCHANGED <<poolVars, freed_access, back_net, back_up>>
    BY <1>12 DEF Dispatch, DispatchStops, StopConn, sessionVars
  <2>2. QED
    BY <1>3, <2>1
<1>13. CASE UNCHANGED vars
  BY <1>3, <1>13 DEF vars, sessionVars, backVars
<1>14. QED
  BY <1>5, <1>6, <1>7, <1>8, <1>9, <1>10, <1>11, <1>12, <1>13 DEF Next

(***************************************************************************)
(* Every variable of the connector, its clients and its back ends keeps    *)
(* its type.  The sets the queues are typed with are part of the argument  *)
(* about the path of a message; the cursor needs that the pool is walked   *)
(* and erased as NetHandlerMgr does.                                       *)
(***************************************************************************)
THEOREM ConnectorTypes == Spec => []TypeOK
<1>1. Init => RestOK
  <2> SUFFICES ASSUME Init PROVE RestOK
    OBVIOUS
  <2>1. it_cursor = EndFd /\ freed_access = {}
    BY DEF Init, PoolInit
  <2>2. back_net = [b \in BackEnds |-> "CONNECTING"] /\ back_up = [b \in BackEnds |-> TRUE]
    BY DEF Init, Connect
  <2>3. QED
    BY <2>1, <2>2 DEF RestOK
<1>2. PathInv => PathTypeOK
  <2>1. Seq(ToMsgs) \subseteq Seq(SSMsgs) /\ Seq(FromMsgs) \subseteq Seq(SSMsgs)
    BY SeqGrows DEF ToMsgs, FromMsgs
  <2>2. QED
    BY <2>1 DEF PathInv, PathTypeOK, PoolOK, UpOK, DownOK, GotOK, ToOK, FromOK, KnownOK,
                CountOK, ClientOK
<1>3. PathInv /\ RestOK => TypeOK
  BY <1>2 DEF TypeOK, RestOK, InPool
<1>4. QED
  BY PathInit, PathStep, RestStep, <1>1, <1>3, PTL DEF Spec

=============================================================================
