--------------------------- MODULE FrontEndProofs ---------------------------
(***************************************************************************)
(* Proofs about the connection pool and its asynchronous lookup, for any   *)
(* set of descriptors, any limits and any length of walk.                  *)
(***************************************************************************)
EXTENDS FrontEnd, FiniteSetTheorems, TLAPS

(***************************************************************************)
(* The inductive invariant: an id that an answer carries was handed out    *)
(* before now, so a connection accepted later has another one.             *)
(***************************************************************************)
HandleInv ==
    /\ \A h \in handles : h.nid # NoNet /\ h.nid < nid_seed
    /\ AsyncLookupExact

PoolInv == \A fd \in Fds : pool[fd] < nid_seed

IInv == TypeOK /\ PoolInv /\ HandleInv /\ CursorInPool

-----------------------------------------------------------------------------
(***************************************************************************)
(* begin() and the successor of an entry: First returns an entry of the    *)
(* set it is given, or end().                                              *)
(***************************************************************************)
LEMMA FirstInSet ==
    ASSUME NEW S \in SUBSET Fds
    PROVE  First(S) \in S \cup {EndFd}
<1>1. CASE S = {}
  BY <1>1 DEF First
<1>2. CASE S # {}
  <2>1. \E fd \in S : \A g \in S : fd <= g
    BY <1>2, LeastFdAssumption
  <2>2. QED
    BY <1>2, <2>1 DEF First
<1>3. QED
  BY <1>1, <1>2

(***************************************************************************)
(* A walk only ever visits connections of the pool.                        *)
(***************************************************************************)
LEMMA VisitedInPool == Visited \subseteq InPool
BY DEF Visited

(***************************************************************************)
(* Deleting the connections of gone keeps the correspondence between       *)
(* handles that are found and handles that are not stale, when the pool    *)
(* loses exactly the entries of gone.                                      *)
(***************************************************************************)
LEMMA DeletedKeepsHandles ==
    ASSUME IInv, NEW gone \in SUBSET Fds, NEW kept \in SUBSET handles,
           pool' = [fd \in Fds |-> IF fd \in gone THEN NoNet ELSE pool[fd]],
           nid_seed' = nid_seed,
           Deleted(gone, kept)
    PROVE  handles' \subseteq Handle /\ stale' \subseteq handles' /\ HandleInv'
BY DEF IInv, TypeOK, HandleInv, AsyncLookupExact, GetHandlerByAsyncIds, NoNet,
       Deleted, Handle

(***************************************************************************)
(* Closing one connection (socket event or DestroyFrontEnd).               *)
(***************************************************************************)
LEMMA CloseFrontEndKeepsPool ==
    ASSUME IInv, NEW fd \in Fds, CloseFrontEnd(fd)
    PROVE  /\ pool' = [f \in Fds |-> IF f \in {fd} THEN NoNet ELSE pool[f]]
           /\ nid_seed' = nid_seed
           /\ pool' \in [Fds -> Nat] /\ PoolInv' /\ CursorInPool'
           /\ it_cursor' \in Fds \cup {EndFd}
           /\ idle' \in [Fds -> Nat] /\ pkgs' \in [Fds -> Nat]
           /\ bytes' \in [Fds -> Nat] /\ frame' \in [Fds -> Nat]
           /\ lag' \in [Fds -> Nat] /\ burst' \in [Fds -> BOOLEAN]
           /\ buckets' \in Nat /\ cursor_valid' \in BOOLEAN
<1> DEFINE later == {g \in InPool : g > fd}
<1>1. After(InPool, fd) \in later \cup {EndFd}
  BY FirstInSet DEF After, InPool
<1>2. fd \notin later
  BY FdsAssumption
<1>3. /\ pool' = [f \in Fds |-> IF f \in {fd} THEN NoNet ELSE pool[f]]
      /\ nid_seed' = nid_seed
  BY DEF CloseFrontEnd, RemoveHandlerByEvent, IInv, TypeOK
<1>4. InPool' = InPool \ {fd}
  BY <1>3 DEF InPool, NoNet
<1>5. it_cursor' \in InPool' \cup {EndFd}
  BY <1>1, <1>2, <1>4 DEF CloseFrontEnd, RemoveHandlerByEvent, IInv, CursorInPool
<1>6. it_cursor' \in Fds \cup {EndFd}
  BY <1>5 DEF InPool
<1>7. pool' \in [Fds -> Nat] /\ PoolInv'
  BY <1>3 DEF IInv, TypeOK, PoolInv, NoNet
<1>8. QED
  BY <1>3, <1>5, <1>6, <1>7 DEF CursorInPool, CloseFrontEnd, ResetNet, IInv, TypeOK

(***************************************************************************)
(* The empty pool with no answer under way.                                *)
(***************************************************************************)
LEMMA InitIInv == Init => IInv
BY FdsAssumption, LimitAssumption
   DEF Init, PoolInit, IInv, TypeOK, PoolInv, HandleInv, AsyncLookupExact,
       CursorInPool, InPool, NoNet

(***************************************************************************)
(* A new connection takes an id that no answer under way can carry, and    *)
(* leaves the cursor where it was.                                         *)
(***************************************************************************)
LEMMA ConnectKeepsIInv ==
    ASSUME IInv, NEW fd \in Fds, OnFrontEndConnect(fd)
    PROVE  IInv'
<1> USE DEF OnFrontEndConnect, AddHandlerBySocket, NoNet
<1>1. /\ pool' = [pool EXCEPT ![fd] = nid_seed] /\ nid_seed' = nid_seed + 1
      /\ nid_seed \in Nat \ {0} /\ pool \in [Fds -> Nat] /\ pool[fd] = 0
      /\ it_cursor' = it_cursor /\ handles' = handles /\ stale' = stale
  BY DEF IInv, TypeOK, handleVars
<1>2. TypeOK'
  <2>1. buckets' \in Nat
    BY DEF IInv, TypeOK
  <2>2. cursor_valid' \in BOOLEAN
    BY ZenonT(20) DEF IInv, TypeOK
  <2>3. ResetNet(fd)
    OBVIOUS
  <2>4. /\ idle' \in [Fds -> Nat] /\ pkgs' \in [Fds -> Nat]
        /\ bytes' \in [Fds -> Nat] /\ frame' \in [Fds -> Nat]
        /\ lag' \in [Fds -> Nat] /\ burst' \in [Fds -> BOOLEAN]
    BY <2>3 DEF ResetNet, IInv, TypeOK
  <2>5. pool' \in [Fds -> Nat] /\ nid_seed' \in Nat \ {0}
    BY <1>1
  <2>6. it_cursor' \in Fds \cup {EndFd} /\ handles' \subseteq Handle /\ stale' \subseteq handles'
    BY <1>1 DEF IInv, TypeOK
  <2> HIDE DEF OnFrontEndConnect, AddHandlerBySocket, NoNet
  <2>7. QED
    BY <2>1, <2>2, <2>4, <2>5, <2>6 DEF TypeOK
<1>3. PoolInv'
  BY <1>1 DEF IInv, PoolInv
<1>4. HandleInv'
  BY <1>1 DEF IInv, TypeOK, HandleInv, AsyncLookupExact, GetHandlerByAsyncIds, Handle
<1>5. CursorInPool'
  BY <1>1 DEF IInv, CursorInPool, InPool
<1>6. QED
  BY <1>2, <1>3, <1>4, <1>5 DEF IInv

(***************************************************************************)
(* The peer closes a connection: the answers for it become stale as it     *)
(* leaves the pool.                                                        *)
(***************************************************************************)
LEMMA SocketEventKeepsIInv ==
    ASSUME IInv, NEW fd \in Fds, OnFrontEndSocketEvent(fd)
    PROVE  IInv'
<1>1. CloseFrontEnd(fd) /\ Deleted({fd}, handles)
  BY DEF OnFrontEndSocketEvent
<1>2. handles' \subseteq Handle /\ stale' \subseteq handles' /\ HandleInv'
  BY <1>1, CloseFrontEndKeepsPool, DeletedKeepsHandles
<1>3. QED
  BY <1>1, <1>2, CloseFrontEndKeepsPool DEF IInv, TypeOK

(***************************************************************************)
(* An answer in time makes the application destroy its connection.         *)
(***************************************************************************)
LEMMA AsyncDestroyKeepsIInv ==
    ASSUME IInv, NEW h \in handles, AsyncDestroy(h)
    PROVE  IInv'
<1>1. h.fd \in Fds
  BY DEF IInv, TypeOK, Handle
<1>2. CloseFrontEnd(h.fd) /\ Deleted({h.fd}, handles \ {h})
  BY DEF AsyncDestroy
<1>3. handles' \subseteq Handle /\ stale' \subseteq handles' /\ HandleInv'
  <2>1. /\ pool' = [f \in Fds |-> IF f \in {h.fd} THEN NoNet ELSE pool[f]]
        /\ nid_seed' = nid_seed
    BY <1>1, <1>2, CloseFrontEndKeepsPool
  <2>2. {h.fd} \in SUBSET Fds /\ handles \ {h} \in SUBSET handles
    BY <1>1
  <2>3. QED
    BY <1>2, <2>1, <2>2, DeletedKeepsHandles
<1>4. QED
  BY <1>1, <1>2, <1>3, CloseFrontEndKeepsPool DEF IInv, TypeOK

(***************************************************************************)
(* A walk deletes visited connections only, and leaves the cursor on an    *)
(* entry that survived it or at end().                                     *)
(***************************************************************************)
LEMMA TickKeepsIInv ==
    ASSUME IInv, NEW dt \in {0, 1}, Tick(dt)
    PROVE  IInv'
<1> DEFINE age     == [fd \in Fds |-> IF fd \in InPool
                          THEN Capped(idle[fd] + dt, max_idle) ELSE 0]
           closing == {fd \in InPool : OverLimit(age, fd)}
           gone    == Visited \cap closing
           rest    == {fd \in InPool : fd >= it_cursor} \ Visited
<1>1. /\ WalkThrough(closing) /\ Deleted(gone, handles)
      /\ idle' = [fd \in Fds |-> IF fd \in gone THEN 0 ELSE age[fd]]
  BY DEF Tick
<1>2. gone \in SUBSET Fds /\ gone \subseteq Visited
  BY DEF InPool
<1>3. /\ pool' = [fd \in Fds |-> IF fd \in gone THEN NoNet ELSE pool[fd]]
      /\ it_cursor' = IF rest = {} THEN First(InPool \ gone) ELSE First(rest)
      /\ nid_seed' = nid_seed
  BY <1>1 DEF WalkThrough
<1>4. InPool' = InPool \ gone
  BY <1>3 DEF InPool, NoNet
<1>5. it_cursor' \in InPool' \cup {EndFd}
  <2>1. First(InPool \ gone) \in (InPool \ gone) \cup {EndFd}
    BY FirstInSet DEF InPool
  <2>2. First(rest) \in rest \cup {EndFd}
    BY FirstInSet DEF InPool
  <2>3. rest \subseteq InPool \ gone
    BY <1>2
  <2>4. QED
    BY <1>3, <1>4, <2>1, <2>2, <2>3
<1>6. handles' \subseteq Handle /\ stale' \subseteq handles' /\ HandleInv'
  BY <1>1, <1>2, <1>3, DeletedKeepsHandles
<1>7. pool' \in [Fds -> Nat] /\ PoolInv' /\ nid_seed' \in Nat \ {0}
  BY <1>3 DEF IInv, TypeOK, PoolInv, NoNet
<1>8. age \in [Fds -> Nat]
  BY LimitAssumption DEF IInv, TypeOK, Capped
<1>9. idle' \in [Fds -> Nat]
  BY <1>1, <1>8
<1>10. /\ pkgs' \in [Fds -> Nat] /\ bytes' \in [Fds -> Nat]
       /\ frame' \in [Fds -> Nat] /\ lag' \in [Fds -> Nat]
       /\ burst' \in [Fds -> BOOLEAN]
       /\ buckets' \in Nat /\ cursor_valid' \in BOOLEAN
  BY DEF Tick, IInv, TypeOK
<1>11. it_cursor' \in Fds \cup {EndFd}
  BY <1>5 DEF InPool
<1> HIDE DEF age, closing, gone, rest
<1>12. QED
  BY <1>5, <1>6, <1>7, <1>9, <1>10, <1>11 DEF IInv, TypeOK, CursorInPool

(***************************************************************************)
(* Every step of the front end preserves the inductive invariant.          *)
(***************************************************************************)
LEMMA NextKeepsIInv == IInv /\ [Next]_vars => IInv'
<1> SUFFICES ASSUME IInv, [Next]_vars PROVE IInv'
  OBVIOUS
<1>1. ASSUME NEW fd \in Fds, OnFrontEndConnect(fd) PROVE IInv'
  BY <1>1, ConnectKeepsIInv
<1>2. CASE OnFrontEndConnectFailed
  BY <1>2 DEF OnFrontEndConnectFailed, AddHandlerFailed, netVars, handleVars,
     IInv, TypeOK, PoolInv, HandleInv, AsyncLookupExact, GetHandlerByAsyncIds,
     CursorInPool, InPool, Handle
<1>3. ASSUME NEW fd \in Fds, NEW b \in Bursts, OnFrontEndMsg(fd, b[1], b[2])
      PROVE  IInv'
  <2>1. b[1] \in Nat /\ b[2] \in Nat
    BY <1>3, LimitAssumption
  <2>2. TypeOK'
    BY <1>3, <2>1, LimitAssumption DEF OnFrontEndMsg, poolVars, handleVars, IInv, TypeOK, Capped
  <2>3. QED
    BY <1>3, <2>2 DEF OnFrontEndMsg, poolVars, handleVars, IInv, PoolInv, HandleInv,
       AsyncLookupExact, GetHandlerByAsyncIds, CursorInPool, InPool
<1>4. ASSUME NEW fd \in Fds, OnFrontEndSocketEvent(fd) PROVE IInv'
  BY <1>4, SocketEventKeepsIInv
<1>5. ASSUME NEW fd \in Fds, GetNetIds(fd) PROVE IInv'
  <2>1. [fd |-> fd, nid |-> pool[fd]] \notin stale
    BY <1>5 DEF GetNetIds, IInv, TypeOK, HandleInv, AsyncLookupExact, GetHandlerByAsyncIds
  <2>2. QED
    BY <1>5, <2>1 DEF GetNetIds, poolVars, netVars, IInv, TypeOK, PoolInv, HandleInv,
       AsyncLookupExact, GetHandlerByAsyncIds, CursorInPool, InPool, Handle, NoNet
<1>6. ASSUME NEW h \in handles, AsyncAnswer(h) PROVE IInv'
  BY <1>6 DEF AsyncAnswer, Deleted, poolVars, netVars, IInv, TypeOK, PoolInv, HandleInv,
     AsyncLookupExact, GetHandlerByAsyncIds, CursorInPool, InPool
<1>7. ASSUME NEW h \in handles, AsyncDestroy(h) PROVE IInv'
  BY <1>7, AsyncDestroyKeepsIInv
<1>8. ASSUME NEW dt \in {0, 1}, Tick(dt) PROVE IInv'
  BY <1>8, TickKeepsIInv
<1>9. CASE UNCHANGED vars
  BY <1>9 DEF vars, poolVars, netVars, handleVars, IInv, TypeOK, PoolInv, HandleInv,
     AsyncLookupExact, GetHandlerByAsyncIds, CursorInPool, InPool
<1>10. QED
  BY <1>1, <1>2, <1>3, <1>4, <1>5, <1>6, <1>7, <1>8, <1>9 DEF Next

(***************************************************************************)
(* Type correctness of the front end.                                      *)
(***************************************************************************)
THEOREM TypeCorrect == Spec => []TypeOK
<1>1. IInv => TypeOK
  BY DEF IInv
<1>2. QED
  BY <1>1, InitIInv, NextKeepsIInv, PTL DEF Spec

(***************************************************************************)
(* GetHandlerByAsyncIds finds a connection exactly when it is the one the  *)
(* ids were taken from, for any number of connections and any reuse of     *)
(* descriptors.                                                            *)
(***************************************************************************)
THEOREM AsyncLookupCorrect == Spec => []AsyncLookupExact
<1>1. IInv => AsyncLookupExact
  BY DEF IInv, HandleInv
<1>2. QED
  BY <1>1, InitIInv, NextKeepsIInv, PTL DEF Spec

(***************************************************************************)
(* The cursor of WalkThrough never points at an erased entry.              *)
(***************************************************************************)
THEOREM CursorCorrect == Spec => []CursorInPool
<1>1. IInv => CursorInPool
  BY DEF IInv
<1>2. QED
  BY <1>1, InitIInv, NextKeepsIInv, PTL DEF Spec

-----------------------------------------------------------------------------
(***************************************************************************)
(* The walk.  LagOK(fd, c, l): with the cursor at c the entry fd can have  *)
(* been passed over by l walks.  A walk that does not reach the end puts   *)
(* kSingleRoundLoopNum descriptors behind the cursor: those above fd until *)
(* the walk starts again, and then those below fd.                         *)
(***************************************************************************)
LagOK(fd, c, l) ==
    /\ fd < c => l * kSingleRoundLoopNum <= Cardinality({g \in Fds : fd < g /\ g < c})
    /\ fd >= c => l * kSingleRoundLoopNum
                    <= Cardinality({g \in Fds : fd < g \/ g < c}) + kSingleRoundLoopNum

LagInv == \A fd \in InPool : LagOK(fd, it_cursor, lag[fd])

(***************************************************************************)
(* Cardinalities of sets of descriptors.                                   *)
(***************************************************************************)
LEMMA FdsCount ==
    ASSUME NEW T \in SUBSET Fds
    PROVE  /\ Cardinality(T) \in Nat /\ IsFiniteSet(T)
           /\ \A S \in SUBSET T : Cardinality(S) \in Nat /\ Cardinality(S) <= Cardinality(T)
           /\ \A S, U \in SUBSET T : S \cap U = {} =>
                  Cardinality(S) + Cardinality(U) <= Cardinality(T)
<1>1. IsFiniteSet(T)
  BY FiniteFdsAssumption, FS_Subset
<1>2. \A S \in SUBSET T : /\ IsFiniteSet(S) /\ Cardinality(S) \in Nat
                          /\ Cardinality(S) <= Cardinality(T)
  BY <1>1, FS_Subset, FS_CardinalityType
<1>3. ASSUME NEW S \in SUBSET T, NEW U \in SUBSET T, S \cap U = {}
      PROVE  Cardinality(S) + Cardinality(U) <= Cardinality(T)
  <2>1. Cardinality(S \cap U) = 0
    BY <1>3, FS_EmptySet
  <2>2. Cardinality(S \cup U) = Cardinality(S) + Cardinality(U) - 0
    BY <1>2, <2>1, FS_Union
  <2>3. Cardinality(S \cup U) <= Cardinality(T)
    BY <1>2
  <2>4. Cardinality(S) \in Nat /\ Cardinality(U) \in Nat
    BY <1>2
  <2>5. QED
    BY <2>2, <2>3, <2>4
<1>4. QED
  BY <1>1, <1>2, <1>3, FS_CardinalityType

(***************************************************************************)
(* The first entry of a set, in the order of the table.                    *)
(***************************************************************************)
LEMMA FirstIsLeast ==
    ASSUME NEW S \in SUBSET Fds, S # {}
    PROVE  First(S) \in S /\ \A g \in S : First(S) <= g
<1>1. \E fd \in S : \A g \in S : fd <= g
  BY LeastFdAssumption
<1>2. QED
  BY <1>1 DEF First

(***************************************************************************)
(* A new entry, or one that has just been visited, has no lag.             *)
(***************************************************************************)
LEMMA LagStarts ==
    ASSUME NEW fd \in Fds, NEW c \in Nat
    PROVE  LagOK(fd, c, 0)
<1>1. /\ Cardinality({g \in Fds : fd < g /\ g < c}) \in Nat
      /\ Cardinality({g \in Fds : fd < g \/ g < c}) \in Nat
  BY FdsCount
<1>2. 0 * kSingleRoundLoopNum = 0 /\ kSingleRoundLoopNum \in Nat
  BY BoundAssumption
<1>3. QED
  BY <1>1, <1>2 DEF LagOK

(***************************************************************************)
(* The cursor moves on, but not past fd, over the descriptors of S.        *)
(***************************************************************************)
LEMMA CursorMovesOn ==
    ASSUME NEW fd \in Fds, NEW c \in Nat, NEW c2 \in Nat, NEW l \in Nat, LagOK(fd, c, l),
           c <= c2, fd < c \/ c2 <= fd,
           NEW S \in SUBSET Fds, \A g \in S : c <= g /\ g < c2
    PROVE  /\ fd < c2 => l * kSingleRoundLoopNum + Cardinality(S)
                           <= Cardinality({g \in Fds : fd < g /\ g < c2})
           /\ fd >= c2 => l * kSingleRoundLoopNum + Cardinality(S)
                    <= Cardinality({g \in Fds : fd < g \/ g < c2}) + kSingleRoundLoopNum
<1> DEFINE Mid == {g \in Fds : fd < g /\ g < c}
           Mid2 == {g \in Fds : fd < g /\ g < c2}
           Out == {g \in Fds : fd < g \/ g < c}
           Out2 == {g \in Fds : fd < g \/ g < c2}
<1>1. PICK k : k = l * kSingleRoundLoopNum
  OBVIOUS
<1>2. k \in Nat /\ kSingleRoundLoopNum \in Nat
  BY <1>1, BoundAssumption
<1>3. fd \in Nat /\ \A g \in Fds : g \in Nat
  BY FdsAssumption
<1>4. Cardinality(S) \in Nat
  BY FdsCount
<1>5. CASE fd < c
  <2>1. Mid \subseteq Mid2 /\ S \subseteq Mid2 /\ Mid \cap S = {}
    <3>1. ASSUME NEW g \in Mid PROVE g \in Mid2
      BY <1>3, <1>5
    <3>2. ASSUME NEW g \in S PROVE g \in Mid2 /\ g \notin Mid
      <4>1. g \in Fds /\ c <= g /\ g < c2
        OBVIOUS
      <4>2. QED
        BY <1>3, <1>5, <4>1
    <3>3. QED
      BY <3>1, <3>2
  <2>2. /\ Cardinality(Mid) + Cardinality(S) <= Cardinality(Mid2)
        /\ Cardinality(Mid) \in Nat /\ Cardinality(Mid2) \in Nat
    BY <2>1, FdsCount
  <2>3. k <= Cardinality(Mid)
    BY <1>1, <1>5 DEF LagOK
  <2> HIDE DEF Mid, Mid2
  <2>4. k + Cardinality(S) <= Cardinality(Mid2)
    BY <1>2, <1>4, <2>2, <2>3
  <2>5. ~(fd >= c2)
    BY <1>3, <1>5
  <2>6. QED
    BY <1>1, <2>4, <2>5 DEF Mid2
<1>6. CASE fd >= c
  <2>1. c2 <= fd /\ ~(fd < c2)
    BY <1>3, <1>6
  <2>2. Out \subseteq Out2 /\ S \subseteq Out2 /\ Out \cap S = {}
    <3>1. ASSUME NEW g \in Out PROVE g \in Out2
      BY <1>3, <2>1
    <3>2. ASSUME NEW g \in S PROVE g \in Out2 /\ g \notin Out
      <4>1. g \in Fds /\ c <= g /\ g < c2
        OBVIOUS
      <4>2. QED
        BY <1>3, <2>1, <4>1
    <3>3. QED
      BY <3>1, <3>2
  <2>3. /\ Cardinality(Out) + Cardinality(S) <= Cardinality(Out2)
        /\ Cardinality(Out) \in Nat /\ Cardinality(Out2) \in Nat
    BY <2>2, FdsCount
  <2>4. k <= Cardinality(Out) + kSingleRoundLoopNum
    BY <1>1, <1>6 DEF LagOK
  <2> HIDE DEF Out, Out2
  <2>5. k + Cardinality(S) <= Cardinality(Out2) + kSingleRoundLoopNum
    BY <1>2, <1>4, <2>3, <2>4
  <2>6. QED
    BY <1>1, <2>1, <2>5 DEF Out2
<1>7. QED
  BY <1>3, <1>5, <1>6

(***************************************************************************)
(* The cursor is moved on without a walk: its entry has been removed.      *)
(***************************************************************************)
LEMMA LagStays ==
    ASSUME NEW fd \in Fds, NEW c \in Nat, NEW c2 \in Nat, NEW l \in Nat, LagOK(fd, c, l),
           c <= c2, fd < c \/ c2 <= fd
    PROVE  LagOK(fd, c2, l)
<1>1. PICK k : k = l * kSingleRoundLoopNum
  OBVIOUS
<1>2. k \in Nat
  BY <1>1, BoundAssumption
<1>3. Cardinality({}) = 0 /\ {} \in SUBSET Fds
  BY FS_EmptySet
<1>4. k + Cardinality({}) = k
  BY <1>2, <1>3
<1>5. /\ fd < c2 => k + Cardinality({}) <= Cardinality({g \in Fds : fd < g /\ g < c2})
      /\ fd >= c2 => k + Cardinality({})
                    <= Cardinality({g \in Fds : fd < g \/ g < c2}) + kSingleRoundLoopNum
  BY <1>1, <1>3, CursorMovesOn
<1>6. QED
  BY <1>1, <1>4, <1>5 DEF LagOK

(***************************************************************************)
(* A walk that does not reach the end and does not reach fd.               *)
(***************************************************************************)
LEMMA LagGrows ==
    ASSUME NEW fd \in Fds, NEW c \in Nat, NEW c2 \in Nat, NEW l \in Nat, LagOK(fd, c, l),
           c <= c2, fd < c \/ c2 <= fd,
           NEW S \in SUBSET Fds, \A g \in S : c <= g /\ g < c2,
           kSingleRoundLoopNum <= Cardinality(S)
    PROVE  LagOK(fd, c2, l + 1)
<1>1. PICK k : k = l * kSingleRoundLoopNum
  OBVIOUS
<1>2. k \in Nat /\ kSingleRoundLoopNum \in Nat /\ (l + 1) * kSingleRoundLoopNum = k + kSingleRoundLoopNum
  BY <1>1, BoundAssumption
<1>3. /\ fd < c2 => k + Cardinality(S) <= Cardinality({g \in Fds : fd < g /\ g < c2})
      /\ fd >= c2 => k + Cardinality(S)
                    <= Cardinality({g \in Fds : fd < g \/ g < c2}) + kSingleRoundLoopNum
  BY <1>1, CursorMovesOn
<1>4. /\ Cardinality(S) \in Nat
      /\ Cardinality({g \in Fds : fd < g /\ g < c2}) \in Nat
      /\ Cardinality({g \in Fds : fd < g \/ g < c2}) \in Nat
  BY FdsCount
<1>5. QED
  BY <1>2, <1>3, <1>4 DEF LagOK

(***************************************************************************)
(* A walk that reaches the end and starts again, with fd behind it.        *)
(***************************************************************************)
LEMMA LagWraps ==
    ASSUME NEW fd \in Fds, NEW c \in Nat, NEW c2 \in Nat, NEW l \in Nat, LagOK(fd, c, l),
           fd < c, c2 <= fd
    PROVE  LagOK(fd, c2, l + 1)
<1>1. PICK k : k = l * kSingleRoundLoopNum
  OBVIOUS
<1>2. k \in Nat /\ kSingleRoundLoopNum \in Nat /\ (l + 1) * kSingleRoundLoopNum = k + kSingleRoundLoopNum
  BY <1>1, BoundAssumption
<1>3. k <= Cardinality({g \in Fds : fd < g /\ g < c})
  BY <1>1 DEF LagOK
<1>4. {g \in Fds : fd < g /\ g < c} \subseteq {g \in Fds : fd < g \/ g < c2}
  OBVIOUS
<1>5. /\ Cardinality({g \in Fds : fd < g /\ g < c}) \in Nat
      /\ Cardinality({g \in Fds : fd < g \/ g < c2}) \in Nat
      /\ Cardinality({g \in Fds : fd < g /\ g < c}) <= Cardinality({g \in Fds : fd < g \/ g < c2})
  BY <1>4, FdsCount
<1>6. fd \in Nat /\ ~(fd < c2)
  BY FdsAssumption
<1>7. QED
  BY <1>2, <1>3, <1>5, <1>6 DEF LagOK

(***************************************************************************)
(* One connection goes away.                                               *)
(***************************************************************************)
LEMMA CloseKeepsLag ==
    ASSUME IInv, LagInv, NEW fd \in Fds, CloseFrontEnd(fd)
    PROVE  LagInv'
<1>1. pool' = [f \in Fds |-> IF f \in {fd} THEN NoNet ELSE pool[f]]
  BY CloseFrontEndKeepsPool
<1>2. InPool' = InPool \ {fd}
  BY <1>1 DEF InPool, NoNet
<1>3. /\ lag' = [lag EXCEPT ![fd] = 0] /\ lag \in [Fds -> Nat]
      /\ it_cursor' = IF it_cursor = fd THEN After(InPool, fd) ELSE it_cursor
      /\ it_cursor \in Nat /\ InPool \subseteq Fds /\ \A g \in Fds : g \in Nat
  BY FdsAssumption DEF CloseFrontEnd, ResetNet, RemoveHandlerByEvent, IInv, TypeOK, InPool
<1> SUFFICES ASSUME NEW f \in InPool, f # fd PROVE LagOK(f, it_cursor', lag[f])
  BY <1>2, <1>3 DEF LagInv, LagOK
<1>4. LagOK(f, it_cursor, lag[f]) /\ f \in Fds /\ lag[f] \in Nat
  BY <1>3 DEF LagInv
<1>5. CASE it_cursor # fd
  BY <1>3, <1>4, <1>5
<1>6. CASE it_cursor = fd
  <2>1. PICK later : later = {g \in InPool : g > fd}
    OBVIOUS
  <2>2. it_cursor' = First(later) /\ later \in SUBSET Fds
    BY <1>3, <1>6, <2>1 DEF After
  <2>3. CASE later = {}
    <3>1. it_cursor' = EndFd /\ fd < EndFd /\ EndFd \in Nat
      BY <2>2, <2>3, FdsAssumption DEF First
    <3>2. f < fd
      BY <1>3, <2>1, <2>3
    <3>3. QED
      BY <1>3, <1>4, <1>6, <3>1, <3>2, LagStays
  <2>4. CASE later # {}
    <3>1. it_cursor' \in later /\ \A g \in later : it_cursor' <= g
      BY <2>2, <2>4, FirstIsLeast
    <3>2. fd < it_cursor' /\ it_cursor' \in Nat
      BY <1>3, <2>1, <3>1
    <3>3. f < fd \/ it_cursor' <= f
      BY <1>3, <2>1, <3>1
    <3>4. fd <= it_cursor'
      BY <1>3, <3>2
    <3>5. QED
      BY <1>3, <1>4, <1>6, <3>2, <3>3, <3>4, LagStays
  <2>5. QED
    BY <2>3, <2>4
<1>7. QED
  BY <1>5, <1>6

(***************************************************************************)
(* A walk.  If it leaves entries for the next one, it has visited          *)
(* kSingleRoundLoopNum of them, all below the first that is left.          *)
(***************************************************************************)
LEMMA TickKeepsLag ==
    ASSUME IInv, LagInv, NEW dt \in {0, 1}, Tick(dt)
    PROVE  LagInv'
<1> DEFINE ahead == {fd \in InPool : fd >= it_cursor}
           rest == ahead \ Visited
<1>1. PICK gone \in SUBSET Visited :
        /\ pool' = [fd \in Fds |-> IF fd \in gone THEN NoNet ELSE pool[fd]]
        /\ it_cursor' = IF rest = {} THEN First(InPool \ gone) ELSE First(rest)
        /\ lag' = [fd \in Fds |-> IF fd \in InPool \ Visited THEN lag[fd] + 1 ELSE 0]
  <2>1. PICK closing : /\ WalkThrough(closing)
                       /\ lag' = [fd \in Fds |-> IF fd \in InPool \ Visited THEN lag[fd] + 1 ELSE 0]
    BY DEF Tick
  <2>2. Visited \cap closing \in SUBSET Visited
    OBVIOUS
  <2>3. QED
    BY <2>1, <2>2 DEF WalkThrough
<1>2. InPool' = InPool \ gone
  BY <1>1 DEF InPool, NoNet
<1>3. /\ it_cursor \in Nat /\ it_cursor' \in Nat /\ InPool \subseteq Fds
      /\ \A g \in Fds : g \in Nat /\ lag[g] \in Nat
  <2>1. it_cursor' \in Fds \cup {EndFd}
    BY TickKeepsIInv DEF IInv, TypeOK
  <2>2. QED
    BY <2>1, FdsAssumption DEF IInv, TypeOK, InPool
<1> SUFFICES ASSUME NEW f \in InPool \ gone PROVE LagOK(f, it_cursor', lag'[f])
  BY <1>2 DEF LagInv, LagOK
<1>4. f \in Fds /\ LagOK(f, it_cursor, lag[f])
  BY <1>3 DEF LagInv
<1>5. CASE f \in Visited
  <2>1. lag'[f] = 0
    BY <1>1, <1>4, <1>5
  <2>2. QED
    BY <1>3, <1>4, <2>1, LagStarts
<1>6. CASE f \notin Visited
  <2>1. lag'[f] = lag[f] + 1
    BY <1>1, <1>4, <1>6
  <2>2. CASE rest = {}
    <3>1. f < it_cursor
      BY <1>3, <1>4, <1>6, <2>2
    <3>2. InPool \ gone \in SUBSET Fds /\ InPool \ gone # {}
      BY <1>3
    <3>3. it_cursor' <= f
      BY <1>1, <2>2, <3>2, FirstIsLeast
    <3>4. QED
      BY <1>3, <1>4, <2>1, <3>1, <3>3, LagWraps
  <2>3. CASE rest # {}
    <3>1. it_cursor' = First(rest) /\ rest \in SUBSET Fds
      BY <1>1, <1>3, <2>3
    <3>2. it_cursor' \in rest /\ \A g \in rest : it_cursor' <= g
      BY <2>3, <3>1, FirstIsLeast
    <3>3. PICK S : S = {g \in ahead : g < it_cursor'}
      OBVIOUS
    <3>4. S \in SUBSET Fds /\ \A g \in S : it_cursor <= g /\ g < it_cursor'
      BY <1>3, <3>3
    <3>5. ~(Cardinality(S) < kSingleRoundLoopNum)
      BY <3>2, <3>3 DEF Visited
    <3>6. kSingleRoundLoopNum <= Cardinality(S)
      BY <3>4, <3>5, FdsCount, BoundAssumption
    <3>7. it_cursor <= it_cursor' /\ (f < it_cursor \/ it_cursor' <= f)
      BY <1>3, <1>4, <1>6, <3>2
    <3> HIDE DEF rest, ahead
    <3>8. QED
      BY <1>3, <1>4, <2>1, <3>4, <3>6, <3>7, LagGrows
  <2>4. QED
    BY <2>2, <2>3
<1>7. QED
  BY <1>5, <1>6

(***************************************************************************)
(* Every step keeps the bound on the lag.                                  *)
(***************************************************************************)
LEMMA NextKeepsLag == IInv /\ LagInv /\ [Next]_vars => LagInv'
<1> SUFFICES ASSUME IInv, LagInv, [Next]_vars PROVE LagInv'
  OBVIOUS
<1>1. ASSUME NEW fd \in Fds, OnFrontEndConnect(fd) PROVE LagInv'
  <2>1. /\ lag' = [lag EXCEPT ![fd] = 0] /\ lag \in [Fds -> Nat] /\ it_cursor' = it_cursor
        /\ it_cursor \in Nat /\ pool' = [pool EXCEPT ![fd] = nid_seed] /\ pool \in [Fds -> Nat]
    BY <1>1, FdsAssumption DEF OnFrontEndConnect, AddHandlerBySocket, ResetNet, IInv, TypeOK
  <2>2. InPool' \subseteq InPool \cup {fd}
    BY <2>1 DEF InPool
  <2>3. ASSUME NEW f \in InPool', f # fd PROVE LagOK(f, it_cursor, lag[f])
    BY <2>2, <2>3 DEF LagInv
  <2>4. LagOK(fd, it_cursor, 0)
    BY <2>1, LagStarts
  <2>5. ASSUME NEW f \in InPool' PROVE LagOK(f, it_cursor', lag'[f])
    <3>1. f \in Fds
      BY DEF InPool
    <3>2. QED
      BY <2>1, <2>3, <2>4, <3>1
  <2>6. QED
    BY <2>5 DEF LagInv, LagOK
<1>2. ASSUME UNCHANGED <<pool, it_cursor, lag>> PROVE LagInv'
  BY <1>2 DEF LagInv, LagOK, InPool
<1>3. CASE OnFrontEndConnectFailed
  BY <1>2, <1>3 DEF OnFrontEndConnectFailed, AddHandlerFailed, netVars
<1>4. ASSUME NEW fd \in Fds, NEW b \in Bursts, OnFrontEndMsg(fd, b[1], b[2])
      PROVE  LagInv'
  BY <1>2, <1>4 DEF OnFrontEndMsg, poolVars
<1>5. ASSUME NEW fd \in Fds, OnFrontEndSocketEvent(fd) PROVE LagInv'
  BY <1>5, CloseKeepsLag DEF OnFrontEndSocketEvent
<1>6. ASSUME NEW fd \in Fds, GetNetIds(fd) PROVE LagInv'
  BY <1>2, <1>6 DEF GetNetIds, poolVars, netVars
<1>7. ASSUME NEW h \in handles, AsyncAnswer(h) PROVE LagInv'
  BY <1>2, <1>7 DEF AsyncAnswer, poolVars, netVars
<1>8. ASSUME NEW h \in handles, AsyncDestroy(h) PROVE LagInv'
  <2>1. h.fd \in Fds
    BY DEF IInv, TypeOK, Handle
  <2>2. QED
    BY <1>8, <2>1, CloseKeepsLag DEF AsyncDestroy
<1>9. ASSUME NEW dt \in {0, 1}, Tick(dt) PROVE LagInv'
  BY <1>9, TickKeepsLag
<1>10. CASE UNCHANGED vars
  BY <1>2, <1>10 DEF vars, poolVars, netVars
<1>11. QED
  BY <1>1, <1>3, <1>4, <1>5, <1>6, <1>7, <1>8, <1>9, <1>10 DEF Next

(***************************************************************************)
(* The division of the bound.                                              *)
(***************************************************************************)
LEMMA Quotient ==
    ASSUME NEW a \in Nat, NEW k \in Nat \ {0}, NEW l \in Nat, l * k <= a + k
    PROVE  l <= a \div k + 1
<1>1. a \div k \in Nat /\ a < (a \div k + 1) * k
  OBVIOUS
<1>2. PICK q \in Nat : q = a \div k
  BY <1>1
<1>3. l * k < (q + 2) * k
  <2>1. (q + 2) * k = (q + 1) * k + k
    BY <1>2
  <2>2. QED
    BY <1>1, <1>2, <2>1
<1>4. l < q + 2
  BY <1>3
<1>5. QED
  BY <1>2, <1>4

(***************************************************************************)
(* The walk of Tick reaches every connection: for any number of            *)
(* descriptors and any length of walk none is passed over by more walks    *)
(* than it takes to go once through the table and to start again           *)
(* (WalkThrough, RemoveHandlerByEvent, AddHandlerBySocket).                *)
(***************************************************************************)
THEOREM WalkReachesEveryConnection == Spec => []WalkLagBounded
<1>1. Init => LagInv
  BY DEF Init, PoolInit, LagInv, InPool, NoNet
<1>2. IInv /\ LagInv => WalkLagBounded
  <2> SUFFICES ASSUME IInv, LagInv, NEW fd \in InPool
               PROVE  lag[fd] <= (Cardinality(Fds) - 1) \div kSingleRoundLoopNum + 1
    BY DEF WalkLagBounded
  <2>1. fd \in Fds /\ lag[fd] \in Nat /\ it_cursor \in Nat /\ \A g \in Fds : g \in Nat
    BY FdsAssumption DEF IInv, TypeOK, InPool
  <2>2. PICK a \in Nat : a = Cardinality(Fds) - 1 /\ a = Cardinality(Fds \ {fd})
    <3>1. Cardinality(Fds \ {fd}) = Cardinality(Fds) - 1
      BY <2>1, FiniteFdsAssumption, FS_RemoveElement
    <3>2. Cardinality(Fds \ {fd}) \in Nat
      BY FdsCount
    <3>3. QED
      BY <3>1, <3>2
  <2>3. PICK k \in Nat \ {0} : k = kSingleRoundLoopNum
    BY BoundAssumption
  <2>4. lag[fd] * k <= a + k
    <3>1. PICK w \in Nat : w = lag[fd] * k
      BY <2>1, <2>3
    <3>2. LagOK(fd, it_cursor, lag[fd])
      BY DEF LagInv
    <3>3. CASE fd < it_cursor
      <4>1. {g \in Fds : fd < g /\ g < it_cursor} \subseteq Fds \ {fd}
        BY <2>1
      <4>2. /\ Cardinality({g \in Fds : fd < g /\ g < it_cursor}) <= a
            /\ Cardinality({g \in Fds : fd < g /\ g < it_cursor}) \in Nat
        BY <2>2, <4>1, FdsCount
      <4>3. w <= Cardinality({g \in Fds : fd < g /\ g < it_cursor})
        BY <2>3, <3>1, <3>2, <3>3 DEF LagOK
      <4>4. w <= a + k
        BY <2>3, <4>2, <4>3
      <4>5. QED
        BY <3>1, <4>4
    <3>4. CASE fd >= it_cursor
      <4>1. {g \in Fds : fd < g \/ g < it_cursor} \subseteq Fds \ {fd}
        BY <2>1, <3>4
      <4>2. /\ Cardinality({g \in Fds : fd < g \/ g < it_cursor}) <= a
            /\ Cardinality({g \in Fds : fd < g \/ g < it_cursor}) \in Nat
        BY <2>2, <4>1, FdsCount
      <4>3. w <= Cardinality({g \in Fds : fd < g \/ g < it_cursor}) + k
        BY <2>3, <3>1, <3>2, <3>4 DEF LagOK
      <4>4. w <= a + k
        BY <2>3, <4>2, <4>3
      <4>5. QED
        BY <3>1, <4>4
    <3>5. QED
      BY <2>1, <3>3, <3>4
  <2>5. lag[fd] <= a \div k + 1
    BY <2>1, <2>4, Quotient
  <2>6. QED
    BY <2>2, <2>3, <2>5
<1>3. QED
  BY <1>1, <1>2, InitIInv, NextKeepsIInv, NextKeepsLag, PTL DEF Spec

-----------------------------------------------------------------------------
(***************************************************************************)
(* As long as there are no more connections than the table was made with   *)
(* buckets for, it has not grown and the cursor is good.                   *)
(***************************************************************************)
Small == Cardinality(InPool) <= InitBuckets

RoomInv == buckets = InitBuckets /\ cursor_valid

(***************************************************************************)
(* A connection that is accepted is one more entry, since no other one has *)
(* its descriptor; if there is a bucket for it, the table does not grow.   *)
(***************************************************************************)
LEMMA ConnectKeepsRoom ==
    ASSUME IInv, RoomInv, NEW fd \in Fds, OnFrontEndConnect(fd), Small'
    PROVE  RoomInv'
<1>1. pool[fd] = NoNet
  BY DEF OnFrontEndConnect
<1>2. InPool \in SUBSET Fds /\ fd \notin InPool
  BY <1>1 DEF InPool
<1>3. IsFiniteSet(InPool) /\ Cardinality(InPool) \in Nat
  BY <1>2, FiniteFdsAssumption, FS_Subset, FS_CardinalityType
<1>4. Cardinality(InPool \cup {fd}) = Cardinality(InPool) + 1
  BY <1>2, <1>3, FS_AddElement
<1>5. InPool' = InPool \cup {fd}
  <2>1. PICK n : pool' = [pool EXCEPT ![fd] = n] /\ n # NoNet
    BY DEF OnFrontEndConnect, AddHandlerBySocket, IInv, TypeOK, NoNet
  <2>2. DOMAIN pool = Fds
    BY DEF IInv, TypeOK
  <2>3. QED
    BY <2>1, <2>2 DEF InPool
<1>6. ~(Cardinality(InPool) + 1 > buckets)
  BY <1>3, <1>4, <1>5, LimitAssumption DEF RoomInv, Small
<1>7. UNCHANGED <<buckets, cursor_valid>>
  BY <1>6 DEF OnFrontEndConnect
<1>8. QED
  BY <1>7 DEF RoomInv

(***************************************************************************)
(* WalkOnValidCursor: while the pool never outgrows the buckets that       *)
(* handler_pool_ of NetHandlerMgr is made with (the library's default; the *)
(* code reserves none), every walk finds it_cursor_ valid, whatever        *)
(* connects and closes between two walks.  The only way to lose the cursor *)
(* is a pool that grows beyond them.                                       *)
(***************************************************************************)
THEOREM SmallPoolKeepsCursor == Spec /\ []Small => WalkOnValidCursor
<1>1. Init => RoomInv
  BY DEF Init, RoomInv
<1>2. ASSUME IInv, RoomInv, [Next]_vars, Small' PROVE RoomInv'
  <2>1. ASSUME NEW fd \in Fds, OnFrontEndConnect(fd) PROVE RoomInv'
    BY <1>2, <2>1, ConnectKeepsRoom
  <2>2. ASSUME UNCHANGED <<buckets, cursor_valid>> PROVE RoomInv'
    BY <1>2, <2>2 DEF RoomInv
  <2>3. CASE OnFrontEndConnectFailed
    BY <2>2, <2>3 DEF OnFrontEndConnectFailed
  <2>4. ASSUME NEW fd \in Fds, NEW b \in Bursts, OnFrontEndMsg(fd, b[1], b[2]) PROVE RoomInv'
    BY <2>2, <2>4 DEF OnFrontEndMsg
  <2>5. ASSUME NEW fd \in Fds, OnFrontEndSocketEvent(fd) \/ GetNetIds(fd) PROVE RoomInv'
    BY <2>2, <2>5 DEF OnFrontEndSocketEvent, CloseFrontEnd, GetNetIds
  <2>6. ASSUME NEW h \in handles, AsyncAnswer(h) \/ AsyncDestroy(h) PROVE RoomInv'
    BY <2>2, <2>6 DEF AsyncAnswer, AsyncDestroy, CloseFrontEnd
  <2>7. ASSUME NEW dt \in {0, 1}, Tick(dt) PROVE RoomInv'
    BY <1>2, <2>7 DEF Tick, RoomInv
  <2>8. CASE UNCHANGED vars
    BY <2>2, <2>8 DEF vars
  <2>9. QED
    BY <1>2, <2>1, <2>3, <2>4, <2>5, <2>6, <2>7, <2>8 DEF Next
<1>3. RoomInv => [(\E dt \in {0, 1} : Tick(dt)) /\ it_cursor # EndFd => cursor_valid]_vars
  BY DEF RoomInv
<1>4. QED
  BY <1>1, <1>2, <1>3, InitIInv, NextKeepsIInv, PTL DEF Spec, WalkOnValidCursor
=============================================================================
