--------------------------- MODULE NetHandlerMgr ---------------------------
(***************************************************************************)
(* The connection pool of the rapidapp framework:                          *)
(* framework/rapidapp_net_mgr.cpp (class NetHandlerMgr) and the net ids    *)
(* that framework/rapidapp_easy_net.cpp gives to every EasyNet.            *)
(*                                                                         *)
(* The pool is a hash table keyed by file descriptor.  The kernel hands    *)
(* out a descriptor again as soon as it is closed, so an answer that       *)
(* arrives late carries the pair (fd, nid); nid is taken from a counter    *)
(* that every EasyNet object increments.  A cursor walks the table a few   *)
(* entries per tick.                                                       *)
(*                                                                         *)
(* The module defines the operations; the modules that EXTEND it (FrontEnd *)
(* and Connector) say when they are called.                                *)
(***************************************************************************)
EXTENDS Naturals, FiniteSets

CONSTANTS
    Fds,                 \* descriptors the kernel can hand out
    EndFd,               \* the iterator end(): greater than every descriptor
    kSingleRoundLoopNum, \* entries visited by one call of WalkThrough
    MaxNid               \* bound: net ids the model hands out

ASSUME FdsAssumption ==
    /\ Fds \subseteq Nat
    /\ EndFd \in Nat
    /\ \A fd \in Fds : fd < EndFd

(***************************************************************************)
(* Every set of descriptors has a least one.                               *)
(***************************************************************************)
ASSUME LeastFdAssumption ==
    \A S \in SUBSET Fds : S # {} => \E fd \in S : \A g \in S : fd <= g

(***************************************************************************)
(* A process has a limited number of descriptors.                          *)
(***************************************************************************)
ASSUME FiniteFdsAssumption == IsFiniteSet(Fds)

ASSUME BoundAssumption ==
    /\ kSingleRoundLoopNum \in Nat \ {0}
    /\ MaxNid \in Nat

VARIABLES
    pool,       \* handler_pool_: the nid of the EasyNet stored under fd, or 0
    nid_seed,   \* the static counter the EasyNet constructor increments
    it_cursor   \* it_cursor_: the entry WalkThrough visits next, or EndFd

poolVars == <<pool, nid_seed, it_cursor>>

(***************************************************************************)
(* No EasyNet has nid 0 (nid_seed starts at 1).                            *)
(***************************************************************************)
NoNet == 0

InPool == {fd \in Fds : pool[fd] # NoNet}

(***************************************************************************)
(* The hash of a descriptor is the descriptor itself, and tr1's table is   *)
(* iterated bucket by bucket: in ascending order, while every descriptor   *)
(* is below the number of buckets.  First(S) is the first entry of S then. *)
(***************************************************************************)
First(S) ==
    IF S = {} THEN EndFd ELSE CHOOSE fd \in S : \A g \in S : fd <= g

After(S, fd) == First({g \in S : g > fd})

\* Mutant: the counter starts at the value that stands for no EasyNet.
PoolInit_SeedTooLow(seed) ==
    /\ pool = [fd \in Fds |-> NoNet]
    /\ nid_seed = seed - 1
    /\ it_cursor = EndFd

(***************************************************************************)
(* An empty pool, when seed - 1 other EasyNets have been constructed.      *)
(***************************************************************************)
PoolInit(seed) ==
    /\ pool = [fd \in Fds |-> NoNet]
    /\ nid_seed = seed
    /\ it_cursor = EndFd            \* begin() of the empty table is end()

\* Mutant: the lookup trusts the descriptor alone.
GetHandlerByAsyncIds_ByFd(fd, nid) == pool[fd] # NoNet

(***************************************************************************)
(* GetHandlerByAsyncIds: the connection an asynchronous answer belongs to. *)
(***************************************************************************)
GetHandlerByAsyncIds(fd, nid) == pool[fd] # NoNet /\ pool[fd] = nid

(***************************************************************************)
(* AddHandlerBySocket: a new EasyNet takes the next nid and is stored      *)
(* under its descriptor.  The cursor is an iterator and does not move.     *)
(***************************************************************************)
AddHandlerBySocket(fd) ==
    /\ nid_seed < MaxNid
    /\ pool' = [pool EXCEPT ![fd] = nid_seed]
    /\ nid_seed' = nid_seed + 1
    /\ UNCHANGED it_cursor

(***************************************************************************)
(* The error paths of AddHandlerBySocket: the EasyNet was constructed, so  *)
(* a nid is used up, and deleted before it reached the table.              *)
(***************************************************************************)
AddHandlerFailed ==
    /\ nid_seed < MaxNid
    /\ nid_seed' = nid_seed + 1
    /\ UNCHANGED <<pool, it_cursor>>

\* Mutant: the entry is erased under the cursor.
RemoveHandlerByEvent_CursorStays(fd) ==
    /\ pool' = [pool EXCEPT ![fd] = NoNet]
    /\ UNCHANGED <<nid_seed, it_cursor>>

(***************************************************************************)
(* RemoveHandlerByEvent: the entry is deleted; a cursor that points at it  *)
(* is moved to the next entry first.                                       *)
(***************************************************************************)
RemoveHandlerByEvent(fd) ==
    /\ pool' = [pool EXCEPT ![fd] = NoNet]
    /\ it_cursor' = IF it_cursor = fd THEN After(InPool, fd) ELSE it_cursor
    /\ UNCHANGED nid_seed

(***************************************************************************)
(* WalkThrough: one call visits at most kSingleRoundLoopNum entries from   *)
(* the cursor on and deletes those the callback rejects (the set closing). *)
(* A round that reached the end starts again at begin().                   *)
(***************************************************************************)
Visited ==
    LET rest == {fd \in InPool : fd >= it_cursor}
    IN  {fd \in rest : Cardinality({g \in rest : g < fd}) < kSingleRoundLoopNum}

\* Mutant: every call starts again at begin().
WalkThrough_FromBegin(closing) ==
    LET gone == Visited \cap closing
    IN  /\ pool' = [fd \in Fds |-> IF fd \in gone THEN NoNet ELSE pool[fd]]
        /\ it_cursor' = First(InPool \ gone)
        /\ UNCHANGED nid_seed

WalkThrough(closing) ==
    LET gone == Visited \cap closing
        rest == {fd \in InPool : fd >= it_cursor} \ Visited
    IN  /\ pool' = [fd \in Fds |-> IF fd \in gone THEN NoNet ELSE pool[fd]]
        /\ it_cursor' = IF rest = {} THEN First(InPool \ gone) ELSE First(rest)
        /\ UNCHANGED nid_seed
=============================================================================
