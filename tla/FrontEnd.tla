------------------------------ MODULE FrontEnd ------------------------------
(***************************************************************************)
(* The front-end side of class AppFrameWork                                *)
(* (framework/rapidapp_framework_imp.cpp): accepting connections, counting *)
(* what each of them sends, closing them on a socket event or on request   *)
(* of the application, the per-tick walk that closes idle and over-speed   *)
(* connections, and the lookup by (fd, nid) with which an asynchronous     *)
(* answer finds the connection it is for.                                  *)
(*                                                                         *)
(* Time is kept as the age of the last activity, capped just above the     *)
(* limit it is compared with; so are the packet and byte counters.         *)
(***************************************************************************)
EXTENDS NetHandlerMgr

CONSTANTS
    max_idle,           \* --max_idle, 0 when the limit is off
    max_pkg_speed,      \* --max_pkg_speed, 0 when the limit is off
    max_traffic_speed,  \* --max_traffic_speed, 0 when the limit is off
    Bursts,             \* what one read event brings: <<packets, bytes>>
    MaxHandles,         \* bound: asynchronous answers outstanding at once
    InitBuckets         \* buckets of the hash table before it first grows

ASSUME LimitAssumption ==
    /\ max_idle \in Nat
    /\ max_pkg_speed \in Nat
    /\ max_traffic_speed \in Nat
    /\ Bursts \subseteq Nat \X Nat
    /\ MaxHandles \in Nat
    /\ InitBuckets \in Nat

VARIABLES
    idle,          \* now_ - last_active_timestamp_ of the net under fd
    pkgs,          \* curr_pkg_count_ (prev_pkg_count_ is never anything but 0)
    bytes,         \* curr_traffic_bytes_
    handles,       \* (fd, nid) pairs carried by answers on their way
    buckets,       \* bucket_count() of the table
    cursor_valid,  \* FALSE once an insertion has rehashed the table under it_cursor_
    stale,         \* history: the handles whose connection has been deleted
    frame,         \* history: packets since the last tick
    burst,         \* history: some frame held more than max_pkg_speed packets
    lag            \* history: walks since this net was last visited

netVars == <<idle, pkgs, bytes, frame, burst, lag>>
handleVars == <<handles, stale>>
vars == <<poolVars, netVars, handleVars, buckets, cursor_valid>>

(***************************************************************************)
(* A counter is only ever compared with its limit; one whose limit is off  *)
(* is never read.                                                          *)
(***************************************************************************)
Capped(n, limit) ==
    CASE limit = 0 -> 0
      [] limit > 0 /\ n > limit -> limit + 1
      [] OTHER -> n

Handle == [fd : Fds, nid : Nat]

Init ==
    /\ PoolInit(1)
    /\ idle = [fd \in Fds |-> 0]
    /\ pkgs = [fd \in Fds |-> 0]
    /\ bytes = [fd \in Fds |-> 0]
    /\ handles = {}
    /\ stale = {}
    /\ buckets = InitBuckets
    /\ cursor_valid = TRUE
    /\ frame = [fd \in Fds |-> 0]
    /\ burst = [fd \in Fds |-> FALSE]
    /\ lag = [fd \in Fds |-> 0]

(***************************************************************************)
(* Deleting the nets of the set gone: the answers among kept that are      *)
(* still on their way to them have become stale.                           *)
(***************************************************************************)
Deleted(gone, kept) ==
    /\ handles' = kept
    /\ stale' = {h \in kept : h \in stale \/ h.fd \in gone}

ResetNet(fd) ==
    /\ idle' = [idle EXCEPT ![fd] = 0]
    /\ pkgs' = [pkgs EXCEPT ![fd] = 0]
    /\ bytes' = [bytes EXCEPT ![fd] = 0]
    /\ frame' = [frame EXCEPT ![fd] = 0]
    /\ burst' = [burst EXCEPT ![fd] = FALSE]
    /\ lag' = [lag EXCEPT ![fd] = 0]

(***************************************************************************)
(* OnFrontEndConnect: the listener accepted a connection.  The kernel      *)
(* picks a descriptor that is not open.  Inserting more entries than       *)
(* buckets rehashes the table, which invalidates every iterator.           *)
(***************************************************************************)
OnFrontEndConnect(fd) ==
    /\ pool[fd] = NoNet
    /\ AddHandlerBySocket(fd)
    /\ ResetNet(fd)
    /\ IF Cardinality(InPool) + 1 > buckets
         THEN /\ buckets' = 2 * buckets
              /\ cursor_valid' = FALSE
         ELSE UNCHANGED <<buckets, cursor_valid>>
    /\ UNCHANGED handleVars

OnFrontEndConnectFailed ==
    /\ AddHandlerFailed
    /\ UNCHANGED <<netVars, handleVars, buckets, cursor_valid>>

(***************************************************************************)
(* OnFrontEndMsg: a read event; the complete packets in the buffer are     *)
(* handed to the application and counted.  The time of last activity is    *)
(* renewed even when no packet is complete yet.                            *)
(***************************************************************************)
OnFrontEndMsg(fd, packets, size) ==
    /\ pool[fd] # NoNet
    /\ pkgs' = [pkgs EXCEPT ![fd] = Capped(@ + packets, max_pkg_speed)]
    /\ bytes' = [bytes EXCEPT ![fd] = Capped(@ + size, max_traffic_speed)]
    /\ idle' = [idle EXCEPT ![fd] = 0]
    /\ frame' = [frame EXCEPT ![fd] = Capped(@ + packets, max_pkg_speed)]
    /\ burst' = [burst EXCEPT ![fd] = @ \/ (max_pkg_speed > 0 /\ frame[fd] + packets > max_pkg_speed)]
    /\ UNCHANGED <<poolVars, lag, handleVars, buckets, cursor_valid>>

(***************************************************************************)
(* One connection goes away: the peer closed it or the socket failed       *)
(* (OnFrontEndSocketEvent), or the application gave it up                  *)
(* (DestroyFrontEnd).                                                      *)
(***************************************************************************)
CloseFrontEnd(fd) ==
    /\ pool[fd] # NoNet
    /\ RemoveHandlerByEvent(fd)
    /\ ResetNet(fd)
    /\ UNCHANGED <<buckets, cursor_valid>>

OnFrontEndSocketEvent(fd) ==
    /\ CloseFrontEnd(fd)
    /\ Deleted({fd}, handles)

(***************************************************************************)
(* GetNetIds: the application puts the ids of a connection into a request  *)
(* it sends to a back end.                                                 *)
(***************************************************************************)
GetNetIds(fd) ==
    /\ pool[fd] # NoNet
    /\ Cardinality(handles) < MaxHandles
    /\ handles' = handles \cup {[fd |-> fd, nid |-> pool[fd]]}
    /\ UNCHANGED stale
    /\ UNCHANGED <<poolVars, netVars, buckets, cursor_valid>>

(***************************************************************************)
(* The answer arrives.  Either it is dropped or its connection is found;   *)
(* the application then may answer on it (nothing changes here) or         *)
(* destroy it.                                                             *)
(***************************************************************************)
AsyncAnswer(h) ==
    /\ Deleted({}, handles \ {h})
    /\ UNCHANGED <<poolVars, netVars, buckets, cursor_valid>>

AsyncDestroy(h) ==
    /\ GetHandlerByAsyncIds(h.fd, h.nid)
    /\ CloseFrontEnd(h.fd)
    /\ Deleted({h.fd}, handles \ {h})

\* Mutant: the packet count is compared with the traffic limit.
OverLimit_WrongLimit(age, fd) ==
    \/ max_idle > 0 /\ age[fd] > max_idle
    \/ max_pkg_speed > 0 /\ pkgs[fd] > max_traffic_speed
    \/ max_traffic_speed > 0 /\ bytes[fd] > max_traffic_speed

\* Mutant: the idle limit is only looked at when no speed limit is set.
OverLimit_IdleLast(age, fd) ==
    IF max_pkg_speed > 0 \/ max_traffic_speed > 0
      THEN \/ max_pkg_speed > 0 /\ pkgs[fd] > max_pkg_speed
           \/ max_traffic_speed > 0 /\ bytes[fd] > max_traffic_speed
      ELSE max_idle > 0 /\ age[fd] > max_idle

(***************************************************************************)
(* DoSomething: what the walk asks of each connection.                     *)
(***************************************************************************)
OverLimit(age, fd) ==
    \/ max_idle > 0 /\ age[fd] > max_idle
    \/ max_pkg_speed > 0 /\ pkgs[fd] > max_pkg_speed
    \/ max_traffic_speed > 0 /\ bytes[fd] > max_traffic_speed

WalkIsOn == max_idle > 0 \/ max_pkg_speed > 0 \/ max_traffic_speed > 0

(***************************************************************************)
(* Tick, as far as connections are concerned: the clock moved by dt        *)
(* seconds, then one call of WalkThrough, whose DoSomething also zeroes    *)
(* the counters of the connections it keeps.                               *)
(***************************************************************************)
Tick(dt) ==
    LET age     == [fd \in Fds |-> IF fd \in InPool
                                     THEN Capped(idle[fd] + dt, max_idle) ELSE 0]
        closing == {fd \in InPool : OverLimit(age, fd)}
        gone    == Visited \cap closing
        seen    == Visited \ closing
    IN  /\ WalkIsOn
        /\ WalkThrough(closing)
        /\ Deleted(gone, handles)
        /\ idle' = [fd \in Fds |-> IF fd \in gone THEN 0 ELSE age[fd]]
        /\ pkgs' = [fd \in Fds |-> IF fd \in gone \/ (fd \in seen /\ max_pkg_speed > 0)
                                     THEN 0 ELSE pkgs[fd]]
        /\ bytes' = [fd \in Fds |-> IF fd \in gone \/ (fd \in seen /\ max_traffic_speed > 0)
                                      THEN 0 ELSE bytes[fd]]
        /\ frame' = [fd \in Fds |-> 0]
        /\ burst' = [fd \in Fds |-> burst[fd] /\ fd \notin gone]
        /\ lag' = [fd \in Fds |-> IF fd \in InPool \ Visited THEN lag[fd] + 1 ELSE 0]
        /\ cursor_valid' = (cursor_valid \/ {fd \in InPool : fd >= it_cursor} \subseteq Visited)
        /\ UNCHANGED buckets

Next ==
    \/ \E fd \in Fds : OnFrontEndConnect(fd)
    \/ OnFrontEndConnectFailed
    \/ \E fd \in Fds, b \in Bursts : OnFrontEndMsg(fd, b[1], b[2])
    \/ \E fd \in Fds : OnFrontEndSocketEvent(fd)
    \/ \E fd \in Fds : GetNetIds(fd)
    \/ \E h \in handles : AsyncAnswer(h)
    \/ \E h \in handles : AsyncDestroy(h)
    \/ \E dt \in {0, 1} : Tick(dt)

Spec == Init /\ [][Next]_vars

(***************************************************************************)
(* The fps timer of the event loop calls Tick again and again, and the     *)
(* wall clock moves on.                                                    *)
(***************************************************************************)
FairSpec == Spec /\ WF_vars(Tick(1))

-----------------------------------------------------------------------------
TypeOK ==
    /\ pool \in [Fds -> Nat]
    /\ nid_seed \in Nat \ {0}
    /\ it_cursor \in Fds \cup {EndFd}
    /\ idle \in [Fds -> Nat]
    /\ pkgs \in [Fds -> Nat]
    /\ bytes \in [Fds -> Nat]
    /\ handles \subseteq Handle
    /\ stale \subseteq handles
    /\ buckets \in Nat
    /\ cursor_valid \in BOOLEAN
    /\ frame \in [Fds -> Nat]
    /\ burst \in [Fds -> BOOLEAN]
    /\ lag \in [Fds -> Nat]

(***************************************************************************)
(* GetHandlerByAsyncIds finds a connection exactly when it is the one the  *)
(* ids were taken from: a late answer never reaches a connection that      *)
(* reuses the descriptor, and an answer in time always reaches its own.    *)
(***************************************************************************)
AsyncLookupExact ==
    \A h \in handles : GetHandlerByAsyncIds(h.fd, h.nid) <=> h \notin stale

(***************************************************************************)
(* The cursor never points at an entry that has been erased, whatever      *)
(* closes a connection between two walks or during one.                    *)
(***************************************************************************)
CursorInPool == it_cursor \in InPool \cup {EndFd}

(***************************************************************************)
(* The walk reaches every connection: none is passed over by more walks    *)
(* than it takes to go once through the table and to start again, although *)
(* connections come and go on both sides of the cursor.                    *)
(***************************************************************************)
WalkLagBounded ==
    \A fd \in InPool :
        lag[fd] <= (Cardinality(Fds) - 1) \div kSingleRoundLoopNum + 1

(***************************************************************************)
(* A connection that sent more than max_pkg_speed packets in one frame is  *)
(* closed, however the walk is cut into ticks.  (The converse fails: the   *)
(* counter is reset by the walk only, so packets of several frames add up  *)
(* while the walk is elsewhere.)                                           *)
(***************************************************************************)
OverSpeedIsClosed ==
    \A fd \in Fds : burst[fd] ~> ~burst[fd]

(***************************************************************************)
(* A connection that stays silent for longer than max_idle is closed: its  *)
(* idle time goes back to 0 only by activity or by removal.                *)
(***************************************************************************)
IdleIsClosed ==
    \A fd \in Fds : (max_idle > 0 /\ idle[fd] > max_idle) ~> idle[fd] = 0

(***************************************************************************)
(* WalkThrough only dereferences a valid iterator.  The comment in         *)
(* RemoveHandlerByEvent shows the intent: the cursor is moved on before    *)
(* its entry is erased.                                                    *)
(***************************************************************************)
WalkOnValidCursor ==
    [][(\E dt \in {0, 1} : Tick(dt)) /\ it_cursor # EndFd => cursor_valid]_vars
=============================================================================
