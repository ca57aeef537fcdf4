------------------------------ MODULE TimerMgr ------------------------------
(***************************************************************************)
(* The timers of the framework: class TimerMgr                             *)
(* (framework/rapidapp_timer_mgr.cpp) and class EasyTimer                  *)
(* (framework/rapidapp_easy_timer.h).  Timers are kept in a vector sorted  *)
(* by the time of their next activity.  EventLoop calls these operations.  *)
(***************************************************************************)
EXTENDS Naturals, Sequences, FiniteSets, SequencesExt

CONSTANTS
    Timers,         \* EasyTimer objects
    Steps,          \* values of time_step_
    max_timer_num,  \* limit of the list
    MaxTime         \* bound: clock and next_active_timestamp_

ASSUME TimerAssumption ==
    /\ Steps \subseteq Nat \ {0}       \* AddTimer refuses a gap of 0
    /\ max_timer_num \in Nat /\ MaxTime \in Nat

VARIABLES
    timer_list,   \* timer_list_: records [timer, step, next]
    now           \* the wall clock, in seconds

timerVars == <<timer_list, now>>

TimerInit == timer_list = <<>> /\ now = 0

\* Mutant: the comparison of timer_cmp_func is turned around.
UpperBound_Reversed(list, next) ==
    Cardinality({i \in 1 .. Len(list) : list[i].next >= next})

(***************************************************************************)
(* upper_bound: the number of timers that stay in front of a timer that is *)
(* due at next.                                                            *)
(***************************************************************************)
UpperBound(list, next) == Cardinality({i \in 1 .. Len(list) : list[i].next <= next})

(***************************************************************************)
(* EasyTimer: Start sets the first deadline, Step the next one.            *)
(***************************************************************************)
Start(timer, step) == [timer |-> timer, step |-> step, next |-> now + step]
Step(t) == [t EXCEPT !.next = @ + t.step]

Insert(list, t) == InsertAt(list, UpperBound(list, t.next) + 1, t)

(***************************************************************************)
(* CreateTimer -> AddTimer -> Start.                                       *)
(***************************************************************************)
AddTimer(timer, step) ==
    /\ Len(timer_list) < max_timer_num
    /\ \A i \in 1 .. Len(timer_list) : timer_list[i].timer # timer   \* a new object
    /\ now + step <= MaxTime
    /\ timer_list' = Insert(timer_list, Start(timer, step))
    /\ UNCHANGED now

(***************************************************************************)
(* DestroyTimer -> RemoveTimer.  The walk goes on behind the erased timer: *)
(* when that was the last one it has passed the end and does not stop.     *)
(***************************************************************************)
WalkEnds(i) == i < Len(timer_list)

RemoveTimer(i) ==
    /\ timer_list' = RemoveAt(timer_list, i)
    /\ UNCHANGED now

(***************************************************************************)
(* GetNextActiveTimer takes the first timer, moves it on by its step and   *)
(* sorts it in again.  It does not look at the clock.                      *)
(***************************************************************************)
GetNextActiveTimer ==
    LET t == Head(timer_list)
    IN  /\ timer_list # <<>>
        /\ t.next + t.step <= MaxTime
        /\ timer_list' = Insert(Tail(timer_list), Step(t))
        /\ UNCHANGED now

Clock ==
    /\ now < MaxTime
    /\ now' = now + 1
    /\ UNCHANGED timer_list
-----------------------------------------------------------------------------
TimerTypeOK ==
    /\ timer_list \in Seq([timer : Timers, step : Steps, next : 0 .. MaxTime])
    /\ now \in 0 .. MaxTime
    /\ \A i, j \in 1 .. Len(timer_list) : timer_list[i].timer = timer_list[j].timer => i = j

(***************************************************************************)
(* The list is sorted by deadline after every operation, so its head is    *)
(* the timer that is due first (upper_bound needs this to be so).          *)
(***************************************************************************)
ListSorted ==
    \A i, j \in 1 .. Len(timer_list) : i < j => timer_list[i].next <= timer_list[j].next
=============================================================================
