----------------------------- MODULE EventLoop ------------------------------
(***************************************************************************)
(* One daemon's event loop (framework/rapidapp_framework_imp.cpp), which   *)
(* runs one callback at a time: Tick, called by the fps timer, which fires *)
(* the timers of TimerMgr, and OnCtrlMsg, the control channel              *)
(* (ControlChannel).  A stop signal may come at any time.  OnTimer and     *)
(* every other callback may create and destroy timers.                     *)
(***************************************************************************)
EXTENDS TimerMgr, ControlChannel

VARIABLES
    loop,      \* "DISPATCH", in "TICK", "ENDED" or "CRASHED"
    running,   \* running_
    breaking   \* event_base_loopbreak has been called

loopVars == <<loop, running, breaking>>
vars == <<timerVars, ctrlVars, loopVars>>

\* MainLoop.
Init ==
    /\ TimerInit /\ ControlInit
    /\ loop = "DISPATCH" /\ running = TRUE /\ breaking = FALSE

Alive == loop \in {"DISPATCH", "TICK"}
-----------------------------------------------------------------------------
signal_stop_handler ==
    /\ Alive
    /\ running' = FALSE
    /\ UNCHANGED <<timerVars, ctrlVars, loop, breaking>>

\* Mutant: Tick does not break the loop.
TickBegins_NoBreak ==
    /\ loop = "DISPATCH"
    /\ loop' = "TICK"
    /\ UNCHANGED <<timerVars, ctrlVars, running, breaking>>

TickBegins ==
    /\ loop = "DISPATCH"
    /\ loop' = "TICK"
    /\ breaking' = ~running
    /\ UNCHANGED <<timerVars, ctrlVars, running>>

(***************************************************************************)
(* One turn of the loop over the timers, and OnTimer is called.            *)
(***************************************************************************)
FiresTimer ==
    /\ loop = "TICK"
    /\ GetNextActiveTimer
    /\ UNCHANGED <<ctrlVars, loopVars>>

(***************************************************************************)
(* The loop ends when there is no timer at all.                            *)
(***************************************************************************)
TickEnds ==
    /\ loop = "TICK"
    /\ timer_list = <<>>
    /\ loop' = IF breaking THEN "ENDED" ELSE "DISPATCH"
    /\ UNCHANGED <<timerVars, ctrlVars, running, breaking>>

CreateTimer(timer, step) ==
    /\ Alive
    /\ AddTimer(timer, step)
    /\ UNCHANGED <<ctrlVars, loopVars>>

(***************************************************************************)
(* A walk past the end of the vector reads on until the process dies.      *)
(***************************************************************************)
DestroyTimer(i) ==
    /\ Alive
    /\ IF WalkEnds(i) THEN RemoveTimer(i) /\ UNCHANGED loop
                      ELSE loop' = "CRASHED" /\ UNCHANGED timerVars
    /\ UNCHANGED <<ctrlVars, running, breaking>>

HandlesCtrlMsg ==
    /\ loop = "DISPATCH"
    /\ OnCtrlMsg
    /\ UNCHANGED <<timerVars, loopVars>>

\* From outside.
Sends(d) ==
    /\ Alive
    /\ SendDatagram(d)
    /\ UNCHANGED <<timerVars, loopVars>>

TimePasses ==
    /\ Alive
    /\ Clock
    /\ UNCHANGED <<ctrlVars, loopVars>>
-----------------------------------------------------------------------------
Next ==
    \/ signal_stop_handler
    \/ TickBegins \/ FiresTimer \/ TickEnds
    \/ HandlesCtrlMsg
    \/ \E timer \in Timers, step \in Steps : CreateTimer(timer, step)
    \/ \E i \in 1 .. Len(timer_list) : DestroyTimer(i)
    \/ \E d \in Datagrams : Sends(d)
    \/ TimePasses

(***************************************************************************)
(* libevent calls the fps timer again and again, and Tick goes on.         *)
(***************************************************************************)
Spec == Init /\ [][Next]_vars /\ WF_vars(TickBegins) /\ WF_vars(TickEnds)
-----------------------------------------------------------------------------
TypeOK ==
    /\ TimerTypeOK /\ ControlTypeOK
    /\ loop \in {"DISPATCH", "TICK", "ENDED", "CRASHED"}
    /\ running \in BOOLEAN /\ breaking \in BOOLEAN

(***************************************************************************)
(* A command reaches the listener of its first word, or the application    *)
(* when there is none, whatever earlier commands have left in ctrl_msg: if *)
(* it fits, brings its NUL along and nothing was left unread before it.    *)
(***************************************************************************)
CommandReachesListener ==
    command.to # "NOBODY" /\ command.clean /\ Whole(command.text) =>
        /\ command.argv[1] = FirstWord(command.text)
        /\ command.to = IF FirstWord(command.text) \in Supported THEN "LISTENER" ELSE "APP"

Over == loop \in {"ENDED", "CRASHED"}

(***************************************************************************)
(* A stop signal ends the loop, unless there is a timer: Tick fires timers *)
(* until there is none.                                                    *)
(***************************************************************************)
StopEndsWithoutTimers == ~running ~> Over \/ timer_list # <<>>
=============================================================================
