---------------------------- MODULE AppLifecycle ----------------------------
(***************************************************************************)
(* Starting, stopping, restarting and reloading a rapidapp daemon:         *)
(* AppLauncher::Run (framework/rapidapp_core.cpp) and the life cycle part  *)
(* of class AppFrameWork (framework/rapidapp_framework_imp.cpp).           *)
(*                                                                         *)
(* Any number of processes of the same application share one pid file.     *)
(* Each is launched once, in one of four modes.  A process that asks for   *)
(* a running daemon probes the lock on the pid file, reads the pid and     *)
(* sends a signal; a daemon takes the lock, writes its pid, installs its   *)
(* signal handlers, initialises and runs the event loop, where Tick looks  *)
(* at the flags the handlers set.  System calls of different processes     *)
(* interleave, so every step of pc is one system call or handler.          *)
(***************************************************************************)
EXTENDS Naturals, FiniteSets

CONSTANTS
    Procs,    \* process ids
    Modes,    \* modes a process may be launched in
    MayInitFail  \* TRUE: configuration, ports or OnInit may fail

ASSUME ProcsAssumption == Procs \subseteq Nat \ {0}
ASSUME ModesAssumption ==
    /\ Modes \subseteq {"APP_START", "APP_STOP", "APP_RESTART", "APP_RELOAD"}
    /\ MayInitFail \in BOOLEAN

VARIABLES
    pc,          \* per process: where it is
    mode,        \* per process: setting_.mode
    wrlock,      \* the process that holds the write lock on the pid file, or 0
    rdlocks,     \* the processes that hold a read lock on it
    exists,      \* the pid file exists
    text,        \* the pid in it, or 0 when it is empty
    target,      \* per process: the pid it has read
    running,     \* per process: running_
    reloading,   \* per process: reloading_
    breaking,    \* per process: event_base_loopbreak has been called in this tick
    pending      \* history: processes with a SIGUSR2, taken outside of OnReload,
                 \* that no OnReload has followed

fileVars == <<wrlock, rdlocks, exists, text>>
flagVars == <<running, reloading, breaking>>
vars == <<pc, mode, fileVars, target, flagVars, pending>>

NoProc == 0

(***************************************************************************)
(* Where a process stands after SetPidFile, and after it wrote its pid.    *)
(***************************************************************************)
Named == {"written", "handlers", "loop", "reload", "fini"}
Holding == Named \cup {"locked", "truncated"}
Handling == {"handlers", "loop", "reload", "fini"}

Init ==
    /\ pc = [p \in Procs |-> "none"]
    /\ mode = [p \in Procs |-> "APP_START"]
    /\ wrlock = NoProc
    /\ rdlocks = {}
    /\ exists = FALSE
    /\ text = NoProc
    /\ target = [p \in Procs |-> NoProc]
    /\ running = [p \in Procs |-> FALSE]
    /\ reloading = [p \in Procs |-> FALSE]
    /\ breaking = [p \in Procs |-> FALSE]
    /\ pending = {}

Goto(p, place) == pc' = [pc EXCEPT ![p] = place]

(***************************************************************************)
(* ParseCmdLine: the mode decides whether a running daemon is looked for.  *)
(***************************************************************************)
Launch(p, m) ==
    /\ pc[p] = "none"
    /\ mode' = [mode EXCEPT ![p] = m]
    /\ Goto(p, IF m = "APP_START" THEN "start" ELSE "probe")
    /\ UNCHANGED <<fileVars, target, flagVars, pending>>

-----------------------------------------------------------------------------
(***************************************************************************)
(* GetRunningPid: try to take a read lock on the pid file.  It is granted  *)
(* when no daemon runs, and given back by fclose.                          *)
(***************************************************************************)
ProbeLock(p) ==
    /\ pc[p] = "probe"
    /\ \/ /\ ~exists
          /\ Goto(p, "exited")
          /\ UNCHANGED rdlocks
       \/ /\ exists /\ wrlock = NoProc
          /\ Goto(p, "granted")
          /\ rdlocks' = rdlocks \cup {p}
       \/ /\ exists /\ wrlock # NoProc
          /\ Goto(p, "read")
          /\ UNCHANGED rdlocks
    /\ UNCHANGED <<mode, wrlock, exists, text, target, flagVars, pending>>

(***************************************************************************)
(* What Init does once it knows the pid: a restart goes on to start.       *)
(***************************************************************************)
AfterSignal(p) == Goto(p, IF mode[p] = "APP_RESTART" THEN "start" ELSE "exited")

NobodyRuns(p) ==
    /\ pc[p] = "granted"
    /\ rdlocks' = rdlocks \ {p}
    /\ AfterSignal(p)
    /\ UNCHANGED <<mode, wrlock, exists, text, target, flagVars, pending>>

ReadPid(p) ==
    /\ pc[p] = "read"
    /\ target' = [target EXCEPT ![p] = text]
    /\ Goto(p, IF text = NoProc THEN "exited" ELSE "kill")
    /\ UNCHANGED <<mode, fileVars, flagVars, pending>>

(***************************************************************************)
(* kill(): a process that has installed its handlers notes the request; a  *)
(* process that has not yet is terminated by the default action; a process *)
(* that is gone takes no notice.                                           *)
(***************************************************************************)
Kill(p) ==
    LET q == target[p]
        stops == mode[p] # "APP_RELOAD"
        alive == pc[q] \notin {"none", "exited"}
        next == IF mode[p] = "APP_RESTART" THEN "start" ELSE "exited"
    IN  /\ pc[p] = "kill"
        /\ \/ /\ pc[q] \in Handling
              /\ running' = [running EXCEPT ![q] = @ /\ ~stops]
              /\ reloading' = [reloading EXCEPT ![q] = @ \/ ~stops]
              /\ Goto(p, next)
              /\ UNCHANGED <<wrlock, rdlocks>>
           \/ /\ pc[q] \notin Handling
              /\ pc' = [pc EXCEPT ![p] = next, ![q] = IF alive THEN "exited" ELSE @]
              /\ wrlock' = IF wrlock = q THEN NoProc ELSE wrlock
              /\ rdlocks' = rdlocks \ {q}
              /\ UNCHANGED <<running, reloading>>
        /\ pending' = IF ~stops /\ pc[q] \in Handling \ {"reload"}
                        THEN pending \cup {q} ELSE pending
        /\ UNCHANGED <<mode, exists, text, target, breaking>>

-----------------------------------------------------------------------------
\* Mutant: the pid file is opened with mode "w+", which truncates it.
SetPidFile_Truncates(p) ==
    /\ pc[p] = "start"
    /\ exists' = TRUE
    /\ text' = NoProc
    /\ IF wrlock = NoProc /\ rdlocks = {}
         THEN Goto(p, "locked") /\ wrlock' = p
         ELSE Goto(p, "exited") /\ UNCHANGED wrlock
    /\ UNCHANGED <<mode, rdlocks, target, flagVars, pending>>

\* Mutant: the lock is not taken.
SetPidFile_NoLock(p) ==
    /\ pc[p] = "start"
    /\ exists' = TRUE
    /\ Goto(p, "locked")
    /\ wrlock' = p
    /\ UNCHANGED <<mode, rdlocks, text, target, flagVars, pending>>

\* Mutant: the pid is written before the lock is tried.
SetPidFile_WritesFirst(p) ==
    /\ pc[p] = "start"
    /\ exists' = TRUE
    /\ text' = p
    /\ IF wrlock = NoProc /\ rdlocks = {}
         THEN Goto(p, "written") /\ wrlock' = p
         ELSE Goto(p, "init_failed") /\ UNCHANGED wrlock
    /\ UNCHANGED <<mode, rdlocks, target, flagVars, pending>>

(***************************************************************************)
(* SetPidFile: open (mode "a" creates the file and keeps its text) and     *)
(* lock; the lock fails while another process holds one, of either kind.   *)
(***************************************************************************)
SetPidFile(p) ==
    /\ pc[p] = "start"
    /\ exists' = TRUE
    /\ IF wrlock = NoProc /\ rdlocks = {}
         THEN Goto(p, "locked") /\ wrlock' = p
         ELSE Goto(p, "exited") /\ UNCHANGED wrlock
    /\ UNCHANGED <<mode, rdlocks, text, target, flagVars, pending>>

Ftruncate(p) ==
    /\ pc[p] = "locked"
    /\ text' = NoProc
    /\ Goto(p, "truncated")
    /\ UNCHANGED <<mode, wrlock, rdlocks, exists, target, flagVars, pending>>

WritePid(p) ==
    /\ pc[p] = "truncated"
    /\ text' = p
    /\ Goto(p, "written")
    /\ UNCHANGED <<mode, wrlock, rdlocks, exists, target, flagVars, pending>>

InitSignalHandle(p) ==
    /\ pc[p] = "written"
    /\ Goto(p, "handlers")
    /\ UNCHANGED <<mode, fileVars, target, flagVars, pending>>

(***************************************************************************)
(* The process ends and its lock with it.                                  *)
(***************************************************************************)
Exit(p) ==
    /\ Goto(p, "exited")
    /\ wrlock' = IF wrlock = p THEN NoProc ELSE wrlock
    /\ UNCHANGED <<mode, rdlocks, exists, text, target, flagVars, pending>>

(***************************************************************************)
(* The error returns of InitNormalMode before the pid file and after the   *)
(* signal handlers, and those of OnInit.                                   *)
(***************************************************************************)
InitFailed(p) ==
    /\ MayInitFail
    /\ pc[p] \in {"start", "handlers"}
    /\ Exit(p)

\* Mutant: both flags are set to their initial values.
MainLoop_ResetsBoth(p) ==
    /\ pc[p] = "handlers"
    /\ running' = [running EXCEPT ![p] = TRUE]
    /\ reloading' = [reloading EXCEPT ![p] = FALSE]
    /\ Goto(p, "loop")
    /\ UNCHANGED <<mode, fileVars, target, breaking, pending>>

(***************************************************************************)
(* Everything else is initialised; MainLoop sets running_ and dispatches.  *)
(***************************************************************************)
MainLoop(p) ==
    /\ pc[p] = "handlers"
    /\ running' = [running EXCEPT ![p] = TRUE]
    /\ Goto(p, "loop")
    /\ UNCHANGED <<mode, fileVars, target, reloading, breaking, pending>>

-----------------------------------------------------------------------------
\* Mutant: a stop request is looked at only when nothing has to be reloaded,
\* and forgotten otherwise.
Tick_ReloadFirst(p) ==
    /\ pc[p] = "loop"
    /\ running' = [running EXCEPT ![p] = @ \/ reloading[p]]
    /\ pending' = IF reloading[p] THEN pending \ {p} ELSE pending
    /\ Goto(p, IF reloading[p] THEN "reload" ELSE IF running[p] THEN "loop" ELSE "fini")
    /\ UNCHANGED <<mode, fileVars, target, breaking, reloading>>

(***************************************************************************)
(* Tick: the two flags are looked at in this order; a stop request still   *)
(* lets the tick finish.  With no request a tick changes nothing.          *)
(***************************************************************************)
Tick(p) ==
    /\ pc[p] = "loop"
    /\ breaking' = [breaking EXCEPT ![p] = ~running[p]]
    /\ pending' = IF reloading[p] THEN pending \ {p} ELSE pending
    /\ Goto(p, IF reloading[p] THEN "reload" ELSE IF running[p] THEN "loop" ELSE "fini")
    /\ UNCHANGED <<mode, fileVars, target, running, reloading>>

(***************************************************************************)
(* OnReload returns; only now is the flag cleared.                         *)
(***************************************************************************)
ReloadDone(p) ==
    /\ pc[p] = "reload"
    /\ reloading' = [reloading EXCEPT ![p] = FALSE]
    /\ Goto(p, IF breaking[p] THEN "fini" ELSE "loop")
    /\ UNCHANGED <<mode, fileVars, target, running, breaking, pending>>

(***************************************************************************)
(* OnFini, CleanUp and the end of the process.                             *)
(***************************************************************************)
CleanUp(p) ==
    /\ pc[p] = "fini"
    /\ Exit(p)

-----------------------------------------------------------------------------
Command(p) == ProbeLock(p) \/ NobodyRuns(p) \/ ReadPid(p) \/ Kill(p)
StartUp(p) == SetPidFile(p) \/ Ftruncate(p) \/ WritePid(p) \/ InitSignalHandle(p) \/ MainLoop(p)
Serve(p) == Tick(p) \/ ReloadDone(p) \/ CleanUp(p)

Next ==
    \E p \in Procs :
        \/ \E m \in Modes : Launch(p, m)
        \/ Command(p) \/ StartUp(p) \/ InitFailed(p) \/ Serve(p)

Spec == Init /\ [][Next]_vars

(***************************************************************************)
(* A process that has been launched is scheduled; the fps timer calls Tick.*)
(***************************************************************************)
FairSpec ==
    Spec /\ \A p \in Procs : WF_vars(Command(p)) /\ WF_vars(StartUp(p)) /\ WF_vars(Serve(p))

-----------------------------------------------------------------------------
TypeOK ==
    /\ pc \in [Procs -> {"none", "probe", "granted", "read", "kill", "start", "exited"}
                        \cup Holding]
    /\ mode \in [Procs -> {"APP_START", "APP_STOP", "APP_RESTART", "APP_RELOAD"}]
    /\ wrlock \in Procs \cup {NoProc}
    /\ rdlocks \subseteq Procs
    /\ exists \in BOOLEAN
    /\ text \in Procs \cup {NoProc}
    /\ target \in [Procs -> Procs \cup {NoProc}]
    /\ running \in [Procs -> BOOLEAN]
    /\ reloading \in [Procs -> BOOLEAN]
    /\ breaking \in [Procs -> BOOLEAN]
    /\ pending \subseteq Procs

(***************************************************************************)
(* At most one process of the application initialises or serves: the lock  *)
(* that SetPidFile takes outlives every path to the end of the process.    *)
(***************************************************************************)
OneDaemon ==
    \A p, q \in Procs : pc[p] \in Holding /\ pc[q] \in Holding => p = q

(***************************************************************************)
(* The pid file names the daemon from the moment it wrote its pid until it *)
(* has ended, whoever else is started, stopped or probing meanwhile.       *)
(***************************************************************************)
PidFileNamesDaemon ==
    \A p \in Procs : pc[p] \in Named => exists /\ text = p

(***************************************************************************)
(* A signal is only ever sent to a process that has been the daemon, never *)
(* to one that is just a command or has failed to become the daemon while  *)
(* another one runs.                                                       *)
(***************************************************************************)
KillHitsDaemon ==
    \A p \in Procs : pc[p] = "kill" =>
        target[p] # NoProc /\ pc[target[p]] \in Named \cup {"exited"}

(***************************************************************************)
(* A daemon that is in its main loop when the stop signal arrives ends,    *)
(* whatever is reloaded meanwhile.  (A stop signal before that is lost:    *)
(* MainLoop sets running_ again.)                                          *)
(***************************************************************************)
StopEnds ==
    \A p \in Procs : (pc[p] \in {"loop", "reload"} /\ ~running[p]) ~> pc[p] = "exited"

(***************************************************************************)
(* --restart: "restart the daemon according to pid file".  A restart that  *)
(* has found the daemon replaces it: the old one ends and a daemon serves, *)
(* when nobody asks for a stop and no initialisation fails.                *)
(***************************************************************************)
RestartLeavesDaemon ==
    \A p, old \in Procs :
        (pc[p] = "kill" /\ mode[p] = "APP_RESTART" /\ target[p] = old) ~>
            (pc[old] = "exited" /\ \E q \in Procs : pc[q] \in Handling)

(***************************************************************************)
(* Every reload signal that the daemon takes from InitSignalHandle on is   *)
(* followed by an OnReload, even when a stop signal comes with it, unless  *)
(* the daemon ends first.  The signals that arrive while OnReload runs are *)
(* left out: Tick clears reloading_ after OnReload and forgets them.       *)
(***************************************************************************)
ReloadIsHandled ==
    \A p \in Procs : p \in pending ~> (p \notin pending \/ pc[p] = "exited")
=============================================================================
