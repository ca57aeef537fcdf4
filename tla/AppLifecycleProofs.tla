------------------------- MODULE AppLifecycleProofs -------------------------
(***************************************************************************)
(* Proofs about AppLifecycle for any set of processes and modes.           *)
(***************************************************************************)
EXTENDS AppLifecycle, TLAPS

(***************************************************************************)
(* The inductive invariant.  The write lock belongs to exactly the         *)
(* processes that are past SetPidFile; the file keeps the pid of the last  *)
(* process that wrote it, which is the lock holder from that moment on.    *)
(***************************************************************************)
LockInv == \A p \in Procs : pc[p] \in Holding <=> wrlock = p

FileInv ==
    /\ \A p \in Procs : pc[p] \in Holding => exists
    /\ \A p \in Procs : pc[p] \in Named => text = p
    /\ text # NoProc => pc[text] \in Named \cup {"exited"}

TargetInv == KillHitsDaemon

LInv == TypeOK /\ LockInv /\ FileInv /\ TargetInv

(***************************************************************************)
(* 0 is not a process id.                                                  *)
(***************************************************************************)
LEMMA NoProcIsNoProcess == NoProc \notin Procs
  BY ProcsAssumption DEF NoProc

(***************************************************************************)
(* The initial states satisfy the invariant.                               *)
(***************************************************************************)
LEMMA InitLInv == Init => LInv
<1> SUFFICES ASSUME Init PROVE LInv
  OBVIOUS
<1>1. TypeOK
  BY DEF Init, TypeOK, Holding, Named
<1>2. LockInv
  BY NoProcIsNoProcess DEF Init, LockInv, Holding, Named
<1>3. FileInv
  BY DEF Init, FileInv, Holding, Named
<1>4. TargetInv
  BY DEF Init, TargetInv, KillHitsDaemon
<1> QED
  BY <1>1, <1>2, <1>3, <1>4 DEF LInv

(***************************************************************************)
(* Launching a process and the steps of a command that send no signal.     *)
(***************************************************************************)
LEMMA CommandKeepsLInv ==
    ASSUME LInv, NEW p \in Procs,
           (\E m \in Modes : Launch(p, m)) \/ ProbeLock(p) \/ NobodyRuns(p) \/ ReadPid(p)
    PROVE  LInv'
<1> USE NoProcIsNoProcess
<1>1. CASE \E m \in Modes : Launch(p, m)
  <2> PICK m \in Modes : Launch(p, m)
    BY <1>1
  <2>1. TypeOK'
    BY ModesAssumption DEF LInv, TypeOK, Launch, Goto, fileVars, flagVars, Holding, Named
  <2>2. LockInv' /\ FileInv' /\ TargetInv'
    BY DEF LInv, TypeOK, Launch, Goto, fileVars, flagVars, Holding, Named,
           LockInv, FileInv, TargetInv, KillHitsDaemon
  <2> QED
    BY <2>1, <2>2 DEF LInv
<1>2. CASE ProbeLock(p)
  <2>1. TypeOK'
    BY <1>2 DEF LInv, TypeOK, ProbeLock, Goto, flagVars, Holding, Named
  <2>2. LockInv' /\ FileInv' /\ TargetInv'
    BY <1>2 DEF LInv, TypeOK, ProbeLock, Goto, flagVars, Holding, Named,
           LockInv, FileInv, TargetInv, KillHitsDaemon
  <2> QED
    BY <2>1, <2>2 DEF LInv
<1>3. CASE NobodyRuns(p)
  <2>1. TypeOK'
    BY <1>3 DEF LInv, TypeOK, NobodyRuns, AfterSignal, Goto, flagVars, Holding, Named
  <2>2. LockInv' /\ FileInv' /\ TargetInv'
    BY <1>3 DEF LInv, TypeOK, NobodyRuns, AfterSignal, Goto, flagVars, Holding, Named,
           LockInv, FileInv, TargetInv, KillHitsDaemon
  <2> QED
    BY <2>1, <2>2 DEF LInv
<1>4. CASE ReadPid(p)
  <2>1. TypeOK'
    BY <1>4 DEF LInv, TypeOK, ReadPid, Goto, fileVars, flagVars, Holding, Named
  <2>2. LockInv' /\ FileInv'
    BY <1>4 DEF LInv, TypeOK, ReadPid, Goto, fileVars, flagVars, Holding, Named,
           LockInv, FileInv
  <2>3. TargetInv'
    BY <1>4 DEF LInv, TypeOK, ReadPid, Goto, fileVars, Holding, Named, FileInv,
           TargetInv, KillHitsDaemon
  <2> QED
    BY <2>1, <2>2, <2>3 DEF LInv
<1> QED
  BY <1>1, <1>2, <1>3, <1>4

(***************************************************************************)
(* A signal either leaves every place but the sender's alone or ends the   *)
(* process it is sent to, and then frees that process's lock.              *)
(***************************************************************************)
LEMMA KillKeepsLInv ==
    ASSUME LInv, NEW p \in Procs, Kill(p)
    PROVE  LInv'
<1> DEFINE q == target[p]
           next == IF mode[p] = "APP_RESTART" THEN "start" ELSE "exited"
<1> USE NoProcIsNoProcess
<1>1. /\ pc[p] = "kill" /\ q \in Procs /\ q # p
      /\ pc[q] \in Named \cup {"exited"}
  BY DEF LInv, TypeOK, TargetInv, KillHitsDaemon, Kill, Named
<1>2. \/ pc' = [pc EXCEPT ![p] = next] /\ UNCHANGED <<wrlock, rdlocks>>
      \/ /\ pc[q] \notin Handling
         /\ pc' = [pc EXCEPT ![p] = next, ![q] = "exited"]
         /\ wrlock' = (IF wrlock = q THEN NoProc ELSE wrlock)
         /\ rdlocks' = rdlocks \ {q}
  BY <1>1 DEF Kill, Goto, LInv, TypeOK, Named, Handling
<1>3. UNCHANGED <<mode, exists, text, target, breaking>>
  BY DEF Kill
<1>4. TypeOK'
  <2>1. /\ pc' \in [Procs -> {"none", "probe", "granted", "read", "kill", "start", "exited"}
                             \cup Holding]
        /\ wrlock' \in Procs \cup {NoProc} /\ rdlocks' \subseteq Procs
    BY <1>1, <1>2 DEF LInv, TypeOK
  <2>2. /\ running' \in [Procs -> BOOLEAN] /\ reloading' \in [Procs -> BOOLEAN]
    BY <1>1, Zenon DEF LInv, TypeOK, Kill
  <2>3. pending' \subseteq Procs
    BY <1>1 DEF LInv, TypeOK, Kill
  <2> QED
    BY <1>3, <2>1, <2>2, <2>3 DEF LInv, TypeOK
<1>5. LockInv'
  BY <1>1, <1>2 DEF LInv, TypeOK, LockInv, Holding, Named
<1>6. FileInv'
  BY <1>1, <1>2, <1>3 DEF LInv, TypeOK, FileInv, Holding, Named
<1>7. TargetInv'
  BY <1>1, <1>2, <1>3 DEF LInv, TypeOK, TargetInv, KillHitsDaemon, Holding, Named
<1> QED
  BY <1>4, <1>5, <1>6, <1>7 DEF LInv

(***************************************************************************)
(* A process becomes the daemon.                                           *)
(***************************************************************************)
LEMMA StartUpKeepsLInv ==
    ASSUME LInv, NEW p \in Procs, StartUp(p)
    PROVE  LInv'
<1> USE NoProcIsNoProcess
<1>1. CASE SetPidFile(p)
  <2>1. TypeOK'
    BY <1>1 DEF LInv, TypeOK, SetPidFile, Goto, flagVars, Holding, Named
  <2>2. LockInv' /\ FileInv' /\ TargetInv'
    BY <1>1 DEF LInv, TypeOK, SetPidFile, Goto, flagVars, Holding, Named,
           LockInv, FileInv, TargetInv, KillHitsDaemon
  <2> QED
    BY <2>1, <2>2 DEF LInv
<1>2. CASE Ftruncate(p) \/ WritePid(p)
  <2>1. TypeOK'
    BY <1>2 DEF LInv, TypeOK, Ftruncate, WritePid, Goto, flagVars, Holding, Named
  <2>2. \A r \in Procs : pc[r] \in Holding => r = p
    BY <1>2 DEF LInv, LockInv, Ftruncate, WritePid, Holding, Named
  <2>3. LockInv' /\ FileInv' /\ TargetInv'
    BY <1>2, <2>2 DEF LInv, TypeOK, Ftruncate, WritePid, Goto, flagVars, Holding,
           Named, LockInv, FileInv, TargetInv, KillHitsDaemon
  <2> QED
    BY <2>1, <2>3 DEF LInv
<1>3. CASE InitSignalHandle(p) \/ MainLoop(p)
  <2>1. TypeOK'
    <3>1. running' \in [Procs -> BOOLEAN]
      BY <1>3, Zenon DEF LInv, TypeOK, InitSignalHandle, MainLoop, flagVars
    <3>2. pc' \in [Procs -> {"none", "probe", "granted", "read", "kill", "start", "exited"}
                            \cup Holding]
      BY <1>3 DEF LInv, TypeOK, InitSignalHandle, MainLoop, Goto, Holding, Named
    <3> QED
      BY <1>3, <3>1, <3>2 DEF LInv, TypeOK, InitSignalHandle, MainLoop, fileVars, flagVars
  <2>2. LockInv' /\ FileInv' /\ TargetInv'
    BY <1>3 DEF LInv, TypeOK, InitSignalHandle, MainLoop, Goto, fileVars, flagVars,
           Holding, Named, LockInv, FileInv, TargetInv, KillHitsDaemon
  <2> QED
    BY <2>1, <2>2 DEF LInv
<1> QED
  BY <1>1, <1>2, <1>3 DEF StartUp

(***************************************************************************)
(* The daemon serves and ends.                                             *)
(***************************************************************************)
LEMMA ServeKeepsLInv ==
    ASSUME LInv, NEW p \in Procs, Serve(p) \/ InitFailed(p)
    PROVE  LInv'
<1> USE NoProcIsNoProcess
<1>1. CASE Tick(p) \/ ReloadDone(p)
  <2>1. \E place \in {"loop", "reload", "fini"} : pc' = [pc EXCEPT ![p] = place]
    BY <1>1 DEF Tick, ReloadDone, Goto
  <2>2. pc[p] \in {"loop", "reload"}
    BY <1>1 DEF Tick, ReloadDone
  <2>3. UNCHANGED <<mode, fileVars, target, running>>
    BY <1>1 DEF Tick, ReloadDone
  <2>4. TypeOK'
    <3>1. reloading' \in [Procs -> BOOLEAN] /\ breaking' \in [Procs -> BOOLEAN]
      BY <1>1, Zenon DEF LInv, TypeOK, Tick, ReloadDone
    <3>2. pending' \subseteq Procs
      BY <1>1 DEF LInv, TypeOK, Tick, ReloadDone
    <3>3. pc' \in [Procs -> {"none", "probe", "granted", "read", "kill", "start", "exited"}
                            \cup Holding]
      BY <2>1 DEF LInv, TypeOK, Holding, Named
    <3> QED
      BY <2>3, <3>1, <3>2, <3>3 DEF LInv, TypeOK, fileVars
  <2>5. LockInv' /\ FileInv' /\ TargetInv'
    BY <2>1, <2>2, <2>3 DEF LInv, TypeOK, fileVars, Holding, Named,
           LockInv, FileInv, TargetInv, KillHitsDaemon
  <2> QED
    BY <2>4, <2>5 DEF LInv
<1>2. CASE InitFailed(p) \/ CleanUp(p)
  <2>1. Exit(p) /\ pc[p] \in {"start", "handlers", "fini"}
    BY <1>2 DEF InitFailed, CleanUp
  <2>2. TypeOK'
    BY <2>1 DEF LInv, TypeOK, Exit, Goto, flagVars, Holding, Named
  <2>3. LockInv' /\ FileInv' /\ TargetInv'
    BY <2>1 DEF LInv, TypeOK, Exit, Goto, flagVars, Holding, Named,
           LockInv, FileInv, TargetInv, KillHitsDaemon
  <2> QED
    BY <2>2, <2>3 DEF LInv
<1> QED
  BY <1>1, <1>2 DEF Serve

(***************************************************************************)
(* Every step preserves the invariant.                                     *)
(***************************************************************************)
LEMMA NextKeepsLInv == LInv /\ [Next]_vars => LInv'
<1> SUFFICES ASSUME LInv, [Next]_vars PROVE LInv'
  OBVIOUS
<1>1. CASE Next
  <2> PICK p \in Procs : \/ \E m \in Modes : Launch(p, m)
                         \/ Command(p) \/ StartUp(p) \/ InitFailed(p) \/ Serve(p)
    BY <1>1 DEF Next
  <2> QED
    BY CommandKeepsLInv, KillKeepsLInv, StartUpKeepsLInv, ServeKeepsLInv DEF Command
<1>2. CASE UNCHANGED vars
  <2>1. TypeOK'
    BY <1>2 DEF LInv, TypeOK, vars, fileVars, flagVars
  <2>2. LockInv' /\ FileInv' /\ TargetInv'
    BY <1>2 DEF LInv, LockInv, FileInv, TargetInv, KillHitsDaemon, vars, fileVars
  <2> QED
    BY <2>1, <2>2 DEF LInv
<1> QED
  BY <1>1, <1>2

(***************************************************************************)
(* What the invariant says about the daemon.                               *)
(***************************************************************************)
LEMMA LInvImplies == LInv => TypeOK /\ OneDaemon /\ PidFileNamesDaemon /\ KillHitsDaemon
<1> SUFFICES ASSUME LInv PROVE TypeOK /\ OneDaemon /\ PidFileNamesDaemon /\ KillHitsDaemon
  OBVIOUS
<1>1. TypeOK /\ KillHitsDaemon
  BY DEF LInv, TargetInv
<1>2. OneDaemon
  BY DEF LInv, LockInv, OneDaemon
<1>3. PidFileNamesDaemon
  BY DEF LInv, FileInv, PidFileNamesDaemon, Holding
<1> QED
  BY <1>1, <1>2, <1>3

(***************************************************************************)
(* Every behaviour satisfies the invariant.                                *)
(***************************************************************************)
LEMMA AlwaysLInv == Spec => []LInv
  BY InitLInv, NextKeepsLInv, PTL DEF Spec

(***************************************************************************)
(* However many processes are launched, and however their system calls     *)
(* interleave, at most one is past SetPidFile.                             *)
(***************************************************************************)
THEOREM AtMostOneDaemon == Spec => []OneDaemon
  BY AlwaysLInv, LInvImplies, PTL

(***************************************************************************)
(* The pid file always names the daemon that has written its pid.          *)
(***************************************************************************)
THEOREM PidFileCorrect == Spec => []PidFileNamesDaemon
  BY AlwaysLInv, LInvImplies, PTL

(***************************************************************************)
(* A stop, restart or reload signal is only ever sent to a process that    *)
(* was the daemon when it wrote the pid file.                              *)
(***************************************************************************)
THEOREM SignalsHitDaemon == Spec => []KillHitsDaemon
  BY AlwaysLInv, LInvImplies, PTL

(***************************************************************************)
(* Every process stands at one of the places of the model, its signals and *)
(* the flags of its handlers keep their types, the lock has one holder at  *)
(* most and the pid file names a process or none.                          *)
(***************************************************************************)
THEOREM LifecycleTypes == Spec => []TypeOK
  BY AlwaysLInv, LInvImplies, PTL
=============================================================================
