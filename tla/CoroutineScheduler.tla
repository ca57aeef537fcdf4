------------------------- MODULE CoroutineScheduler -------------------------
(***************************************************************************)
(* Class CoroutineScheduler (coroutine/mc_coroutine.cpp): asymmetric       *)
(* coroutines on ucontext.                                                 *)
(*                                                                         *)
(* One context has the processor: the main one, which runs the event loop, *)
(* or a coroutine.  There is ONE saved context to go back to, main_ctx_:   *)
(* every ResumeCoroutine stores its caller there, and both YieldCoroutine  *)
(* and the end of a coroutine (uc_link) continue what is stored there.     *)
(*                                                                         *)
(* The operators describe what a context does up to the next switch.       *)
(***************************************************************************)
EXTENDS Integers, FiniteSets

CONSTANTS
    coroutine_max,  \* coroutine_max_
    MaxCid          \* bound: coroutine ids are 0 .. MaxCid

ASSUME SchedulerAssumption ==
    /\ coroutine_max \in Nat
    /\ MaxCid \in Nat

VARIABLES
    coroutine_table,  \* coroutine_table_: state of each id, "NONE" when absent
    running_cid,      \* running_cid_
    main_ctx,         \* the context stored in main_ctx_
    cid_seed,         \* cid_seed
    cpu               \* the context that executes

schedVars == <<coroutine_table, running_cid, main_ctx, cid_seed, cpu>>

Cids == 0 .. MaxCid
NoCid == -1
Loop == -1      \* the main context, as opposed to that of a coroutine

States == {"NONE", "READY", "RUNNING", "SUSPEND", "DONE"}

InTable == {c \in Cids : coroutine_table[c] # "NONE"}

(***************************************************************************)
(* CoroutineBeenAlive.                                                     *)
(***************************************************************************)
CoroutineBeenAlive(c) == c \in InTable /\ coroutine_table[c] # "DONE"

SchedulerInit ==
    /\ coroutine_table = [c \in Cids |-> "NONE"]
    /\ running_cid = NoCid
    /\ main_ctx = Loop
    /\ cid_seed = 0
    /\ cpu = Loop

(***************************************************************************)
(* CreateCoroutine and the ResumeCoroutine of the new, READY coroutine:    *)
(* the caller is stored in main_ctx_ and the coroutine starts.  A full     *)
(* table is refused (-2).                                                  *)
(***************************************************************************)
CreateCoroutineFails == Cardinality(InTable) >= coroutine_max

CreateAndResume ==
    /\ ~CreateCoroutineFails
    /\ cid_seed \in Cids
    /\ coroutine_table' = [coroutine_table EXCEPT ![cid_seed] = "RUNNING"]
    /\ running_cid' = cid_seed
    /\ main_ctx' = cpu
    /\ cpu' = cid_seed
    /\ cid_seed' = cid_seed + 1

\* Mutant: the two contexts of swapcontext are one and the same.
ResumeCoroutine_SavesItself(c) ==
    /\ coroutine_table[c] = "SUSPEND"
    /\ coroutine_table' = [coroutine_table EXCEPT ![c] = "RUNNING"]
    /\ running_cid' = c
    /\ main_ctx' = c
    /\ cpu' = c
    /\ UNCHANGED cid_seed

(***************************************************************************)
(* ResumeCoroutine of a coroutine that has yielded.                        *)
(***************************************************************************)
ResumeCoroutine(c) ==
    /\ coroutine_table[c] = "SUSPEND"
    /\ coroutine_table' = [coroutine_table EXCEPT ![c] = "RUNNING"]
    /\ running_cid' = c
    /\ main_ctx' = cpu
    /\ cpu' = c
    /\ UNCHANGED cid_seed

(***************************************************************************)
(* YieldCoroutine: running_cid_ tells who yields; main_ctx_ goes on.       *)
(***************************************************************************)
YieldCoroutine ==
    /\ running_cid \in InTable
    /\ coroutine_table' = [coroutine_table EXCEPT ![running_cid] = "SUSPEND"]
    /\ running_cid' = NoCid
    /\ cpu' = main_ctx
    /\ UNCHANGED <<main_ctx, cid_seed>>

(***************************************************************************)
(* The end of ScheduleFunction: the coroutine is DONE and uc_link          *)
(* continues main_ctx_.  If that is the main context, it is inside of      *)
(* ResumeCoroutine, which destroys what is DONE.  If it is the context of  *)
(* the very coroutine that has ended, saved when its callback made another *)
(* call, that coroutine executes again, on a stack it has left.            *)
(***************************************************************************)
ScheduleFunctionEnds ==
    /\ coroutine_table' = [coroutine_table EXCEPT
                             ![cpu] = IF main_ctx = Loop THEN "NONE" ELSE "DONE"]
    /\ running_cid' = NoCid
    /\ cpu' = main_ctx
    /\ UNCHANGED <<main_ctx, cid_seed>>

(***************************************************************************)
(* DestroyCoroutine of each of some coroutines, whatever state they are in.*)
(***************************************************************************)
DestroyCoroutines(cids) ==
    /\ coroutine_table' = [c \in Cids |-> IF c \in cids THEN "NONE"
                                                         ELSE coroutine_table[c]]
    /\ UNCHANGED <<running_cid, main_ctx, cid_seed, cpu>>

SchedulerTypeOK ==
    /\ coroutine_table \in [Cids -> States]
    /\ running_cid \in Cids \cup {NoCid}
    /\ main_ctx \in Cids \cup {Loop}
    /\ cpu \in Cids \cup {Loop}
    /\ cid_seed \in 0 .. MaxCid + 1
=============================================================================
