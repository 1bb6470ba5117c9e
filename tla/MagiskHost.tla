------------------------------ MODULE MagiskHost ------------------------------
(***************************************************************************)
(* The root edition's daemon (daemon/process.rs, magisk_host.rs) with what *)
(* keeps it alive and honest: the supervisor that restarts it, the root    *)
(* guard around every command (command.rs) whose proof outlives the        *)
(* daemon, the recovery of the proofs an earlier instance left             *)
(* (magisk_guard_recovery.rs, persistence/recovery.rs), and the watch that *)
(* replaces an instance whose cleanup became provable (recycle.rs).        *)
(*                                                                         *)
(* Processes: the daemon's main loop, the watch thread, one thread per     *)
(* execution, one guard process per root command, the frontend, and the    *)
(* supervisor.  The reset of the store is the subject of RuntimeReset.     *)
(***************************************************************************)
EXTENDS Naturals, FiniteSets

CONSTANTS
  Execs,          \* executions
  MaxCrashes,     \* times the daemon process is lost
  MaxReboots,
  MaxMgFaults     \* failed probes, deletions, spawns and writes, and guards killed

ASSUME MagiskHostAssumption ==
  Execs # {} /\ MaxCrashes \in Nat /\ MaxReboots \in Nat /\ MaxMgFaults \in Nat

VARIABLES
  mgCtl,      \* the daemon's main loop: where it is and the plan it activates with
  mgSlot,     \* HostSlot and the facts of the host in it
  mgCond,     \* the Runtime's readiness, with the reason it was withdrawn for
  mgLease,    \* who holds a reference to the lifetime lease, and so the live lock
  mgWatch,    \* CleanupWatch: its thread, and its `watching` flag
  mgRecycle,  \* Recycle's State
  mgExec,     \* per execution: its record, its thread, its proof and its processes
  mgHelper,   \* the framework helper: its process, its port and its families
  mgClear,    \* the frontend's clear_stranded_executions
  mgSup,      \* the supervisor
  mgBudget    \* crashes, reboots and faults so far

mgVars == <<mgCtl, mgSlot, mgCond, mgLease, mgWatch, mgRecycle, mgExec, mgHelper, mgClear, mgSup,
            mgBudget>>

NoExec == [rec |-> "none", inst |-> 0, pc |-> "none", proof |-> "none", guard |-> "none",
           group |-> FALSE]
Helper == [child |-> "alive", port |-> TRUE, families |-> TRUE]
NoHelper == [child |-> "none", port |-> FALSE, families |-> FALSE]
NoHost == [host |-> FALSE, inst |-> 0, guard |-> FALSE, flagged |-> FALSE, module |-> TRUE,
           alarm |-> TRUE]

MgInit ==
  /\ mgCtl = [at |-> "tick", clean |-> FALSE, prior |-> {}]
  /\ mgSlot = NoHost
  /\ mgCond = "ready"
  /\ mgLease = {}
  /\ mgWatch = [on |-> FALSE, flag |-> FALSE]
  /\ mgRecycle = "serving"
  /\ mgExec = [e \in Execs |-> NoExec]
  /\ mgHelper = NoHelper
  /\ mgClear = "none"
  /\ mgSup = [at |-> "wait", index |-> 0]
  /\ mgBudget = [crashes |-> 0, reboots |-> 0, faults |-> 0]

MgFault == mgBudget.faults < MaxMgFaults /\ mgBudget' = [mgBudget EXCEPT !.faults = @ + 1]
MgFine  == UNCHANGED mgBudget

-----------------------------------------------------------------------------
(* What the proofs say: classify_guard_proof and build_guard_recovery_plan. *)

\* A proof of another boot is clean, a verdict is clean, a start frame whose guard runs is
\* live, and everything else is unverified.
classify_guard_proof(e) ==
  CASE mgExec[e].proof \in {"older", "clean"} -> "clean"
    [] mgExec[e].proof = "started" /\ mgExec[e].guard = "alive" -> "live"
    [] OTHER -> "unverified"

\* The records of an instance's plan: every proof that is not its own, and every unfinished
\* execution of another instance without one, which nothing proves clean.
Planned(inst) ==
  {e \in Execs : mgExec[e].inst # inst
                 /\ (mgExec[e].proof # "none" \/ mgExec[e].rec = "running")}
Recovery(e) == IF mgExec[e].proof = "none" THEN "unverified" ELSE classify_guard_proof(e)
prior_instances(inst) == {e \in Execs : mgExec[e].rec = "running" /\ mgExec[e].inst # inst}

\* Mutant: a guard that still runs counts as clean.
guards_are_clean_MaySettle(inst) == \A e \in Planned(inst) : Recovery(e) \in {"clean", "live"}

guards_are_clean(inst) == \A e \in Planned(inst) : Recovery(e) = "clean"

may_settle(inst) == \A e \in Planned(inst) : Recovery(e) \in {"clean", "live"}

\* fresh_plan: the plan of an instance that does not exist yet.
Fresh == mgSlot.inst + 1
reason == IF may_settle(Fresh) THEN "EXECUTOR_RECOVERING" ELSE "CLEANUP_UNVERIFIED"

\* CleanupWatch::start: readiness goes, and one thread per instance keeps reading the proofs,
\* with a reference to the lease of its own.
WatchStart ==
  /\ mgCond' = reason
  /\ mgWatch' = [on |-> mgWatch.on \/ ~mgWatch.flag, flag |-> TRUE]
  /\ mgLease' = IF mgWatch.flag THEN mgLease ELSE mgLease \cup {"watch"}

\* Mutant: the watch ends without asking for the replacement of its instance.
WatchPoll_Quits ==
  /\ mgWatch.on
  /\ IF guards_are_clean(Fresh)
     THEN mgWatch' = [mgWatch EXCEPT !.on = FALSE] /\ mgLease' = mgLease \ {"watch"}
          /\ UNCHANGED mgCond
     ELSE mgCond' = reason /\ UNCHANGED <<mgWatch, mgLease>>
  /\ UNCHANGED <<mgCtl, mgSlot, mgRecycle, mgExec, mgHelper, mgClear, mgSup, mgBudget>>

\* watch: the plan of a fresh instance is read again and again; once all of it is clean, the
\* replacement of the instance is requested.
WatchPoll ==
  /\ mgWatch.on
  /\ IF guards_are_clean(Fresh)
     THEN /\ mgRecycle' = IF mgRecycle = "serving" THEN "settling" ELSE mgRecycle
          /\ mgWatch' = [mgWatch EXCEPT !.on = FALSE]
          /\ mgLease' = mgLease \ {"watch"}
          /\ UNCHANGED mgCond
     ELSE mgCond' = reason /\ UNCHANGED <<mgRecycle, mgWatch, mgLease>>
  /\ UNCHANGED <<mgCtl, mgSlot, mgExec, mgHelper, mgClear, mgSup, mgBudget>>

\* SETTLE_WINDOW.
RecycleDue ==
  /\ mgRecycle = "settling"
  /\ mgRecycle' = "due"
  /\ UNCHANGED <<mgCtl, mgSlot, mgCond, mgLease, mgWatch, mgExec, mgHelper, mgClear, mgSup, mgBudget>>

-----------------------------------------------------------------------------
(* The main loop.  It holds the slot's lock from ActivateBegins to the end *)
(* of the activation, and a clear holds it while it waits.                 *)

SlotFree == mgCtl.at = "tick" /\ mgClear # "waiting"

\* The process ends: threads, lease and helper go with it, guards and proofs stay.
Gone ==
  /\ mgCtl' = [mgCtl EXCEPT !.at = "down"]
  /\ mgSlot' = [NoHost EXCEPT !.inst = mgSlot.inst]
  /\ mgCond' = "ready"
  /\ mgLease' = {}
  /\ mgWatch' = [on |-> FALSE, flag |-> FALSE]
  /\ mgRecycle' = "serving"
  /\ mgHelper' = NoHelper
  /\ mgClear' = IF mgClear = "waiting" THEN "none" ELSE mgClear

\* run: a due recycle ends the daemon, within SHUTDOWN_BOUND whatever still runs.
RecycleExit ==
  /\ SlotFree /\ mgRecycle = "due"
  /\ Gone
  /\ mgExec' = [e \in Execs |-> [mgExec[e] EXCEPT !.pc = "none"]]
  /\ UNCHANGED <<mgSup, mgBudget>>

Crash ==
  /\ mgCtl.at # "down" /\ mgBudget.crashes < MaxCrashes
  /\ Gone
  /\ mgExec' = [e \in Execs |-> [mgExec[e] EXCEPT !.pc = "none"]]
  /\ mgBudget' = [mgBudget EXCEPT !.crashes = @ + 1]
  /\ UNCHANGED mgSup

\* A reboot ends every process, and makes every proof one of an older boot.
Reboot ==
  /\ mgBudget.reboots < MaxReboots
  /\ Gone
  /\ mgExec' = [e \in Execs |->
       [mgExec[e] EXCEPT !.pc = "none", !.guard = IF @ = "alive" THEN "gone" ELSE @, !.group = FALSE,
                         !.proof = IF @ = "none" THEN @ ELSE "older"]]
  /\ mgSup' = [at |-> "spawn", index |-> 0]
  /\ mgBudget' = [mgBudget EXCEPT !.reboots = @ + 1]

\* Daemon::activate once the retry is due: the module must be ready.
ActivateBegins ==
  /\ SlotFree /\ mgRecycle # "due" /\ ~mgSlot.host
  /\ mgCtl' = [mgCtl EXCEPT !.at = "acquire"]
  /\ UNCHANGED <<mgSlot, mgCond, mgLease, mgWatch, mgRecycle, mgExec, mgHelper, mgClear, mgSup,
                 mgBudget>>

\* acquire_lifetime takes the live lock with a blocking flock; the file description of an
\* earlier lease of this very process excludes it too.
Acquire ==
  /\ mgCtl.at = "acquire" /\ mgLease = {}
  /\ mgLease' = {"host"}
  /\ mgSlot' = [NoHost EXCEPT !.inst = mgSlot.inst + 1]
  /\ mgCond' = "ready"
  /\ mgWatch' = [on |-> FALSE, flag |-> FALSE]
  /\ mgCtl' = [mgCtl EXCEPT !.at = "plan"]
  /\ UNCHANGED <<mgRecycle, mgExec, mgHelper, mgClear, mgSup, mgBudget>>

\* A guard is launched, made to run, to lose its owner and to confine its group; anything short
\* of the expected proof is a failed probe.
probe_root_guard(clean, probed) == IF probed THEN MgFine ELSE clean /\ MgFault

\* await_guard_recovery_plan waits, a bounded time, while a guard of the plan lives; the
\* guard is probed only when the plan is clean.
Plan ==
  /\ mgCtl.at = "plan"
  /\ LET clean == guards_are_clean(mgSlot.inst)
     IN \E probed \in BOOLEAN :
          /\ probe_root_guard(clean, probed)
          /\ mgSlot' = [mgSlot EXCEPT !.guard = clean /\ probed]
          /\ mgCtl' = [at |-> "recover", clean |-> clean, prior |-> Planned(mgSlot.inst)]
          /\ IF clean
             THEN mgCond' = (IF probed THEN "ready" ELSE "CLEANUP_UNVERIFIED")
                  /\ UNCHANGED <<mgWatch, mgLease>>
             ELSE WatchStart
  /\ UNCHANGED <<mgRecycle, mgExec, mgHelper, mgClear, mgSup>>

\* The failed host drops its reference to the lease; a watch it started keeps its own.
ActivateFails ==
  /\ mgCtl' = [mgCtl EXCEPT !.at = "tick"]
  /\ mgSlot' = [NoHost EXCEPT !.inst = mgSlot.inst]
  /\ UNCHANGED <<mgRecycle, mgExec, mgHelper, mgClear, mgSup>>

\* The store cannot be read, the owner does not match, the module is not ready.
ActivationFault ==
  /\ mgCtl.at = "plan" /\ MgFault
  /\ ActivateFails
  /\ mgLease' = mgLease \ {"host"}
  /\ UNCHANGED <<mgCond, mgWatch>>

\* recover_old_instance: refused unless the plan was clean.
RecoverRefused ==
  /\ mgCtl.at = "recover" /\ ~mgCtl.clean /\ prior_instances(mgSlot.inst) # {}
  /\ ActivateFails
  /\ mgCond' = reason
  /\ mgLease' = mgLease \ {"host"}
  /\ UNCHANGED <<mgWatch, mgBudget>>

Recover ==
  /\ mgCtl.at = "recover"
  /\ prior_instances(mgSlot.inst) = {} \/ mgCtl.clean
  /\ mgExec' = [e \in Execs |-> IF e \in prior_instances(mgSlot.inst)
                                THEN [mgExec[e] EXCEPT !.rec = "settled"] ELSE mgExec[e]]
  /\ mgCtl' = [mgCtl EXCEPT !.at = "finalize"]
  /\ UNCHANGED <<mgSlot, mgCond, mgLease, mgWatch, mgRecycle, mgHelper, mgClear, mgSup, mgBudget>>

\* execute_guard_recovery: the clean proofs are removed.  A removal that fails, having removed
\* any of them, withdraws the guard for the life of the instance and starts no watch.  The
\* wake alarm is probed and the helper started once, whatever the guard.
Finalize ==
  /\ mgCtl.at = "finalize"
  /\ \E removed \in SUBSET mgCtl.prior, failed \in BOOLEAN, alarm \in BOOLEAN :
       LET verified == mgCtl.clean /\ ~failed
       IN /\ IF failed THEN mgCtl.clean /\ mgCtl.prior # {}
             ELSE removed = (IF mgCtl.clean THEN mgCtl.prior ELSE {})
          /\ IF failed \/ ~alarm THEN MgFault ELSE MgFine
          /\ mgExec' = [e \in Execs |-> IF e \in removed THEN [mgExec[e] EXCEPT !.proof = "none"]
                                        ELSE mgExec[e]]
          /\ mgSlot' = [mgSlot EXCEPT !.host = TRUE, !.guard = @ /\ verified, !.alarm = alarm]
          /\ mgCond' = IF verified THEN mgCond ELSE "CLEANUP_UNVERIFIED"
  /\ mgHelper' \in {Helper, NoHelper}
  /\ mgCtl' = [at |-> "tick", clean |-> FALSE, prior |-> {}]
  /\ UNCHANGED <<mgLease, mgWatch, mgRecycle, mgClear, mgSup>>

-----------------------------------------------------------------------------
(* Facts observed while the host serves.                                   *)

\* The helper's part of a refresh: the families of a live one are probed again, a lost one is
\* withdrawn, and a missing one is started, if it starts, while module and guard are ready.
HelperSeen(ready) ==
  CASE mgHelper.child = "alive" -> {[mgHelper EXCEPT !.families = ok] : ok \in BOOLEAN}
    [] mgHelper.child = "dead" -> {NoHelper}
    [] OTHER -> {NoHelper} \cup IF ready THEN {Helper} ELSE {}

\* refresh_runtime_facts: the end of the Automation scheduler takes the wake alarm, a flagged
\* quarantine takes the guard, and a module observed as lost takes the guard for the life of
\* the instance; a module that is observed again brings back only its own capability.
Refresh ==
  /\ SlotFree /\ mgSlot.host /\ mgRecycle # "due"
  /\ \E seen \in BOOLEAN, ended \in BOOLEAN :
       LET lost == mgSlot.module /\ ~seen
           quarantined == mgSlot.guard /\ mgSlot.flagged
           guard == mgSlot.guard /\ ~mgSlot.flagged /\ ~lost
       IN /\ IF lost \/ ended THEN MgFault ELSE MgFine
          /\ mgSlot' = [mgSlot EXCEPT !.alarm = @ /\ ~ended, !.guard = guard, !.module = seen]
          /\ mgCond' = CASE lost -> "MODULE_UNAVAILABLE"
                         [] ~lost /\ quarantined /\ ~mgWatch.flag -> "CLEANUP_UNVERIFIED"
                         [] OTHER -> mgCond
          /\ mgHelper' \in HelperSeen(seen /\ guard)
  /\ UNCHANGED <<mgCtl, mgLease, mgWatch, mgRecycle, mgExec, mgClear, mgSup>>

HelperDies ==
  /\ mgHelper.child = "alive"
  /\ mgHelper' = [mgHelper EXCEPT !.child = "dead"]
  /\ UNCHANGED <<mgCtl, mgSlot, mgCond, mgLease, mgWatch, mgRecycle, mgExec, mgClear, mgSup, mgBudget>>

\* store_write_failed and store_write_recovered: only the store's own reason is restored.
StoreFails ==
  /\ mgSlot.host /\ MgFault
  /\ mgCond' = "STORE_UNAVAILABLE"
  /\ UNCHANGED <<mgCtl, mgSlot, mgLease, mgWatch, mgRecycle, mgExec, mgHelper, mgClear, mgSup>>
StoreRecovers ==
  /\ mgSlot.host /\ mgCond = "STORE_UNAVAILABLE"
  /\ mgCond' = "ready"
  /\ UNCHANGED <<mgCtl, mgSlot, mgLease, mgWatch, mgRecycle, mgExec, mgHelper, mgClear, mgSup, mgBudget>>

-----------------------------------------------------------------------------
(* Executions: the thread of one in the daemon, and its guard.             *)

Step(e, x) == mgExec' = [mgExec EXCEPT ![e] = x]
OnlyExec == UNCHANGED <<mgCtl, mgSlot, mgCond, mgLease, mgWatch, mgRecycle, mgHelper, mgClear, mgSup>>

\* submit: only a ready host admits, and a root command only while the guard is available.
MgAdmit(e) ==
  /\ mgSlot.host /\ mgCond = "ready" /\ mgExec[e].rec = "none"
  /\ \/ Step(e, [NoExec EXCEPT !.rec = "running", !.inst = mgSlot.inst, !.pc = "plain"])
     \/ /\ mgSlot.guard
        /\ Step(e, [NoExec EXCEPT !.rec = "running", !.inst = mgSlot.inst, !.pc = "prepare"])
  /\ OnlyExec /\ MgFine

Ended(e) == [mgExec[e] EXCEPT !.rec = "settled", !.pc = "none"]

\* An execution without a guard ends with its own verdict.  When the store refuses the
\* settlement of a synchronous one, nothing repeats it: its record stays running.
PlainEnds(e) ==
  /\ mgExec[e].pc = "plain"
  /\ \/ Step(e, Ended(e)) /\ UNCHANGED mgCond /\ MgFine
     \/ Step(e, [mgExec[e] EXCEPT !.pc = "report"]) /\ UNCHANGED mgCond /\ MgFault
     \/ Step(e, [mgExec[e] EXCEPT !.pc = "none"]) /\ mgCond' = "STORE_UNAVAILABLE" /\ MgFault
  /\ UNCHANGED <<mgCtl, mgSlot, mgLease, mgWatch, mgRecycle, mgHelper, mgClear, mgSup>>

\* prepare: a quarantined daemon starts no guard; the identity frame is durable first.
Prepare(e) ==
  /\ mgExec[e].pc = "prepare"
  /\ \/ mgSlot.flagged /\ Step(e, Ended(e)) /\ MgFine
     \/ ~mgSlot.flagged /\ Step(e, [mgExec[e] EXCEPT !.proof = "header", !.pc = "spawn"]) /\ MgFine
     \/ ~mgSlot.flagged /\ Step(e, Ended(e)) /\ MgFault
  /\ OnlyExec

\* unstarted: a guard that was not launched left only its identity frame, which abort retires;
\* when that fails too, nothing proves the cleanup.
Unstarted(e) ==
  \/ Step(e, [Ended(e) EXCEPT !.proof = "none"]) /\ UNCHANGED mgSlot
  \/ /\ \E left \in {"header", "none"} : Step(e, [mgExec[e] EXCEPT !.proof = left, !.pc = "report"])
     /\ mgSlot' = [mgSlot EXCEPT !.flagged = TRUE]

\* run_with_stdout up to the launch of the guard.
Spawn(e) ==
  /\ mgExec[e].pc = "spawn"
  /\ \/ /\ Step(e, [mgExec[e] EXCEPT !.guard = "alive", !.pc = "reap"])
        /\ UNCHANGED mgSlot /\ MgFine
     \/ Unstarted(e) /\ MgFault
  /\ UNCHANGED <<mgCtl, mgCond, mgLease, mgWatch, mgRecycle, mgHelper, mgClear, mgSup>>

\* The guard records its start, runs the group, and records the group's end: after its exit, a
\* cancel, a deadline, or the loss of its owner.
GuardBegins(e) ==
  /\ mgExec[e].guard = "alive" /\ mgExec[e].proof = "header"
  /\ Step(e, [mgExec[e] EXCEPT !.proof = "started", !.group = TRUE])
  /\ OnlyExec /\ MgFine
GuardEnds(e) ==
  /\ mgExec[e].guard = "alive" /\ mgExec[e].proof = "started"
  /\ Step(e, [mgExec[e] EXCEPT !.proof = "clean", !.group = FALSE, !.guard = "gone"])
  /\ OnlyExec /\ MgFine

\* A guard that is killed, by reap when it ignores its budget too, says nothing more.
GuardDies(e) ==
  /\ mgExec[e].guard = "alive" /\ MgFault
  /\ Step(e, [mgExec[e] EXCEPT !.guard = "gone"])
  /\ OnlyExec

Reap(e) ==
  /\ mgExec[e].pc = "reap" /\ mgExec[e].guard = "gone"
  /\ Step(e, [mgExec[e] EXCEPT !.pc = "settle"])
  /\ OnlyExec /\ MgFine

\* settle: the proof is the only authority.  Without a verdict the daemon is quarantined; a
\* clean proof is retired, and one that cannot be leaves the cleanup unverified.
SettleGuard(e) ==
  /\ mgExec[e].pc = "settle"
  /\ \/ /\ mgExec[e].proof = "clean" /\ MgFine
        /\ Step(e, [Ended(e) EXCEPT !.proof = "none"])
        /\ UNCHANGED mgSlot
     \/ /\ mgExec[e].proof = "clean" /\ MgFault
        /\ \E left \in {"clean", "none"} :
             Step(e, [mgExec[e] EXCEPT !.proof = left, !.pc = "report"])
        /\ UNCHANGED mgSlot
     \/ /\ mgExec[e].proof # "clean" /\ MgFine
        /\ Step(e, [mgExec[e] EXCEPT !.pc = "report"])
        /\ mgSlot' = [mgSlot EXCEPT !.flagged = TRUE]
  /\ UNCHANGED <<mgCtl, mgCond, mgLease, mgWatch, mgRecycle, mgHelper, mgClear, mgSup>>

\* cleanup_unverified: the watch starts before the settlement is committed.
Report(e) ==
  /\ mgExec[e].pc = "report"
  /\ WatchStart
  /\ Step(e, [mgExec[e] EXCEPT !.pc = "commit"])
  /\ UNCHANGED <<mgCtl, mgSlot, mgRecycle, mgHelper, mgClear, mgSup, mgBudget>>
Commit(e) ==
  /\ mgExec[e].pc = "commit"
  /\ Step(e, Ended(e))
  /\ OnlyExec /\ MgFine

-----------------------------------------------------------------------------
(* The frontend's clear, and the supervisor.                               *)

\* clear_stranded_executions: refused while a host is started; it waits for the live lock.
ClearBegins ==
  /\ SlotFree /\ mgClear = "none" /\ ~mgSlot.host
  /\ mgClear' = "waiting"
  /\ UNCHANGED <<mgCtl, mgSlot, mgCond, mgLease, mgWatch, mgRecycle, mgExec, mgHelper, mgSup, mgBudget>>
ClearTakes ==
  /\ mgClear = "waiting" /\ mgLease = {}
  /\ mgExec' = [e \in Execs |-> IF mgExec[e].rec = "running" THEN Ended(e) ELSE mgExec[e]]
  /\ mgClear' = "cleared"
  /\ mgCtl' = [mgCtl EXCEPT !.at = "acquire"]
  /\ UNCHANGED <<mgSlot, mgCond, mgLease, mgWatch, mgRecycle, mgHelper, mgSup, mgBudget>>
ClearTimesOut ==
  /\ mgClear = "waiting" /\ mgLease # {}
  /\ mgClear' = "refused"
  /\ UNCHANGED <<mgCtl, mgSlot, mgCond, mgLease, mgWatch, mgRecycle, mgExec, mgHelper, mgSup, mgBudget>>

Delays == 6

\* The supervisor notices the exit, sleeps for the delay of its index, and spawns again; a
\* long run starts the delays over, and a spawn that fails ends the supervisor.
SupervisorSees ==
  /\ mgCtl.at = "down" /\ mgSup.at = "wait"
  /\ \E long \in BOOLEAN :
       mgSup' = [at |-> "spawn",
                 index |-> LET i == (IF long THEN 0 ELSE mgSup.index) + 1
                           IN IF i < Delays THEN i ELSE Delays - 1]
  /\ UNCHANGED <<mgCtl, mgSlot, mgCond, mgLease, mgWatch, mgRecycle, mgExec, mgHelper, mgClear,
                 mgBudget>>
SupervisorSpawns ==
  /\ mgSup.at = "spawn"
  /\ \/ mgSup' = [mgSup EXCEPT !.at = "wait"] /\ mgCtl' = [mgCtl EXCEPT !.at = "tick"] /\ MgFine
     \/ mgSup' = [mgSup EXCEPT !.at = "ended"] /\ UNCHANGED mgCtl /\ MgFault
  /\ UNCHANGED <<mgSlot, mgCond, mgLease, mgWatch, mgRecycle, mgExec, mgHelper, mgClear>>

-----------------------------------------------------------------------------
ExecThread(e) == \/ PlainEnds(e) \/ Prepare(e) \/ Spawn(e) \/ Reap(e) \/ SettleGuard(e)
                 \/ Report(e) \/ Commit(e)
MainLoop == \/ RecycleExit \/ ActivateBegins \/ Acquire \/ Plan \/ RecoverRefused \/ Recover
            \/ Finalize

MgNext ==
  \/ WatchPoll \/ RecycleDue \/ RecycleExit \/ Crash \/ Reboot
  \/ ActivateBegins \/ Acquire \/ Plan \/ ActivationFault \/ RecoverRefused \/ Recover \/ Finalize
  \/ Refresh \/ HelperDies
  \/ StoreFails \/ StoreRecovers
  \/ \E e \in Execs : \/ MgAdmit(e) \/ PlainEnds(e) \/ Prepare(e) \/ Spawn(e) \/ GuardBegins(e)
                      \/ GuardEnds(e) \/ GuardDies(e) \/ Reap(e) \/ SettleGuard(e) \/ Report(e)
                      \/ Commit(e)
  \/ ClearBegins \/ ClearTakes \/ ClearTimesOut
  \/ SupervisorSees \/ SupervisorSpawns

MgSpec == MgInit /\ [][MgNext]_mgVars

\* Threads and processes run on: every wait in them is bounded, a guard ends its group at the
\* deadline of the command, and the supervisor only sleeps.
MgFairness ==
  /\ WF_mgVars(MainLoop)
  /\ WF_mgVars(WatchPoll) /\ WF_mgVars(RecycleDue) /\ WF_mgVars(StoreRecovers)
  /\ WF_mgVars(ClearTakes) /\ WF_mgVars(ClearTimesOut)
  /\ WF_mgVars(SupervisorSees) /\ WF_mgVars(SupervisorSpawns)
  /\ \A e \in Execs :
       WF_mgVars(ExecThread(e)) /\ WF_mgVars(GuardBegins(e)) /\ WF_mgVars(GuardEnds(e))

-----------------------------------------------------------------------------
(* Properties.                                                             *)

\* A started instance owns all unsettled work: no record of an earlier instance is still
\* running, and no root command of it runs beside a process an earlier instance left.
SuccessorOwnsWork ==
  mgSlot.host =>
    \A e \in Execs : mgExec[e].inst # mgSlot.inst =>
      /\ mgExec[e].rec # "running"
      /\ mgExec[e].group => \A f \in Execs : mgExec[f].inst = mgSlot.inst => ~mgExec[f].group

\* What no watch can resolve: an execution whose guard died without a verdict or that has
\* neither proof nor thread, an instance that lost its guard otherwise, no supervisor.
Hopeless ==
  \/ \E e \in Execs : /\ mgExec[e].pc = "none"
                      /\ \/ mgExec[e].guard = "gone" /\ mgExec[e].proof \in {"header", "started"}
                         \/ mgExec[e].guard = "none" /\ mgExec[e].proof = "header"
                         \/ mgExec[e].rec = "running" /\ mgExec[e].proof = "none"
  \/ mgSlot.host /\ ~mgSlot.guard /\ ~mgWatch.flag
  \/ mgSup.at = "ended"

\* Readiness that was lost to an unproven cleanup comes back without the user: once every
\* guard has written its verdict, the instance is replaced, and its successor admits again.
WatchResolves == mgWatch.on ~> (mgSlot.host /\ mgCond = "ready") \/ Hopeless

\* clear_stranded_executions is refused only while a host is started.
ClearRefusedOnlyWhenStarted == mgClear = "refused" => mgSlot.host
=============================================================================
