---------------------------- MODULE TaskRuntime ----------------------------
(***************************************************************************)
(* The Task half of the Runtime core (runtime/src/core.rs) over the local  *)
(* execution claims (runtime/src/ports.rs), the native command surface     *)
(* (runtime/src/command.rs), the App host's readiness control              *)
(* (app_native/src/app_host.rs) and its restart recovery.                  *)
(*                                                                         *)
(* Actors: for every Task one driver (the spawned run_task), at most one   *)
(* canceller (a task.cancel call), one execution guard process; the        *)
(* resident scheduler loop that probes a failed store; the host that       *)
(* crashes and restarts; the user who clears stranded executions; a disk   *)
(* that may refuse writes.  A handler's work under the mutation lock is    *)
(* one step; everything it does without the lock is a step of its own.     *)
(*                                                                         *)
(* A Task is named by the request that admits it.  The horizon of this     *)
(* module is shorter than the dedup window and the Task history retention, *)
(* so no pruning happens in it: that is module RequestRetention.           *)
(***************************************************************************)
EXTENDS TaskLifecycle, Naturals, FiniteSets

CONSTANTS
    Tasks,          \* the request-owned Tasks
    Generations,    \* the executors resolve_execution may answer with
    MaxRunning,     \* MAX_RUNNING_TASKS: leaf permits and the store's Running limit
    MaxQueued,      \* MAX_QUEUED_TASKS
    Faults,         \* the disk faults that may happen
    MaxFaults,      \* bound: how many times the disk or a guard fails
    MaxInstance     \* bound: how many Runtime instances are started

ASSUME TaskRuntimeAssumption ==
    /\ IsFiniteSet(Tasks)
    /\ MaxRunning \in Nat \ {0}
    /\ MaxQueued \in Nat \ {0}
    /\ Faults \subseteq {"refuses", "unsynced", "unreadable"}
    /\ MaxFaults \in Nat
    /\ MaxInstance \in Nat \ {0}
    /\ "none" \notin Generations

VARIABLES
    \* durable
    task,           \* the canonical Task records
    dedup,          \* each request's dedup entry: "none", "pending" or "settled"
    guard,          \* the execution guard and its proof file
    artifacts,      \* each Task's records in the manifest, confirmed to its driver or not
    \* the disk under the store
    disk, faults,
    \* one Runtime instance's memory
    instance, serving, loop,
    driver, claim, canceller,
    executor, readiness, store_failed,
    \* history
    ran,            \* the Tasks whose process was ever started
    unclean         \* this instance was told that a cleanup is unverified

durable == <<task, dedup>>
store   == <<task, dedup, readiness, store_failed>>
env     == <<disk, faults>>
life    == <<instance, serving, loop>>
vars    == <<task, dedup, guard, artifacts, disk, faults, instance, serving, loop, driver,
             claim, canceller, executor, readiness, store_failed, ran, unclean>>

STORE_UNAVAILABLE  == "STORE_UNAVAILABLE"
CLEANUP_UNVERIFIED == "CLEANUP_UNVERIFIED"

NoTask      == [state |-> "absent", cancel |-> FALSE, executor |-> "none", instance |-> 0]
NoDriver    == [pc |-> "none", outcome |-> "failed", cleanup |-> TRUE]
NoClaim     == [entry |-> FALSE, requested |-> FALSE, published |-> FALSE,
                finished |-> FALSE, cleanup |-> FALSE]
NoCanceller == [pc |-> "idle", won |-> FALSE]

\* The driver's places between claim_and_start and the end of its future.
Executing == {"claimed", "checked", "running", "result", "stderr", "finish", "remove"}
Holding   == {"permit"} \cup Executing
DriverPc  == {"none", "queued", "settle", "interrupt", "done"} \cup Holding

NonTerminal(t) == task[t].state \in {"queued", "running"}
Running(ts)    == {t \in Tasks : ts[t].state = "running"}
Queued(ts)     == {t \in Tasks : ts[t].state = "queued"}

\* A guard without its clean verdict: the process may still be alive.
Alive(t) == guard[t] \in {"live", "lost"}

-----------------------------------------------------------------------------
(***************************************************************************)
(* The store.  load() fails on an unreadable disk.  A commit first meets   *)
(* validate_state, whose refusal is not an I/O error; then the disk, which *)
(* takes it, refuses it, or takes it and still reports a failure (the      *)
(* directory sync after the rename).  "r" is the readiness the handler has *)
(* reached when it commits.                                                *)
(***************************************************************************)
Readable == disk # "unreadable"

WithinLimits(ts) == /\ Cardinality(Running(ts)) <= MaxRunning
                    /\ Cardinality(Queued(ts)) <= MaxQueued

\* Mutant: a write that succeeds does not call store_write_recovered.
Committed_StaysWithdrawn(ts, ds, r) ==
    /\ disk = "ok"
    /\ WithinLimits(ts)
    /\ task' = ts /\ dedup' = ds
    /\ store_failed' = FALSE
    /\ readiness' = r

Committed(ts, ds, r) ==
    /\ disk = "ok"
    /\ WithinLimits(ts)
    /\ task' = ts
    /\ dedup' = ds
    /\ store_failed' = FALSE
    /\ readiness' = IF store_failed /\ r = STORE_UNAVAILABLE THEN "ready" ELSE r

WriteFailed(ts, ds) ==
    /\ disk \in {"refuses", "unsynced"}
    /\ WithinLimits(ts)
    /\ task' = IF disk = "unsynced" THEN ts ELSE task
    /\ dedup' = IF disk = "unsynced" THEN ds ELSE dedup
    /\ store_failed' = TRUE
    /\ readiness' = STORE_UNAVAILABLE

CommitRefused(ts) == /\ ~WithinLimits(ts)
                     /\ UNCHANGED store

-----------------------------------------------------------------------------
(* Admission and the driver up to the claim.                               *)

\* The driver goes on, alone or with the outcome it has reached.
Goes(t, pc) == driver' = [driver EXCEPT ![t].pc = pc]
Concludes(t, pc, o, c) ==
    driver' = [driver EXCEPT ![t] = [pc |-> pc, outcome |-> o, cleanup |-> c]]

\* The driver leaves run_task and lets its permit go.
Leaves(t) == Goes(t, "done")

Ready == readiness = "ready"

\* admit_task, then the caller's spawn of run_task.  A refused write answers the
\* caller with an error, and no driver is spawned.
AdmitTask(t) ==
    /\ serving /\ Readable
    /\ dedup[t] = "none"
    /\ Ready /\ executor # "none"
    /\ Cardinality(Queued(task)) < MaxQueued
    /\ LET lc == After(NewLifecycle, Event("Queue"))
           ts == [task EXCEPT ![t] = [state |-> lc.state, cancel |-> lc.cancel,
                                      executor |-> executor, instance |-> instance]]
           ds == [dedup EXCEPT ![t] = "pending"]
       IN \/ /\ Committed(ts, ds, readiness)
             /\ Goes(t, "queued")
          \/ /\ WriteFailed(ts, ds)
             /\ UNCHANGED driver
    /\ UNCHANGED <<guard, artifacts, env, life, claim, canceller, executor, ran, unclean>>

\* leaf_permits.acquire()
TakePermit(t) ==
    /\ driver[t].pc = "queued"
    /\ Cardinality({u \in Tasks : driver[u].pc \in Holding}) < MaxRunning
    /\ Goes(t, "permit")
    /\ UNCHANGED <<store, guard, artifacts, env, life, claim, canceller, executor, ran, unclean>>

\* run_task under the lock, on a Task that may not start: its store is unreadable,
\* it is already terminal, the Runtime is not ready, or its executor changed.
DeclineTask(t) ==
    /\ driver[t].pc = "permit"
    /\ \/ (~Readable \/ IsTerminal(task[t])) /\ Leaves(t)
       \/ /\ Readable /\ ~IsTerminal(task[t])
          /\ \/ /\ ~Ready \/ executor = "none"
                /\ Concludes(t, "settle", "failed", TRUE)
             \/ /\ Ready /\ executor \notin {"none", task[t].executor}
                /\ Goes(t, "interrupt")
    /\ UNCHANGED <<store, guard, artifacts, env, life, claim, canceller, executor, ran, unclean>>

\* The candidate run_task commits when it starts t.
Started(t) == [task EXCEPT ![t] = After(@, Event("Start"))]

\* Mutant: run_task does not look whether its Task was cancelled while it waited.
MayStart_Terminal(t) == /\ driver[t].pc = "permit"
                        /\ Readable
                        /\ Ready /\ executor = task[t].executor

MayStart(t) == /\ driver[t].pc = "permit"
               /\ Readable /\ ~IsTerminal(task[t])
               /\ Ready /\ executor = task[t].executor

\* run_task under the lock: start the Task, and claim its execution before the lock
\* is released.  A commit that fails or is refused ends the driver.
StartTask(t) ==
    /\ MayStart(t)
    /\ \/ /\ Committed(Started(t), dedup, readiness)
          /\ claim' = [claim EXCEPT ![t] = [NoClaim EXCEPT !.entry = TRUE]]
          /\ Goes(t, "claimed")
       \/ /\ WriteFailed(Started(t), dedup) \/ CommitRefused(Started(t))
          /\ Leaves(t)
          /\ UNCHANGED claim
    /\ UNCHANGED <<guard, artifacts, env, life, canceller, executor, ran, unclean>>

-----------------------------------------------------------------------------
(***************************************************************************)
(* The execution itself: execute_command of the native command surface,    *)
(* its claim, and the guard process that owns the command.                 *)
(***************************************************************************)

\* The execution's result is known; what is left of its future is claims.finish.
Ends(t, o, c) == Concludes(t, "finish", o, c)

\* The fence and generation check before the first effect.
CheckExecutor(t) ==
    /\ driver[t].pc = "claimed"
    /\ IF Ready /\ executor = task[t].executor THEN Goes(t, "checked")
                                               ELSE Ends(t, "failed", TRUE)
    /\ UNCHANGED <<store, guard, artifacts, env, life, claim, canceller, executor, ran, unclean>>

\* claim.checkpoint(), then the process: a cancelled execution starts none, and the
\* runner may fail before it has started one.  A start that fails with a proof that
\* cannot be retired is not told apart from a guard that dies.
Checkpoint(t) ==
    /\ driver[t].pc = "checked"
    /\ \/ /\ claim[t].requested
          /\ Ends(t, "cancelled", TRUE)
          /\ UNCHANGED <<guard, ran>>
       \/ /\ ~claim[t].requested
          /\ \/ /\ Goes(t, "running")
                /\ guard' = [guard EXCEPT ![t] = "live"]
                /\ ran' = ran \cup {t}
             \/ /\ Ends(t, "failed", TRUE)
                /\ UNCHANGED <<guard, ran>>
    /\ UNCHANGED <<store, artifacts, env, life, claim, canceller, executor, unclean>>

\* The guard ended.  Its clean verdict is read and its proof retired, and the process
\* is known to be gone; without the verdict (or when the proof cannot be retired)
\* cleanup is unverified.  A cancel signal was sent only for a requested cancellation.
ProcessEnds(t) ==
    /\ driver[t].pc = "running"
    /\ \/ /\ guard[t] = "clean"
          /\ guard' = [guard EXCEPT ![t] = "none"]
          /\ \/ claim[t].requested /\ Ends(t, "cancelled", TRUE)
             \/ Ends(t, "failed", TRUE)
             \/ Goes(t, "result")
       \/ /\ guard[t] \in {"clean", "lost"}
          /\ Ends(t, "failed", FALSE)
          /\ UNCHANGED guard
    /\ UNCHANGED <<store, artifacts, env, life, claim, canceller, executor, ran, unclean>>

Records(t, r) == artifacts' = [artifacts EXCEPT ![t] = @ \cup {r}]

\* publish_stream under the claim's lock: a requested cancellation refuses it, and a success
\* closes the execution to cancellation.  A failure does not, also where the manifest took
\* the record and reported a failure (the directory sync after the rename): only the bytes
\* are taken back then.
PublishStream(t, next) ==
    \/ /\ claim[t].requested
       /\ Ends(t, "cancelled", TRUE)
       /\ UNCHANGED <<artifacts, claim>>
    \/ /\ ~claim[t].requested
       /\ \/ /\ Ends(t, "failed", TRUE)
             /\ Records(t, "unconfirmed") \/ UNCHANGED artifacts
             /\ UNCHANGED claim
          \/ /\ Records(t, "confirmed")
             /\ claim' = [claim EXCEPT ![t].published = TRUE]
             /\ next

\* command_result: inline when both streams fit, otherwise stdout and then stderr are
\* published unless empty; a result that is still too large is a failure.
CommandResult(t) ==
    /\ \/ /\ driver[t].pc = "result"
          /\ \/ Ends(t, "completed", TRUE) /\ UNCHANGED <<artifacts, claim>>
             \/ Goes(t, "stderr") /\ UNCHANGED <<artifacts, claim>>
             \/ PublishStream(t, Goes(t, "stderr"))
       \/ /\ driver[t].pc = "stderr"
          /\ \E o \in {"completed", "failed"} :
                \/ Ends(t, o, TRUE) /\ UNCHANGED <<artifacts, claim>>
                \/ PublishStream(t, Ends(t, o, TRUE))
    /\ UNCHANGED <<store, guard, env, life, canceller, executor, ran, unclean>>

\* Mutant: the claim's waiters are never told that it finished.
FinishClaim_Silent(t) ==
    /\ driver[t].pc = "finish"
    /\ Goes(t, "remove")
    /\ UNCHANGED <<store, guard, artifacts, env, life, claim, canceller, executor, ran, unclean>>

\* LocalExecutionClaims::finish is two steps: the claim is finished and its waiters
\* are woken, then the entry is removed.
FinishClaim(t) ==
    /\ driver[t].pc = "finish"
    /\ claim' = [claim EXCEPT ![t].finished = TRUE, ![t].cleanup = driver[t].cleanup]
    /\ Goes(t, "remove")
    /\ UNCHANGED <<store, guard, artifacts, env, life, canceller, executor, ran, unclean>>

\* The entry goes, the future returns, and run_task drops its permit.
RemoveClaim(t) ==
    /\ driver[t].pc = "remove"
    /\ claim' = [claim EXCEPT ![t].entry = FALSE]
    /\ Goes(t, "settle")
    /\ UNCHANGED <<store, guard, artifacts, env, life, canceller, executor, ran, unclean>>

-----------------------------------------------------------------------------
(* Settlement: settle_once repeated by until_stored.                       *)

\* Mutant: the outcome is recorded as it is, whatever is known of the cleanup.
OutcomeEvent_AnyCleanup(o, c) ==
    LET applies == [completed |-> "Complete", failed |-> "Fail",
                    cancelled |-> "SettleCancellation"]
    IN  [type |-> applies[o], cleanup |-> TRUE]

\* The event settle_once applies: an outcome with unverified cleanup is applied as a failure.
OutcomeEvent(o, c) ==
    LET applies == [completed |-> "Complete", failed |-> "Fail",
                    cancelled |-> "SettleCancellation"]
    IN  [type |-> IF c THEN applies[o] ELSE "Fail", cleanup |-> c]

Settled(t, ev) == [task EXCEPT ![t] = After(@, ev)]

\* Mutant: the settlement forgets its request.
Retained_Forgotten(t) == dedup

Retained(t) == [dedup EXCEPT ![t] = "settled"]

\* AppHostControl::cleanup_unverified withdraws readiness before the commit.
Reported(c) == IF c THEN readiness ELSE CLEANUP_UNVERIFIED

\* An attempt that is the settlement's answer: the store cannot be read, the Task is
\* already terminal, its lifecycle refuses the event, or the settlement is stored.
SettleEnds(t, o, c) ==
    LET ev == OutcomeEvent(o, c) IN
    \/ ~Readable /\ UNCHANGED <<store, unclean>>
    \/ /\ Readable /\ (IsTerminal(task[t]) \/ ~Legal(task[t], ev))
       /\ readiness' = Reported(c)
       /\ unclean' = (unclean \/ ~c)
       /\ UNCHANGED <<durable, store_failed>>
    \/ /\ ~IsTerminal(task[t]) /\ Legal(task[t], ev)
       /\ Committed(Settled(t, ev), Retained(t), Reported(c))
       /\ unclean' = (unclean \/ ~c)

\* An attempt until_stored repeats.
SettleFails(t, o, c) ==
    /\ ~IsTerminal(task[t]) /\ Legal(task[t], OutcomeEvent(o, c))
    /\ WriteFailed(Settled(t, OutcomeEvent(o, c)), Retained(t))
    /\ unclean' = (unclean \/ ~c)

\* Mutant: a settlement the store did not take is not repeated.
SettleTask_Once(t) ==
    /\ driver[t].pc = "settle"
    /\ \/ SettleEnds(t, driver[t].outcome, driver[t].cleanup)
       \/ SettleFails(t, driver[t].outcome, driver[t].cleanup)
    /\ Leaves(t)
    /\ UNCHANGED <<guard, artifacts, env, life, claim, canceller, executor, ran>>

SettleTask(t) ==
    /\ driver[t].pc = "settle"
    /\ \/ SettleEnds(t, driver[t].outcome, driver[t].cleanup) /\ Leaves(t)
       \/ SettleFails(t, driver[t].outcome, driver[t].cleanup) /\ UNCHANGED driver
    /\ UNCHANGED <<guard, artifacts, env, life, claim, canceller, executor, ran>>

\* interrupt_before_execution
InterruptTask(t) ==
    /\ driver[t].pc = "interrupt"
    /\ LET ts == Settled(t, Event("HostLost")) IN
       \/ (~Readable \/ IsTerminal(task[t])) /\ Leaves(t) /\ UNCHANGED store
       \/ ~IsTerminal(task[t]) /\ Committed(ts, Retained(t), readiness) /\ Leaves(t)
       \/ ~IsTerminal(task[t]) /\ WriteFailed(ts, Retained(t)) /\ UNCHANGED driver
    /\ UNCHANGED <<guard, artifacts, env, life, claim, canceller, executor, ran, unclean>>

-----------------------------------------------------------------------------
(* task.cancel.                                                            *)

Cancels(t, pc, won) == canceller' = [canceller EXCEPT ![t] = [pc |-> pc, won |-> won]]

\* Mutant: the request of a running Task goes to the claim without being recorded.
CancelTask_Unrecorded(t) ==
    /\ serving /\ Readable
    /\ canceller[t].pc = "idle"
    /\ task[t].state = "running" /\ ~task[t].cancel
    /\ Committed(task, dedup, readiness)
    /\ Cancels(t, "claim", FALSE)
    /\ UNCHANGED <<guard, artifacts, env, life, driver, claim, executor, ran, unclean>>

\* cancel_task under the lock.  A queued Task is settled in this commit; a running one
\* records the request, and only a stored request goes on to the claim.  A call for a
\* terminal Task or one already being cancelled only reads.
CancelTask(t) ==
    /\ serving /\ Readable
    /\ canceller[t].pc = "idle"
    /\ NonTerminal(t) /\ ~task[t].cancel
    /\ LET asked   == After(task[t], Event("RequestCancel"))
           settled == After(asked, Event("SettleCancellation"))
           queued  == [task EXCEPT ![t] = settled]
           running == [task EXCEPT ![t] = asked]
       IN \/ /\ task[t].state = "queued"
             /\ \/ Committed(queued, Retained(t), readiness)
                \/ WriteFailed(queued, Retained(t))
             /\ UNCHANGED canceller
          \/ /\ task[t].state = "running"
             /\ \/ Committed(running, dedup, readiness) /\ Cancels(t, "claim", FALSE)
                \/ WriteFailed(running, dedup) /\ UNCHANGED canceller
    /\ UNCHANGED <<guard, artifacts, env, life, driver, claim, executor, ran, unclean>>

\* Mutant: the request wins over a publication that is committed.
CancelClaim_AfterPublication(t) ==
    /\ canceller[t].pc = "claim"
    /\ \/ /\ ~claim[t].entry
          /\ Cancels(t, "poll", FALSE)
          /\ UNCHANGED claim
       \/ /\ claim[t].entry
          /\ claim' = [claim EXCEPT ![t].requested = TRUE]
          /\ Cancels(t, "await", FALSE)
    /\ UNCHANGED <<store, guard, artifacts, env, life, driver, executor, ran, unclean>>

\* LocalExecutionClaims::cancel up to its wait: no entry means completion won; a
\* publication that is committed wins over the request.
CancelClaim(t) ==
    /\ canceller[t].pc = "claim"
    /\ \/ /\ ~claim[t].entry
          /\ Cancels(t, "poll", FALSE)
          /\ UNCHANGED claim
       \/ /\ claim[t].entry
          /\ claim' = [claim EXCEPT ![t].requested = ~claim[t].published]
          /\ Cancels(t, "await", claim[t].published)
    /\ UNCHANGED <<store, guard, artifacts, env, life, driver, executor, ran, unclean>>

\* The claim is finished: the cancellation settles the Task, or waits for its driver to.
CancelAwait(t) ==
    /\ canceller[t].pc = "await"
    /\ claim[t].finished
    /\ Cancels(t, IF canceller[t].won THEN "poll" ELSE "settle", FALSE)
    /\ UNCHANGED <<store, guard, artifacts, env, life, driver, claim, executor, ran, unclean>>

CancelSettle(t) ==
    /\ canceller[t].pc = "settle"
    /\ \/ SettleEnds(t, "cancelled", claim[t].cleanup) /\ Cancels(t, "idle", FALSE)
       \/ SettleFails(t, "cancelled", claim[t].cleanup) /\ UNCHANGED canceller
    /\ UNCHANGED <<guard, artifacts, env, life, driver, claim, executor, ran>>

\* The caller's wait for the driver's settlement ends: with the terminal snapshot, a
\* read error, or the five-second timeout.
CancelPoll(t) ==
    /\ canceller[t].pc = "poll"
    /\ Cancels(t, "idle", FALSE)
    /\ UNCHANGED <<store, guard, artifacts, env, life, driver, claim, executor, ran, unclean>>

-----------------------------------------------------------------------------
(* The host, the disk, the guards, and what survives a crash.              *)

\* The scheduler's task publishes runtime.ready before its loop.  A state that cannot be
\* read, or an admission that is not stored (an Automation waits for the event), ends it
\* there; one that is stored changes no Task of this module.
PublishRuntimeReady ==
    /\ loop = "starting"
    /\ \/ Readable /\ loop' = "running" /\ UNCHANGED store
       \/ ~Readable /\ loop' = "ended" /\ UNCHANGED store
       \/ Ready /\ WriteFailed(task, dedup) /\ loop' = "ended"
    /\ UNCHANGED <<guard, artifacts, env, instance, serving, driver, claim, canceller, executor, ran, unclean>>

\* Mutant: the probe waits for the Runtime to be ready, as every other operation does.
RecoverStore_WhenReady ==
    /\ loop = "running" /\ store_failed /\ Ready
    /\ Committed(task, dedup, readiness) \/ WriteFailed(task, dedup)
    /\ UNCHANGED <<guard, artifacts, env, life, driver, claim, canceller, executor, ran, unclean>>

\* recover_store: the scheduler's probe writes the state unchanged.
RecoverStore ==
    /\ loop = "running" /\ store_failed
    /\ Committed(task, dedup, readiness) \/ WriteFailed(task, dedup)
    /\ UNCHANGED <<guard, artifacts, env, life, driver, claim, canceller, executor, ran, unclean>>

\* A registration or withdrawal of a capability changes what the resolver answers.
ChangeCapability ==
    /\ serving
    /\ \E e \in (Generations \cup {"none"}) \ {executor} : executor' = e
    /\ UNCHANGED <<store, guard, artifacts, env, life, driver, claim, canceller, ran, unclean>>

DiskFault ==
    /\ disk = "ok" /\ faults < MaxFaults
    /\ faults' = faults + 1
    /\ \E f \in Faults : disk' = f
    /\ UNCHANGED <<store, guard, artifacts, life, driver, claim, canceller, executor, ran, unclean>>

DiskHeals ==
    /\ disk # "ok"
    /\ disk' = "ok"
    /\ UNCHANGED <<store, guard, artifacts, faults, life, driver, claim, canceller, executor, ran, unclean>>

\* The command exits, runs out of time, is cancelled or loses its owner: the guard
\* reaps its process group and appends the clean verdict to its proof.
GuardCleans(t) ==
    /\ guard[t] = "live"
    /\ guard' = [guard EXCEPT ![t] = "clean"]
    /\ UNCHANGED <<store, artifacts, env, life, driver, claim, canceller, executor, ran, unclean>>

\* The guard is killed before it wrote a verdict: by the system, or by its runner once it
\* ignores its own budget.
GuardDies(t) ==
    /\ guard[t] = "live" /\ faults < MaxFaults
    /\ faults' = faults + 1
    /\ guard' = [guard EXCEPT ![t] = "lost"]
    /\ UNCHANGED <<store, artifacts, disk, life, driver, claim, canceller, executor, ran, unclean>>

Crash ==
    /\ serving /\ instance < MaxInstance
    /\ serving' = FALSE /\ loop' = "down"
    /\ instance' = instance + 1
    /\ driver' = [t \in Tasks |-> NoDriver]
    /\ claim' = [t \in Tasks |-> NoClaim]
    /\ canceller' = [t \in Tasks |-> NoCanceller]
    /\ executor' = "none"
    /\ readiness' = "ready" /\ store_failed' = FALSE /\ unclean' = FALSE
    /\ UNCHANGED <<durable, guard, artifacts, env, ran>>

\* A proof left by another boot is clean, and no process outlives its boot.
Reboot ==
    /\ ~serving
    /\ \E t \in Tasks : Alive(t)
    /\ guard' = [t \in Tasks |-> IF Alive(t) THEN "clean" ELSE guard[t]]
    /\ UNCHANGED <<store, artifacts, env, life, driver, claim, canceller, executor, ran, unclean>>

\* build_guard_recovery_plan and guards_are_clean: every proof has its verdict, and
\* every unsettled Task has a proof.
GuardsAreClean == \A t \in Tasks : /\ ~Alive(t)
                                   /\ NonTerminal(t) => guard[t] = "clean"

\* Every unsettled Task becomes interrupted, and its request settled.
Interrupted == [t \in Tasks |-> IF NonTerminal(t) THEN After(task[t], Event("HostLost"))
                                                  ELSE task[t]]
Released    == [t \in Tasks |-> IF NonTerminal(t) THEN "settled" ELSE dedup[t]]

Interrupts == /\ \E t \in Tasks : NonTerminal(t)
              /\ disk \in {"ok", "unsynced"}
              /\ task' = Interrupted
              /\ dedup' = Released
              /\ UNCHANGED <<readiness, store_failed>>

\* recover_old_instance of the starting instance; a failed commit fails the start.
RecoverOldInstance ==
    /\ ~serving
    /\ GuardsAreClean
    /\ Interrupts
    /\ UNCHANGED <<guard, artifacts, env, life, driver, claim, canceller, executor, ran, unclean>>

\* clear_stranded_executions: the user's recovery, which asks no guard.
ClearStranded ==
    /\ ~serving
    /\ Interrupts
    /\ UNCHANGED <<guard, artifacts, env, life, driver, claim, canceller, executor, ran, unclean>>

\* Mutant: the host is published before the old instance's work is settled.
Serve_Unrecovered ==
    /\ ~serving /\ Readable
    /\ GuardsAreClean
    /\ guard' = [t \in Tasks |-> "none"]
    /\ serving' = TRUE /\ loop' = "starting"
    /\ UNCHANGED <<store, artifacts, env, instance, driver, claim, canceller, executor, ran, unclean>>

\* The rest of activate_app_host: the proofs are retired and the host is published.
Serve ==
    /\ ~serving /\ Readable
    /\ GuardsAreClean
    /\ \A t \in Tasks : ~NonTerminal(t)
    /\ guard' = [t \in Tasks |-> "none"]
    /\ serving' = TRUE /\ loop' = "starting"
    /\ UNCHANGED <<store, artifacts, env, instance, driver, claim, canceller, executor, ran, unclean>>

-----------------------------------------------------------------------------
Init ==
    /\ task = [t \in Tasks |-> NoTask]
    /\ dedup = [t \in Tasks |-> "none"]
    /\ guard = [t \in Tasks |-> "none"]
    /\ artifacts = [t \in Tasks |-> {}]
    /\ disk = "ok" /\ faults = 0
    /\ instance = 1 /\ serving = TRUE /\ loop = "starting"
    /\ driver = [t \in Tasks |-> NoDriver]
    /\ claim = [t \in Tasks |-> NoClaim]
    /\ canceller = [t \in Tasks |-> NoCanceller]
    /\ executor = "none" /\ readiness = "ready" /\ store_failed = FALSE
    /\ ran = {} /\ unclean = FALSE

DriverStep(t) ==
    \/ TakePermit(t) \/ DeclineTask(t) \/ StartTask(t)
    \/ CheckExecutor(t) \/ Checkpoint(t) \/ ProcessEnds(t) \/ CommandResult(t)
    \/ FinishClaim(t) \/ RemoveClaim(t)
    \/ SettleTask(t) \/ InterruptTask(t)

CancelStep(t) == CancelClaim(t) \/ CancelAwait(t) \/ CancelSettle(t) \/ CancelPoll(t)

HostStep == \/ PublishRuntimeReady \/ RecoverStore \/ ChangeCapability \/ DiskFault \/ DiskHeals
            \/ Crash \/ Reboot \/ RecoverOldInstance \/ ClearStranded \/ Serve

Next == \/ \E t \in Tasks : \/ AdmitTask(t) \/ DriverStep(t)
                            \/ CancelTask(t) \/ CancelStep(t)
                            \/ GuardCleans(t) \/ GuardDies(t)
        \/ HostStep

Spec == Init /\ [][Next]_vars

\* The tokio runtime polls every ready future and hands its permits out in order; a
\* command has a deadline; the scheduler's loop keeps probing once it runs; a transient disk
\* fault passes; a host that is down is started again.
Fairness ==
    /\ \A t \in Tasks : /\ WF_vars(DriverStep(t))
                         /\ SF_vars(TakePermit(t))
                         /\ WF_vars(CancelStep(t))
                         /\ WF_vars(GuardCleans(t))
    /\ WF_vars(PublishRuntimeReady)
    /\ WF_vars(RecoverStore)
    /\ WF_vars(DiskHeals)
    /\ WF_vars(RecoverOldInstance)
    /\ WF_vars(Serve)

FairSpec == Spec /\ Fairness

-----------------------------------------------------------------------------
(* Properties.                                                             *)

TaskRec      == [state : TaskState, cancel : BOOLEAN,
                 executor : Generations \cup {"none"}, instance : Nat]
DriverRec    == [pc : DriverPc, outcome : {"completed", "failed", "cancelled"},
                 cleanup : BOOLEAN]
ClaimRec     == [entry : BOOLEAN, requested : BOOLEAN, published : BOOLEAN,
                 finished : BOOLEAN, cleanup : BOOLEAN]
CancellerRec == [pc : {"idle", "claim", "await", "settle", "poll"}, won : BOOLEAN]
Readiness    == {"ready", STORE_UNAVAILABLE, CLEANUP_UNVERIFIED}

\* Every variable has its type: the records of core.rs, ports.rs and the host.
TypeOK ==
    /\ task \in [Tasks -> TaskRec]
    /\ dedup \in [Tasks -> {"none", "pending", "settled"}]
    /\ guard \in [Tasks -> {"none", "live", "clean", "lost"}]
    /\ artifacts \in [Tasks -> SUBSET {"confirmed", "unconfirmed"}]
    /\ disk \in {"ok"} \cup Faults
    /\ faults \in 0..MaxFaults
    /\ instance \in 1..MaxInstance
    /\ serving \in BOOLEAN
    /\ loop \in {"down", "starting", "running", "ended"}
    /\ driver \in [Tasks -> DriverRec]
    /\ claim \in [Tasks -> ClaimRec]
    /\ canceller \in [Tasks -> CancellerRec]
    /\ executor \in Generations \cup {"none"}
    /\ readiness \in Readiness
    /\ store_failed \in BOOLEAN
    /\ ran \subseteq Tasks
    /\ unclean \in BOOLEAN

\* A Task that is recorded completed, failed or cancelled has no process left: whoever
\* settled it, its driver or its canceller, had the guard's clean verdict or had started
\* nothing.  Every other end is an interruption (core.rs settle_once, task.rs apply).
SettledMeansStopped ==
    \A t \in Tasks : task[t].state \in {"completed", "failed", "cancelled"} => ~Alive(t)

\* A cancelled Task has no artifact whose publication succeeded, whatever the order in which
\* its driver published and its canceller reached the claim, and a completed Task has none
\* whose publication was reported as failed (ports.rs publish and cancel, command.rs).
EndFitsPublications ==
    \A t \in Tasks : /\ task[t].state = "cancelled" => "confirmed" \notin artifacts[t]
                     /\ task[t].state = "completed" => "unconfirmed" \notin artifacts[t]

\* What a canceller would like to rely on: a cancelled Task has no artifact in the manifest.
\* A publication that landed and was reported as failed leaves the claim open to a
\* cancellation (ports.rs publish), so this does not hold.
CancelledRecordsNothing ==
    \A t \in Tasks : task[t].state = "cancelled" => artifacts[t] = {}

\* A settlement is never refused by the Task's lifecycle, which would leave the Task
\* unsettled and its driver gone (core.rs settle_once, task.rs apply).
SettlementIsLegal ==
    \A t \in Tasks : ~IsTerminal(task[t]) =>
        /\ driver[t].pc = "settle" =>
              Legal(task[t], OutcomeEvent(driver[t].outcome, driver[t].cleanup))
        /\ canceller[t].pc = "settle" =>
              Legal(task[t], OutcomeEvent("cancelled", claim[t].cleanup))

\* Readiness withdrawn for a failed write is always marked for the probe of the loop, and no
\* instance is ready while its last write failed (core.rs commit and recover_store).
StoreFaultTracked ==
    /\ store_failed => ~Ready
    /\ readiness = STORE_UNAVAILABLE => store_failed

\* A host that serves owns all unsettled work, and nothing a dead instance started is
\* still running (recover_old_instance and build_guard_recovery_plan).
ServingOwnsItsWork ==
    serving => \A t \in Tasks : task[t].instance # instance => ~NonTerminal(t) /\ ~Alive(t)

\* A request is held unexpired exactly while its Task is unsettled, also over writes
\* that land although they are reported as failed (the store refuses any other state:
\* persistence/src/model.rs).
RequestFollowsTask ==
    \A t \in Tasks : /\ dedup[t] = "pending" <=> NonTerminal(t)
                     /\ dedup[t] = "settled" <=> IsTerminal(task[t])

\* No step changes a terminal Task: of the driver, the canceller, an interruption and
\* the recovery of a restart, the first settlement stands.
TerminalIsFinal ==
    [][\A t \in Tasks : IsTerminal(task[t]) => task'[t] = task[t]]_vars

\* A running Task ends, unless its instance does, although the store refuses writes for
\* a while, its guard dies, or its cancellation races its completion (i8_task.rs:690).
RunningTaskEnds ==
    \A t \in Tasks : task[t].state = "running" ~> (IsTerminal(task[t]) \/ ~serving)

\* The store is found writable again after a failed write, without another request, as long
\* as the scheduler's loop has not ended before its first pass.
StoreRecovers == store_failed ~> (~store_failed \/ loop = "ended")

\* "The resident loop wakes to probe the store until it takes writes again" (core.rs:1496)
\* and the Runtime "is ready again by itself" (CHANGELOG.md:159), also when the write that
\* failed is the first of the scheduler's task.
StoreAlwaysRecovers == store_failed ~> ~store_failed

\* Every task.cancel call is answered.
CancelAnswers == \A t \in Tasks : canceller[t].pc # "idle" ~> canceller[t].pc = "idle"

\* What the comment on restore_readiness_from (vertical.rs) and the one on
\* store_write_recovered (ports.rs) promise: readiness withdrawn for an unverified
\* cleanup is not restored by a write that succeeds.  No settlement is under way that
\* would withdraw it again.
UncleanStaysWithdrawn ==
    unclean /\ (\A t \in Tasks : driver[t].pc # "settle" /\ canceller[t].pc # "settle")
        => ~Ready

\* What the limit in validate_state (atomic.rs) asserts of every state the core builds:
\* a driver that holds one of MaxRunning permits finds room to start its Task.
PermitMeansRoom == \A t \in Tasks : MayStart(t) => WithinLimits(Started(t))

\* What the comment on until_stored (core.rs) says of the work a dying instance leaves:
\* its successor's recovery settles it.
SuccessorSettles ==
    \A t \in Tasks : (~serving /\ NonTerminal(t)) ~> ~NonTerminal(t)

\* The Task as its clients see it (module TaskContract).
Contract == INSTANCE TaskContract
              WITH status <- [t \in Tasks |-> task[t].state],
                   asked  <- {t \in Tasks : task[t].cancel},
                   live   <- {t \in Tasks : Alive(t)}

\* Every step of the Runtime is a step the Task contract allows.
ImplementsContract == Contract!Spec
=============================================================================
