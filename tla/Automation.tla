----------------------------- MODULE Automation -----------------------------
(***************************************************************************)
(* Automations: their records and executions in the canonical store, the   *)
(* tool that changes them (runtime/src/automation_tool.rs), the resident   *)
(* scheduler that admits their dues, events and requested runs             *)
(* (automation_scheduler.rs, automation_execution.rs) and the driver of    *)
(* each admitted execution (automation_engine.rs, automation.rs).          *)
(*                                                                         *)
(* Every commit is one step.  The scheduler reads what is due in one step  *)
(* and admits it in later ones, so the tool, the drivers and the clock run *)
(* in between.  A write may fail, and may land although it is reported as  *)
(* failed; the process may die between any two steps.  Instants are small  *)
(* numbers, an action tree is the visits it makes, and a request with a    *)
(* stale expected_revision changes nothing and is left out.                *)
(***************************************************************************)
EXTENDS Naturals, FiniteSets, FiniteSetsExt, TaskLifecycle

CONSTANTS
    Triggers,       \* "at", "interval" and the names of the registered events
    Autos,          \* the ids the tool creates Automations under
    MaxExecutions,  \* bound: executions the store has room for
    MaxNow,         \* bound: the last instant of the wall clock
    Every,          \* the interval of an interval trigger
    MaxQueued,      \* MAX_QUEUED_TASKS
    MaxRunning,     \* MAX_RUNNING_TASKS, which the store enforces
    MaxHistory,     \* MAX_TERMINAL_EXECUTIONS_PER_AUTOMATION
    MaxHistoryAll,  \* MAX_TERMINAL_AUTOMATION_EXECUTIONS
    MaxVisits,      \* bound: the visits of one action tree
    MaxCalls,       \* bound: how many tool calls, cancels and network changes happen
    MaxMishaps      \* bound: how often a write or a read fails, or the process dies

ASSUME AutomationAssumption ==
    /\ Triggers \subseteq {"at", "interval", "runtime.ready", "network.default_changed"}
    /\ {MaxExecutions, Every, MaxQueued, MaxRunning} \subseteq Nat \ {0}
    /\ {MaxNow, MaxHistory, MaxHistoryAll, MaxVisits, MaxCalls,
      MaxMishaps}
         \subseteq Nat
    /\ "none" \notin Autos

VARIABLES
    store,       \* durable: the Automations, their executions, the container Tasks
    storeBad,    \* store_failed, which also withdraws readiness
    drv,         \* each execution's driver: where it is, and the outcome it settles
    flag,        \* each execution's AutomationCancellation
    waking,      \* durable cancels whose caller has not raised the flag yet
    child,       \* the child Task of each execution's current Call
    sched,       \* the scheduler's pass
    armed,       \* the due the wake projection holds, as the scheduler believes
    changed,     \* the permit of canonical_changes
    net,         \* the default-network subscription, and its undelivered event
    now, calls, mishaps

autoVars == <<store, storeBad, drv, flag, waking, child, sched, armed, changed, net, now,
              calls, mishaps>>

Execs    == 1..MaxExecutions
None     == 0
NoDue    == MaxNow + Every + 1
Unset    == NoDue + 1
Live     == {"queued", "running"}
Timed    == {"at", "interval"}

NoAutomation == [st |-> "unborn", enabled |-> FALSE, trigger |-> "at", due |-> NoDue,
                 requested |-> FALSE, active |-> None]
Removed(st)  == [NoAutomation EXCEPT !.st = st]
NoExecution  == [state |-> "absent", owner |-> "none", at |-> 0, by |-> "none"]
NoDriver     == [pc |-> "none", out |-> "none", visits |-> 0]
NoTaskYet    == [state |-> "absent", cancel |-> FALSE]

Ready == ~storeBad

-----------------------------------------------------------------------------
(* What the store holds.                                                   *)

Visible(s, a)  == s.auto[a].st = "visible"
Queued(s)      == {e \in Execs : s.task[e].state \in {"created", "queued"}}
Running(s)     == {e \in Execs : s.task[e].state = "running"}
Unused(s)      == {e \in Execs : s.task[e].state = "absent"}
Ended(s)       == {e \in Execs : s.exec[e].state \in Terminal}
OwnedBy(s, a)  == {e \in Execs : s.exec[e].owner = a}

\* armable_due: busy, disabled, deleted and event Automations have none.
ArmableDue(s, a) ==
    IF /\ Visible(s, a) /\ s.auto[a].enabled /\ s.auto[a].active = None
       /\ s.auto[a].trigger \in Timed
      THEN s.auto[a].due ELSE NoDue

DueAt(s, t) == {a \in Autos : ArmableDue(s, a) <= t}

\* The earliest due to arm; the expired dues of blocked Automations are left out.
EarliestDue(s, blocked, t) ==
    Min({NoDue} \cup {ArmableDue(s, a) : a \in {b \in Autos :
                                         ~(b \in blocked /\ ArmableDue(s, b) <= t)}})

AcceptsEvent(s, a, name) == Visible(s, a) /\ s.auto[a].enabled /\ s.auto[a].trigger = name

RequiresNetwork(s) == \E a \in Autos : AcceptsEvent(s, a, "network.default_changed")

-----------------------------------------------------------------------------
(* Transitions of the canonical state.                                     *)

\* initial_due of a trigger committed now: an instant after it.
InitialDue(trigger) ==
    CASE trigger = "at" -> now + 1
      [] trigger = "interval" -> now + Every
      [] OTHER -> NoDue

\* scheduled_due: an enabled Automation that keeps its trigger and has a due keeps it.
ScheduledDue(old, trigger, enabled) ==
    IF ~enabled THEN NoDue
    ELSE IF old.enabled /\ old.trigger = trigger /\ old.due # NoDue THEN old.due
    ELSE InitialDue(trigger)

\* apply_definition
Saved(old, trigger, enabled) ==
    [old EXCEPT !.st = "visible", !.enabled = enabled, !.trigger = trigger,
                !.due = ScheduledDue(old, trigger, enabled)]

\* next_due_after_admission: missed occurrences coalesce to the first one after t.
NextDue(trigger, due, t) ==
    IF trigger = "interval" THEN due + ((t - due) \div Every + 1) * Every ELSE NoDue

\* reserve_admission_capacity; the bound on executions stands for the store's bytes.
HasRoom(s) == Cardinality(Queued(s)) < MaxQueued /\ Unused(s) # {}

\* Why create_execution refuses, if it does.
MayCreate(s) == Ready /\ HasRoom(s)

\* create_execution: a queued execution with its container Task, in one commit.
Created(s, a, at, by) ==
    LET e == Min(Unused(s))
    IN  [s EXCEPT !.auto[a].active = e,
                  !.exec[e] = [state |-> "queued", owner |-> a, at |-> at, by |-> by],
                  !.task[e] = After(NewLifecycle, Event("Queue"))]

\* The n youngest stay of the terminal executions S; the others leave the history.
Excess(x, S, n) ==
    LET Older(f, e) == x[f].at < x[e].at \/ (x[f].at = x[e].at /\ f < e)
    IN  {e \in S : Cardinality({f \in S : Older(f, e)}) + n < Cardinality(S)}

Without(s, gone) == [s EXCEPT !.exec = [e \in Execs |-> IF e \in gone THEN NoExecution
                                                                    ELSE s.exec[e]]]

\* prune_execution_history
Pruned(s, a) ==
    LET one == Without(s, Excess(s.exec, OwnedBy(s, a) \cap Ended(s), MaxHistory))
    IN  Without(one, Excess(one.exec, Ended(one), MaxHistoryAll))

SettleEvent(how) == CASE how = "completed"   -> Event("Complete")
                      [] how = "failed"      -> Event("Fail")
                      [] how = "cancelled"   -> Event("SettleCancellation")
                      [] how = "interrupted" -> Event("HostLost")

SettledTask(lc, how) ==
    After(IF how = "cancelled" THEN After(lc, Event("RequestCancel")) ELSE lc,
          SettleEvent(how))

\* settle_automation_in_state answers an error for an execution that is gone or terminal,
\* or that does not own its Automation.
MaySettle(s, e) ==
    /\ s.exec[e].state \in Live
    /\ s.auto[s.exec[e].owner].active = e

\* Mutant: the settlement of a deleted Automation's execution keeps the tombstone.
Settled_KeepsTombstone(s, e, how) ==
    LET a    == s.exec[e].owner
        done == [s EXCEPT !.task[e] = SettledTask(@, how), !.exec[e].state = how]
    IN  Pruned([done EXCEPT !.auto[a].active = None], a)

\* settle_automation_in_state: the execution and its Task, then the tombstone with the
\* whole history of a deleted Automation, or the pruned history of any other.
Settled(s, e, how) ==
    LET a    == s.exec[e].owner
        done == [s EXCEPT !.task[e] = SettledTask(@, how), !.exec[e].state = how]
    IN  IF s.auto[a].st = "deleted"
          THEN [Without(done, OwnedBy(done, a)) EXCEPT !.auto[a] = Removed("gone")]
          ELSE Pruned([done EXCEPT !.auto[a].active = None], a)

-----------------------------------------------------------------------------
(* Commits.                                                                *)

\* A write succeeds, is lost, or lands although it is reported as failed.
Outcomes == {"ok"} \cup (IF mishaps < MaxMishaps THEN {"lost", "landed"} ELSE {})

\* Mutant: only a write that succeeds wakes the scheduler.
Committed_Silent(s, out) ==
    /\ store' = IF out = "lost" THEN store ELSE s
    /\ storeBad' = (out # "ok")
    /\ changed' = (changed \/ out = "ok")
    /\ mishaps' = IF out = "ok" THEN mishaps ELSE mishaps + 1

\* commit: a failed write, too, wakes the scheduler, whose next pass probes the store.
Committed(s, out) ==
    /\ store' = IF out = "lost" THEN store ELSE s
    /\ storeBad' = (out # "ok")
    /\ changed' = TRUE
    /\ mishaps' = IF out = "ok" THEN mishaps ELSE mishaps + 1

NoCommit == UNCHANGED <<store, storeBad, changed, mishaps>>

\* The store refuses a state with more Running Tasks than its limit.
WithinRunning(s) == Cardinality(Running(s)) <= MaxRunning

-----------------------------------------------------------------------------
(* The automation tool and the cancellation of a container Task.           *)

Up    == sched.pc # "down"
Calls == /\ Up /\ calls < MaxCalls
         /\ calls' = calls + 1
         /\ UNCHANGED <<drv, flag, child, sched, armed, net, now>>

SaveNew(a, trigger, enabled) ==
    /\ store.auto[a].st = "unborn"
    /\ \E out \in Outcomes :
         Committed([store EXCEPT !.auto[a] = Saved(NoAutomation, trigger, enabled)], out)
    /\ Calls /\ UNCHANGED waking

\* An update, or set_enabled, which is an update with the same trigger.
SaveUpdate(a, trigger, enabled) ==
    /\ Visible(store, a)
    /\ \E out \in Outcomes :
         Committed([store EXCEPT !.auto[a] = Saved(store.auto[a], trigger, enabled)], out)
    /\ Calls /\ UNCHANGED waking

\* A busy Automation becomes a tombstone, any other goes with its history.
Delete(a) ==
    /\ Visible(store, a)
    /\ \E out \in Outcomes :
         Committed(IF store.auto[a].active = None
                     THEN [Without(store, OwnedBy(store, a)) EXCEPT !.auto[a] = Removed("gone")]
                     ELSE [store EXCEPT !.auto[a].st = "deleted", !.auto[a].due = NoDue], out)
    /\ Calls /\ UNCHANGED waking

RequestRun(a) ==
    /\ Visible(store, a)
    /\ store.auto[a].active = None /\ ~store.auto[a].requested
    /\ \E out \in Outcomes : Committed([store EXCEPT !.auto[a].requested = TRUE], out)
    /\ Calls /\ UNCHANGED waking

\* cancel_task of a container Task: a queued execution settles in this commit, a running
\* one has the request recorded and is woken once it is durable.
CancelContainer(e) ==
    LET asked == [store EXCEPT !.task[e] = After(@, Event("RequestCancel"))]
    IN  /\ store.task[e].state \in Live /\ ~store.task[e].cancel
        /\ \E out \in Outcomes :
             /\ Committed(IF store.task[e].state = "queued"
                            THEN Settled(asked, e, "cancelled") ELSE asked, out)
             /\ waking' = IF out = "ok" THEN waking \cup {e} ELSE waking
        /\ Calls

\* request_automation_cancellation: only a registered execution has a flag to raise.
WakeCancelled(e) ==
    /\ e \in waking
    /\ waking' = waking \ {e}
    /\ flag' = [flag EXCEPT ![e] = @ \/ drv[e].pc # "none"]
    /\ NoCommit /\ UNCHANGED <<drv, child, sched, armed, net, now, calls>>

-----------------------------------------------------------------------------
(* The scheduler: one pass after another, each commit of a pass a step.    *)

Env       == <<waking, flag, child, now, calls>>
Goes(pc)  == sched' = [sched EXCEPT !.pc = pc]
Spawn(E)  == [e \in Execs |-> IF e \in E THEN [NoDriver EXCEPT !.pc = "start"] ELSE drv[e]]

\* recover_store probes a store whose last write failed; then the requested runs are read.
SchedRecover ==
    LET reads == [sched EXCEPT !.pc = "requested",
                    !.todo = {a \in Autos : store.auto[a].requested}]
    IN  /\ sched.pc = "recover"
        /\ IF storeBad
             THEN \E out \in Outcomes :
                    /\ Committed(store, out)
                    /\ sched' = IF out = "ok" THEN reads ELSE [sched EXCEPT !.pc = "paused"]
             ELSE NoCommit /\ sched' = reads
        /\ UNCHANGED <<Env, drv, armed, net>>

\* admit_requested: the request is consumed whatever becomes of it.
AdmitRequested(a) ==
    LET asked == [store EXCEPT !.auto[a].requested = FALSE]
        runs  == Visible(store, a) /\ store.auto[a].active = None /\ MayCreate(store)
    IN  /\ sched.pc = "requested" /\ a \in sched.todo
        /\ IF store.auto[a].requested
             THEN \E out \in Outcomes :
                    /\ Committed(IF runs THEN Created(asked, a, now, "request") ELSE asked, out)
                    /\ sched' = IF out = "ok" THEN [sched EXCEPT !.todo = @ \ {a}]
                                              ELSE [sched EXCEPT !.pc = "paused", !.todo = {}]
                    /\ drv' = IF out = "ok" /\ runs THEN Spawn({Min(Unused(store))}) ELSE drv
             ELSE NoCommit /\ sched' = [sched EXCEPT !.todo = @ \ {a}] /\ UNCHANGED drv
        /\ UNCHANGED <<Env, armed, net>>

\* wake reads the clock once and then what is due at that instant.
SchedReadDues ==
    /\ sched.pc = "requested" /\ sched.todo = {}
    /\ sched' = [sched EXCEPT !.pc = "due", !.at = now, !.todo = DueAt(store, now)]
    /\ NoCommit /\ UNCHANGED <<Env, drv, armed, net>>

\* Mutant: the due is left as it is in the commit that admits it.
Advanced_Kept(s, a, t) == s

\* The due of an admitted occurrence is advanced in the commit that admits it.
Advanced(s, a, t) ==
    [s EXCEPT !.auto[a].due = NextDue(s.auto[a].trigger, s.auto[a].due, t)]

\* admit_due: what was read as due is looked at again under the lock.
AdmitDue(a) ==
    LET eligible == ArmableDue(store, a) <= sched.at
        admitted == Created(Advanced(store, a, sched.at), a, store.auto[a].due, "due")
    IN  /\ sched.pc = "due" /\ a \in sched.todo
        /\ IF eligible /\ MayCreate(store)
             THEN \E out \in Outcomes :
                    /\ Committed(admitted, out)
                    /\ sched' = IF out = "ok" THEN [sched EXCEPT !.todo = @ \ {a}]
                                ELSE [sched EXCEPT !.pc = "paused", !.todo = {}, !.blocked = {}]
                    /\ drv' = IF out = "ok" THEN Spawn({Min(Unused(store))}) ELSE drv
             ELSE /\ NoCommit /\ UNCHANGED drv
                  /\ sched' = [sched EXCEPT !.todo = @ \ {a},
                                 !.blocked = IF eligible THEN @ \cup {a} ELSE @]
        /\ UNCHANGED <<Env, armed, net>>

\* The earliest due left is armed, and the network subscription kept exactly while an
\* enabled network Automation needs it; it may be refused.  The exact-alarm grant is held.
ArmAndWait ==
    LET next == EarliestDue(store, sched.blocked, sched.at)
    IN  /\ sched.pc = "due" /\ sched.todo = {}
        /\ armed' = next
        /\ sched' = [sched EXCEPT !.pc = "wait", !.blocked = {}, !.at = 0]
        /\ net' \in IF ~RequiresNetwork(store) THEN {"closed"}
                    ELSE IF net = "closed" THEN {"idle", "closed"} ELSE {net}
        /\ NoCommit /\ UNCHANGED <<Env, drv>>

\* The armed instant has passed; the wake is armed again from canonical truth.
WakeFires ==
    /\ sched.pc = "wait" /\ armed <= now
    /\ armed' = Unset
    /\ Goes("recover")
    /\ NoCommit /\ UNCHANGED <<Env, drv, net>>

ChangeNotified ==
    /\ sched.pc = "wait" /\ changed
    /\ changed' = FALSE
    /\ Goes("recover")
    /\ UNCHANGED <<store, storeBad, mishaps, Env, drv, armed, net>>

Candidates(name) == {a \in Autos : AcceptsEvent(store, a, name)}

NetworkEvent ==
    /\ sched.pc = "wait" /\ net = "pending"
    /\ net' = "idle"
    /\ sched' = [sched EXCEPT !.pc = "event", !.todo = Candidates("network.default_changed")]
    /\ NoCommit /\ UNCHANGED <<Env, drv, armed>>

\* The plane invalidated the subscription; the next pass subscribes again.
NetworkEnds ==
    /\ sched.pc = "wait" /\ net \in {"idle", "pending"} /\ mishaps < MaxMishaps
    /\ mishaps' = mishaps + 1
    /\ net' = "closed"
    /\ Goes("recover")
    /\ UNCHANGED <<store, storeBad, changed, Env, drv, armed>>

EventName == IF sched.pc = "ready" THEN "runtime.ready" ELSE "network.default_changed"

\* admit_event, once per candidate.  The executions it admits start together after the
\* last one, so an error on the way leaves the earlier ones without a driver; an error in
\* the publication of runtime.ready ends the scheduler before its loop.
AdmitEvent(a) ==
    LET admits == AcceptsEvent(store, a, EventName) /\ store.auto[a].active = None
                  /\ MayCreate(store)
    IN  /\ sched.pc \in {"ready", "event"} /\ a \in sched.todo
        /\ IF admits
             THEN \E out \in Outcomes :
                    /\ Committed(Created(store, a, now, "event"), out)
                    /\ sched' = IF out = "ok"
                                  THEN [sched EXCEPT !.todo = @ \ {a},
                                          !.held = @ \cup {Min(Unused(store))}]
                                  ELSE [sched EXCEPT !.todo = {}, !.held = {},
                                          !.pc = IF @ = "ready" THEN "ended" ELSE "paused"]
             ELSE NoCommit /\ sched' = [sched EXCEPT !.todo = @ \ {a}]
        /\ UNCHANGED <<Env, drv, armed, net>>

StartAdmitted ==
    /\ sched.pc \in {"ready", "event"} /\ sched.todo = {}
    /\ drv' = Spawn(sched.held)
    /\ sched' = [sched EXCEPT !.pc = "recover", !.held = {}]
    /\ NoCommit /\ UNCHANGED <<Env, armed, net>>

\* The bounded pause after a failed pass.
SchedRetries ==
    /\ sched.pc = "paused"
    /\ armed' = Unset
    /\ Goes("recover")
    /\ NoCommit /\ UNCHANGED <<Env, drv, net>>

-----------------------------------------------------------------------------
(* The driver of an admitted execution: run_automation_execution.          *)

DriverOnly == UNCHANGED <<waking, sched, armed, net, now, calls>>
Drives(e, pc)   == drv' = [drv EXCEPT ![e].pc = pc]
Concludes(e, o) == drv' = [drv EXCEPT ![e] = [@ EXCEPT !.pc = "settle", !.out = o]]
Returns(e)      == /\ drv' = [drv EXCEPT ![e] = NoDriver]
                   /\ flag' = [flag EXCEPT ![e] = FALSE]

Started(s, e) == [s EXCEPT !.task[e] = After(@, Event("Start")), !.exec[e].state = "running"]

\* start_automation_execution.  An execution that a cancel settled while it was queued has
\* nothing left to drive; a start the store refuses or fails leaves it queued, undriven.
StartExecution(e) ==
    /\ drv[e].pc = "start"
    /\ IF store.exec[e].state = "queued" /\ WithinRunning(Started(store, e))
         THEN \E out \in Outcomes :
                /\ Committed(Started(store, e), out)
                /\ IF out = "ok" THEN Drives(e, "run") /\ UNCHANGED flag ELSE Returns(e)
         ELSE NoCommit /\ Returns(e)
    /\ DriverOnly /\ UNCHANGED child

\* What checkpoint ends a run with: the cancellation comes before the expired budget.
Stop(e) == IF flag[e] THEN "cancelled" ELSE "failed"

\* One visit of the tree: its checkpoint passes, and it calls, or sets state.
VisitCall(e) ==
    /\ drv[e].pc = "run" /\ ~flag[e] /\ drv[e].visits < MaxVisits
    /\ drv' = [drv EXCEPT ![e].pc = "child", ![e].visits = @ + 1]
    /\ child' = [child EXCEPT ![e] = "active"]
    /\ NoCommit /\ DriverOnly /\ UNCHANGED flag

VisitSetState(e) ==
    /\ drv[e].pc = "run" /\ ~flag[e] /\ drv[e].visits < MaxVisits
    /\ MaySettle(store, e)
    /\ \E out \in Outcomes :
         /\ Committed(store, out)
         /\ drv' = [drv EXCEPT ![e].visits = @ + 1,
                      ![e].pc = IF out = "ok" THEN "run" ELSE "settle",
                      ![e].out = IF out = "ok" THEN "none" ELSE "failed"]
    /\ DriverOnly /\ UNCHANGED <<child, flag>>

\* A checkpoint stops the run, or the tree has been walked: no checkpoint follows its
\* last visit, so a cancel may lose to the completion.
VisitEnds(e) ==
    /\ drv[e].pc = "run"
    /\ Concludes(e, Stop(e)) \/ Concludes(e, "completed")
    /\ NoCommit /\ DriverOnly /\ UNCHANGED <<child, flag>>

\* The awaited child has settled; its failure ends the run unless on_failure continues.
ChildReturned(e) ==
    /\ drv[e].pc = "child" /\ child[e] = "settled"
    /\ child' = [child EXCEPT ![e] = "none"]
    /\ \/ ~flag[e] /\ Drives(e, "run")
       \/ Concludes(e, Stop(e))
    /\ NoCommit /\ DriverOnly /\ UNCHANGED flag

\* A child the driver waits for: "asked" is one whose cancellation another caller requested.
Followed == {"active", "asked"}

\* Mutant: a stopped run leaves its child to itself.
StopsChild_Leaves(e) ==
    /\ drv[e].pc = "child" /\ child[e] \in Followed
    /\ Concludes(e, Stop(e))
    /\ NoCommit /\ DriverOnly /\ UNCHANGED <<child, flag>>

\* A cancelled or expired run cancels its child and ends after it settled, interrupted if
\* the child's cleanup is unverified.  A child that is already being cancelled is not waited
\* for: it had settled by the time cancel_task looked at it.
StopsChild(e) ==
    /\ drv[e].pc = "child" /\ child[e] \in Followed
    /\ child' = [child EXCEPT ![e] = "none"]
    /\ Concludes(e, Stop(e)) \/ Concludes(e, "interrupted")
    /\ NoCommit /\ DriverOnly /\ UNCHANGED flag

\* Or it had not: cancel_task answers a call for a child whose cancellation is requested
\* already with the Running snapshot, and the run ends with its child at work.
LeavesChild(e) ==
    /\ drv[e].pc = "child" /\ child[e] = "asked"
    /\ child' = [child EXCEPT ![e] = "left"]
    /\ Concludes(e, Stop(e))
    /\ NoCommit /\ DriverOnly /\ UNCHANGED flag

\* The child cannot be read, or its cancellation fails or is not answered in its time: the
\* run goes on or ends without it.
LosesChild(e) ==
    /\ drv[e].pc = "child" /\ child[e] \in Followed /\ mishaps < MaxMishaps
    /\ child' = [child EXCEPT ![e] = "left"]
    /\ \/ ~flag[e] /\ Drives(e, "run")
       \/ Concludes(e, Stop(e))
    /\ mishaps' = mishaps + 1
    /\ UNCHANGED <<store, storeBad, changed, flag>> /\ DriverOnly

\* settle_automation_execution, repeated while the write fails.  A settlement that landed
\* is found terminal, or gone with its Automation, by the repetition.
SettleExecution(e) ==
    /\ drv[e].pc = "settle"
    /\ IF MaySettle(store, e)
         THEN \E out \in Outcomes :
                /\ Committed(Settled(store, e, drv[e].out), out)
                /\ IF out = "ok" THEN Returns(e) ELSE UNCHANGED <<drv, flag>>
         ELSE NoCommit /\ Returns(e)
    /\ DriverOnly /\ UNCHANGED child

-----------------------------------------------------------------------------
(* The environment, the end of the instance and its successor.             *)

ChildSettles(e) ==
    /\ child[e] \in {"active", "asked", "left"}
    /\ child' = [child EXCEPT ![e] = IF @ = "left" THEN "none" ELSE "settled"]
    /\ NoCommit /\ UNCHANGED <<drv, flag, waking, sched, armed, net, now, calls>>

\* cancel_task of the child Task, by a caller other than its driver.
ChildAsked(e) ==
    /\ child[e] = "active"
    /\ child' = [child EXCEPT ![e] = "asked"]
    /\ NoCommit /\ UNCHANGED <<drv, flag, waking, sched, armed, net, now, calls>>

Tick ==
    /\ now < MaxNow
    /\ now' = now + 1
    /\ UNCHANGED <<store, storeBad, drv, flag, waking, child, sched, armed, changed, net,
                   calls, mishaps>>

NetworkChange ==
    /\ net = "idle" /\ calls < MaxCalls
    /\ net' = "pending" /\ calls' = calls + 1
    /\ UNCHANGED <<store, storeBad, drv, flag, waking, child, sched, armed, changed, now,
                   mishaps>>

NoPass == [pc |-> "down", todo |-> {}, at |-> 0, blocked |-> {}, held |-> {}]

Volatile(pass) ==
    /\ storeBad' = FALSE /\ changed' = FALSE
    /\ drv' = [e \in Execs |-> NoDriver] /\ flag' = [e \in Execs |-> FALSE]
    /\ waking' = {} /\ child' = [e \in Execs |-> "none"]
    /\ armed' = Unset /\ net' = "closed"
    /\ sched' = pass

Die ==
    /\ Up /\ mishaps < MaxMishaps
    /\ mishaps' = mishaps + 1
    /\ Volatile(NoPass)
    /\ UNCHANGED <<store, now, calls>>

\* recover_old_instance settles every execution of the lost instance as interrupted, with
\* the tombstones they hold.  Each has its own Automation, so their order does not matter.
Interrupted(s) ==
    LET lost == {e \in Execs : s.task[e].state \in Live}
        dead == {a \in Autos : s.auto[a].st = "deleted" /\ s.auto[a].active \in lost}
        done == [auto |-> [a \in Autos |->
                             IF a \in dead THEN Removed("gone")
                             ELSE IF s.auto[a].active \in lost
                                    THEN [s.auto[a] EXCEPT !.active = None]
                                    ELSE s.auto[a]],
                 exec |-> [e \in Execs |->
                             IF s.exec[e].owner \in dead THEN NoExecution
                             ELSE IF e \in lost THEN [s.exec[e] EXCEPT !.state = "interrupted"]
                             ELSE s.exec[e]],
                 task |-> [e \in Execs |-> IF e \in lost THEN SettledTask(s.task[e], "interrupted")
                                                         ELSE s.task[e]]]
        over == UNION {Excess(done.exec, OwnedBy(done, a) \cap Ended(done), MaxHistory)
                         : a \in Autos}
        own  == Without(done, over)
    IN  Without(own, Excess(own.exec, Ended(own), MaxHistoryAll))

\* The recovery of the next activation; it publishes runtime.ready before its loop.
Activate ==
    /\ sched.pc = "down"
    /\ store' = Interrupted(store)
    /\ Volatile([NoPass EXCEPT !.pc = "ready",
                   !.todo = {a \in Autos : AcceptsEvent(store, a, "runtime.ready")}])
    /\ UNCHANGED <<now, calls, mishaps>>

-----------------------------------------------------------------------------
AutoInit ==
    /\ now = 0
    /\ store = [auto |-> [a \in Autos |-> NoAutomation],
                exec |-> [e \in Execs |-> NoExecution],
                task |-> [e \in Execs |-> NoTaskYet]]
    /\ storeBad = FALSE /\ changed = FALSE
    /\ drv = [e \in Execs |-> NoDriver] /\ flag = [e \in Execs |-> FALSE]
    /\ waking = {} /\ child = [e \in Execs |-> "none"]
    /\ armed = Unset /\ net = "closed"
    /\ sched = NoPass
    /\ calls = 0 /\ mishaps = 0

ToolStep(a) ==
    \/ \E trigger \in Triggers, enabled \in BOOLEAN :
         SaveNew(a, trigger, enabled) \/ SaveUpdate(a, trigger, enabled)
    \/ Delete(a)
    \/ RequestRun(a)

SchedulerStep ==
    \/ SchedRecover \/ SchedReadDues \/ ArmAndWait
    \/ WakeFires \/ ChangeNotified \/ NetworkEvent \/ StartAdmitted \/ SchedRetries
    \/ \E a \in Autos : AdmitRequested(a) \/ AdmitDue(a) \/ AdmitEvent(a)

DriverStep(e) ==
    \/ StartExecution(e) \/ VisitCall(e) \/ VisitSetState(e) \/ VisitEnds(e)
    \/ ChildReturned(e) \/ StopsChild(e) \/ LeavesChild(e) \/ LosesChild(e)
    \/ SettleExecution(e)

AutoNext ==
    \/ \E a \in Autos : ToolStep(a)
    \/ \E e \in Execs : CancelContainer(e) \/ WakeCancelled(e)
    \/ SchedulerStep
    \/ NetworkEnds
    \/ \E e \in Execs : DriverStep(e) \/ ChildSettles(e) \/ ChildAsked(e)
    \/ Tick \/ NetworkChange \/ Die \/ Activate

AutoSpec == AutoInit /\ [][AutoNext]_autoVars

\* The scheduler's loop is a resident tokio task of the host; nothing else is assumed.
AutoFairness == WF_autoVars(SchedulerStep)

-----------------------------------------------------------------------------
(* Properties.                                                             *)

\* Every execution that is not over is the one its Automation names as active, with a
\* container Task in the same state, and a tombstone is kept exactly while its last
\* execution is not over.  settle_automation_in_state and set_state refuse an execution
\* that does not own its Automation, so without this one would never be settled; tool,
\* scheduler, driver, cancel and recovery all move these records.
OneOwner ==
    /\ \A e \in Execs :
         LET x == store.exec[e]
         IN  /\ store.task[e].state \in Live => x.state = store.task[e].state
             /\ x.state \in Live => /\ store.task[e].state = x.state
                                    /\ store.auto[x.owner].active = e
             /\ x.state \in Terminal => store.task[e].state = x.state
    /\ \A a \in Autos :
         LET r == store.auto[a]
         IN  /\ r.active # None => /\ store.exec[r.active].state \in Live
                                   /\ store.exec[r.active].owner = a
             /\ r.st = "deleted" => r.active # None
             /\ r.st \in {"unborn", "gone"} => OwnedBy(store, a) = {}

\* An occurrence is admitted at most once: the due of an admitted execution is advanced by
\* the commit that admits it, so neither a failed write, nor a crash, nor an update that
\* keeps the trigger brings it back.
ServedOnce ==
    \A e \in Execs : store.exec[e].by = "due" =>
        /\ store.auto[store.exec[e].owner].due > store.exec[e].at
        /\ \A f \in Execs \ {e} :
             /\ store.exec[f].by = "due" /\ store.exec[f].owner = store.exec[e].owner
             => store.exec[f].at # store.exec[e].at

\* "Budget expiry or cancellation cancels the owned child first and stops only after it
\* settles" (automation_engine.rs:326-327), where nothing fails.  It does not hold for a
\* child whose cancellation somebody else has requested.
StopsOnlyAfterChild ==
    \A e \in Execs : drv[e].pc = "settle" /\ child[e] = "left" => mishaps > 0

Overdue(a) == ArmableDue(store, a) <= now

\* A due that can be admitted is admitted, or stops being one, as long as there is room
\* and the scheduler's loop runs: a change committed between the read of the dues and the
\* wait, a rejected due that is not armed, and a failed pass do not leave it behind.
DueServed == \A a \in Autos :
    (Overdue(a) /\ Up) ~> (~Overdue(a) \/ ~HasRoom(store) \/ sched.pc \in {"down", "ended"})

\* "One transient store or timer failure cannot leave every later due unserved": every due
\* is served while the process lives.
EveryDueServed == \A a \in Autos :
    (Overdue(a) /\ Up) ~> (~Overdue(a) \/ ~HasRoom(store) \/ ~Up)

\* The executions as their owner sees them (module AutomationContract).
Contract == INSTANCE AutomationContract
              WITH status  <- [e \in Execs |-> store.task[e].state],
                   asked   <- {e \in Execs : store.task[e].cancel},
                   call    <- [e \in Execs |-> IF child[e] = "settled" THEN "none"
                                               ELSE child[e]],
                   active  <- [a \in Autos |-> store.auto[a].active],
                   life    <- [a \in Autos |-> store.auto[a].st],
                   up      <- Up,
                   faults  <- mishaps

\* Every step of tool, scheduler, drivers and recovery is one the contract allows: they all
\* move the same records, and an execution's end, its Automation's slot, its tombstone and
\* its child Task must agree whichever of them comes first.
KeepsContract == Contract!Spec
=============================================================================
