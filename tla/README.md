# DroidBridge: TLA+ models, model checks and proofs

DroidBridge gives a client (an agent over MCP, an Automation, the App's own UI) control of an
Android device: it admits requests, runs them as Tasks or synchronous executions in guarded
processes, stores their results and artifacts, and survives crashes of its host. The Runtime is
Rust (`src/rust/crates`); it lives in the App's process (Standalone edition) or in a root daemon
(Magisk edition), and Kotlin drives it in the first case.

The models here are translated from the source at one commit. Every definition that models code
is listed with its lines in `PROJECT.json` under `map`. Tools: TLC for the runs, TLAPS (`tlapm`)
for the proofs.

    tlc -workers 2 -config MCTaskRuntime_safety.cfg MCTaskRuntime
    tlapm TaskRuntime_proofs.tla

## 1. Inventory

Paths are relative to `src/rust/crates` unless they say otherwise. The last column says where the
component is modelled; `PROJECT.json` says how far.

| Component | State | Operations | What makes it correct | Module |
|---|---|---|---|---|
| Task lifecycle (`domain/src/task.rs`) | state, cancel flag, executor, instance of one Task | `apply(event)` | a terminal Task never changes; a cancelled one was asked | `TaskLifecycle` |
| Task runtime (`runtime/src/core.rs`) | canonical state behind one mutation lock, leaf permits, failed-store flag | `admit_task`, `run_task`, `settle`, `cancel_task`, `recover_store`, `recover_old_instance` | one end per Task, never while its process may be alive; every running Task ends; every cancel is answered | `TaskRuntime` |
| Local execution claims (`runtime/src/ports.rs`) | cancel requested, published, finished, cleanup verdict of an execution | `claim`, `checkpoint`, `publish`, `finish`, `cancel` | publication and cancellation exclude each other; waiters are woken | `TaskRuntime` |
| Command surface (`runtime/src/command.rs`, `app_native/src/command.rs`) | none of its own | start under a guard, wait, publish the streams | calls "clean" only what its guard verified | `TaskRuntime` |
| Request retention (`domain/src/dedup.rs`, prunes of `core.rs`) | dedup entries with expiry, Task history, results | `decide_and_reserve`, `settle`, every prune | a replay finds the result of its request; the store is never built corrupt | `RequestRetention` |
| Synchronous executions (`core.rs`) | records in the dedup entries, waiters in memory | `run_synchronous`, `settle_synchronous` | one execution per request; every waiter gets the result | `RequestRetention` (records) |
| App host (`app_native/src/app_host.rs`, `runtime/src/vertical.rs`) | one readiness slot, the published instance | activate, withdraw, restore | serves only with verified cleanup and a working store | `TaskRuntime` |
| Execution guard (`app_native/src/guard.rs`, `daemon/src/command.rs`) | a process group and a proof file | start, reap, prove clean | no proof without an empty process group | `TaskRuntime`, `MagiskHost` |
| Guard recovery plan (`persistence/src/recovery.rs`) | none | classify proofs, settle, finalize | no old process survives into a serving instance | `TaskRuntime`, `MagiskHost` |
| Canonical store (`persistence/src/{atomic,model,runtime_port,locking}.rs`) | `runtime-state.json` with a revision, `runtime-owner.json`, live lock | load, compare-and-commit, leases | a commit lands whole; writers do not overwrite each other | `StateStore`, `RuntimeReset` |
| Artifact store (`persistence/src/artifact.rs`) | manifest in the canonical state, bytes in files | publish, evict, delete | a published artifact is readable | `StateStore` |
| Runtime reset (`app_native/src/lib.rs`, `atomic.rs`, `RuntimeHostController.kt`) | `runtime-reset-intent.json`, artifacts and trash directories | record an intent, recover it, reset a malformed owner, start | never under a live instance; once recorded it completes, and completely | `RuntimeReset` |
| Automation (`domain/src/automation.rs`, `runtime/src/automation*.rs`) | records, tombstones, executions with container Tasks, current child | create, update, enable, delete, run, cancel, admit, drive, settle | one execution at a time per Automation; no due served twice; an execution drops no child that nobody else is cancelling | `Automation` |
| Automation scheduler (`runtime/src/automation_scheduler.rs`) | armed wake, network subscription | probe the store, admit what is due, arm, wait | a due Automation runs | `Automation`, `NetworkEvents` |
| Capability resolver (`domain/src/{admission,capability}.rs`) | capability facts with generations | resolve an executor | the first provider with the authority serves, with no other fallback | `Resolver` |
| Filesystem tool (`runtime/src/filesystem.rs`) | entries of the device, a temporary sibling | inspect, read, write, edit, manage, download, archive, extract | a destination is whole or untouched; nothing of another process is lost | `Filesystem` |
| Network tool (`runtime/src/network.rs`, `{app_native,daemon}/src/network.rs`) | capture registry, streams | inspect, diagnose, capture, stop, read | an answer is whole or says that it is not; a capture ends clean | `NetworkTool` |
| Network event plane (same files) | one registration, one subscription, a baseline | subscribe, observe, close, replace, quarantine | no change missed, no registration forgotten | `NetworkEvents` |
| Visual sessions (`runtime/src/visual*.rs`) | observation cache with pins, lease, last input | observe, view, interact, lease | records live as long as they are used; input belongs to the lease's holder | `Visual` |
| MCP server and listener (`runtime/src/{mcp*,ingress}.rs`, `app_native/src/mcp_listener.rs`, `McpSettingsController.kt`) | token file, running listener, exchanges, host permits | enable, rotate, bind, serve, answer | a revoked token serves nothing; a retryable answer was not served | `McpServer`, `McpResources` |
| Tunnel (`runtime/src/tunnel*.rs`, `daemon/src/{ingress,settings}.rs`) | credential file, client, poll loop, commands | configure, enable, clear, poll, serve, post, hold | an ended credential is unused; a refusal ends its commands | `Tunnel` |
| Magisk host, supervisor (`daemon/src/{process,magisk_host,recycle}.rs`, `supervisor`) | host slot, readiness, cleanup watch, recycle, backoff | activate, serve, watch, recycle, clear, restart | an instance owns all unsettled work; lost readiness comes back | `MagiskHost` |
| Android tool, Contract, JNI, Kotlin UI, Magisk scripts | wire types, marshalling, platform calls | | | not modelled (section 5) |

How they interact: the core holds its mutation lock for one load, one change and one commit, and
calls everything else without it. The claims, the execution surface, the guard and the artifact
port run in the spawned driver of a Task; a `task.cancel` call runs beside it and meets it in the
claim and in the store. The artifact port commits to the same file as the core, under a different
lock. A failed write withdraws readiness through the host, and the scheduler's loop probes the
store. The scheduler owns the one network subscription; the source's thread reports into it at any
time. The tools ask the resolver for an executor at admission and compare its generation before
they act. MCP and the tunnel reach the Runtime through one facade; their settings owners commit
first and reconcile the running listener or client afterwards. Start and reset of the host meet
only in files and file locks; the daemon's instances, and their guards, meet in proofs and records.

Hard behaviours: driver against canceller; publication against cancellation, also of a publication
that landed and was reported as failed; a commit that lands and is reported as failed; a guard that
dies without a verdict; a host that dies between any two steps; clocks of different handlers that
prune one history; two writers of one file; a reset that crashes halfway; a due read in one step and
admitted in another; another process of the device at the destination of a rename; callbacks of a
registration that was replaced; a call whose client has gone; a screen that changes under a call.
`PROJECT.json` lists them as `hazards`, each at its line, with the properties aimed at it.

## 2. Modules

| Module | Models | Used by |
|---|---|---|
| `TaskLifecycle` | `TaskLifecycle::apply` as operators (`Legal`, `Selects`, `After`) | `TaskRuntime`, `Automation` |
| `TaskRuntime` | the Task half of the core with claims, command surface, guard, readiness, disk faults, crash, recovery | `MCTaskRuntime`, proofs |
| `TaskContract` | abstract specification: what a Task promises to its client | refined by `TaskRuntime` |
| `RequestRetention` | dedup index, Task history, synchronous and mutation results with every prune | `MCRequestRetention`, proofs |
| `StateStore` | the Runtime's commits and the artifact port's on one revisioned file, and the artifacts' bytes | `MCStateStore`, proofs |
| `RuntimeReset` | start and reset of the App's host over the store's files | `MCRuntimeReset`, proofs |
| `AutomationContract` | abstract specification: what an Automation and its executions promise to their owner | refined by `Automation` |
| `Automation` | Automations, their tool, scheduler, drivers, children and recovery | `MCAutomation`, proofs |
| `MagiskHost` | the daemon, its guards, watch and recycle, the supervisor and the user's clear | `MCMagiskHost`, proofs |
| `Resolver` | `resolve_executor` as an operator | `Filesystem`, `NetworkTool` |
| `Filesystem` | one filesystem call beside another process | `MCComponents`, proofs |
| `NetworkTool` | one synchronous network call and one capture Task | `MCComponents`, proofs |
| `NetworkEvents` | the event plane, its two sources and its subscriber | `MCComponents`, proofs |
| `McpServer` | both MCP listeners, their settings, exchanges and host calls | `MCComponents`, proofs |
| `McpResources` | a client's walk over the resource pages | `MCComponents`, proofs |
| `Tunnel` | the tunnel's settings, client, poll loop and commands | `MCComponents`, proofs |
| `Visual` | overlapping visual calls over one cache and one screen | `MCComponents`, proofs |
| `TaskRuntime_proofs` | proofs of `TaskRuntime`, and its refinement of `TaskContract` | |
| `Automation_proofs` | proofs of `Automation`, and its refinement of `AutomationContract` | |
| `RuntimeReset_proofs`, `MagiskHost_proofs`, `Filesystem_proofs` | proofs of the module each is named after | |
| `Store_proofs` | proofs of `StateStore` and `RequestRetention` | |
| `Ingress_proofs` | proofs of `Tunnel`, `McpServer` and `McpResources` | |
| `Tools_proofs` | proofs of `NetworkEvents`, `NetworkTool` and `Visual` | |
| `MC*` | instances for TLC: symmetry sets, and the sum of components | |

An operator with a suffix after an underscore is a seeded bug: it
has the parameters of the definition it is named after, and putting it in that definition's place
must break the property that `PROJECT.json` names. No specification uses it.

### TaskRuntime

*State.* `task` and `dedup` are the canonical records; a Task is named by the request that admits
it. `guard` is the guard's process and proof (`none`, `live`, `clean`, `lost`), `artifacts` the
manifest by Task, with the records whose publication was reported as failed told apart. `disk` is
what the file system does to the next write. `driver[t]`, `claim[t]` and `canceller[t]` are the
program counters and records of the three concurrent futures; `executor` is the generation
`resolve_execution` answers with now, `readiness` the host's single slot, `store_failed` the core's
flag, `loop` the scheduler's task (starting, running, ended). `ran` and `unclean` are history.

*Actions.* `AdmitTask` is `admit_task` and the spawn; `TakePermit`, `DeclineTask`, `StartTask` are
`run_task` up to the claim; `CheckExecutor`, `Checkpoint`, `ProcessEnds`, `CommandResult`,
`PublishStream`, `FinishClaim`, `RemoveClaim` are the execution, one step per point where another
future can intervene; `SettleTask` and `InterruptTask` store the end and are repeated by
`until_stored`. `CancelTask`, `CancelClaim`, `CancelAwait`, `CancelSettle`, `CancelPoll` are
`cancel_task` and `LocalExecutionClaims::cancel`. `PublishRuntimeReady` is the admission with which
the scheduler's task begins, and which ends it when it fails; `RecoverStore` is the probe of its
loop. `Crash`, `Reboot`, `RecoverOldInstance`, `ClearStranded`, `Serve` are a restart. A handler's
section under the mutation lock is one step. A commit has four outcomes: refused by `validate_state`
(`CommitRefused`), stored (`Committed`), refused by the disk, or stored and reported as failed
(`WriteFailed`, disk `unsynced`: the directory sync after the rename). The commit of an artifact's
record has the last outcome too: the record stays, the claim does not know of it, and a cancellation
still wins.

*Abstractions.* A Task's results fit their reservation (an oversized outcome is the same transition
as a failed one). `postcondition_verified` is true at every caller. `interrupt_after_stale_completion`
cannot be reached over the command surface, whose completion carries its execution's own fence.
A start that fails with a proof it cannot retire is not told apart from a guard that died. A panic
of a runner is not modelled. One cancel call per Task is under way at a time; more of them meet
the same records.

### TaskContract

`status`, `asked`, `ran`, `live` of each Task and ten actions over them. It says that a process is
started at most once and only while its Task runs; that completion needs a process that ran; that
completion, failure and cancellation need one that is gone; that everything unknowable is an
interruption; and that ends are final. `TaskRuntime` maps `status` to the record's state, `asked`
to its cancel flag, `live` to guards without a clean verdict.

### RequestRetention

Every handler of the core that commits is one action, with the prunes it runs in the order it runs
them and with the clock it brings: a driver settles with the clock of its admission, an old one.
`Canonical` is what the store checks when it converts a candidate; a handler that builds any other
sets `corrupt`, which in the code is an I/O error and takes a healthy Runtime out of ready.

### StateStore

`core` is the commit the Runtime has under way (the part it loaded, its candidate, the revision and
the attempts), `port` the publication or deletion of the artifact port. Both are rebased on a
conflict: the core only if nothing of its own part changed, the port by re-resolving the owner
inside the store's lock. Evictions are planned, committed, and then their bytes are deleted; bytes
are written before the record and removed again if the record's commit is reported as failed. Any
file operation may fail, a commit may land and be reported as failed, and the process may die
between any two steps. An artifact has size one, so the record limit stands for the byte limit too.

### RuntimeReset

The files (`owner`, `state`, `intent`, `artifacts`, `trash`), the live lock, and two actors:
`start()` of the controller and its maintenance executor. Every file operation of `initialize`,
`acquire_lifetime`, the two ways to record an intent, `reset_malformed_owner` and
`recover_confirmed_reset` is a step; a file written in place may be left torn. The instance's own
work is `AdmitWork` and `SettleWork`, possible as long as any reference to the lease is left.

### Automation

*State.* `store` holds the Automations, executions and container Tasks; everything else is memory:
`drv`, `flag`, `child` of each execution, `waking` (a cancel that is stored and has not raised the
flag), `sched` (the scheduler's pass), `armed`, `changed`, `net`.

*Actions.* The tool's calls (create, update, enable, disable, delete, run, cancel), the phases of a
scheduler pass (probe, requested runs, dues, network event, arm, wait), the driver from `Queued` to
its settlement over `begin`, visits, child Tasks and delays, a child that ends by itself or that
another caller cancels, a crash, and the recovery of the next instance. A driver that stops asks for
the cancellation of its child and takes the answer for the child's end: the child has settled
(`StopsChild`), or somebody had asked before and it is still at work (`LeavesChild`). Every commit
is one step with three outcomes: stored, failed, stored and reported as failed.

*Abstractions.* An action tree is the number of visits it makes; a request with a stale
`expected_revision` changes nothing and is left out; recurrence rules are left out (an interval and
a fixed instant are the two kinds of time); the exact-alarm grant is there; a store that is full of
bytes is `MaxExecutions`; child Tasks do not count towards Running; identities are not used again;
the wall clock does not run backwards.

### AutomationContract

`status`, `asked`, `call` of the executions, `active` and `life` of the Automations, whether there
is a host, how often something failed, and twelve actions over them. It says that an Automation has
one execution at a time and admits none before it is created and none after it is removed; that an
execution calls one child Task at a time, only while it runs, and ends, except with its host, only
when it waits for none, and that it leaves a child behind only if somebody else asked for that
child's cancellation or in a step with a failure; that one which never started can only be
cancelled, and one that runs only when somebody asked; that an end is final and frees the Automation
in the same step, a removed one for good; and that what a lost host left open is interrupted before
anything else. `Automation` maps `status` and `asked` to the container Task's record, `call` to
`child`, `active` and `life` to the Automation's record, and the failures to `mishaps`.

### MagiskHost

*State.* The daemon's main loop, host slot, readiness with its reason, lease references, watch
thread, recycle state, each execution's record, thread, proof and processes, the framework helper,
the frontend's clear, and the supervisor.

*Actions.* Activation after a recovery plan, ticks of the main loop, an execution's thread, a guard
that writes identity, start and end, the watch's polls, the replacement of an instance whose cleanup
became provable, `clear_stranded_executions` from the request to the answer, the supervisor's view
and backoff; the daemon dies, the device reboots, probes, deletions, spawns and writes fail, and a
guard is killed.

### Filesystem

One call of any operation from its route to its settlement over four places: destination, source,
temporary sibling and Task temp. An entry is its kind, its identity and how many of its pieces are
there, so that a torn or half-removed entry is told apart from a whole one. Preflight, building the
sibling, the checks before and after, rename, exchange, rollback, removal of what was displaced and
cleanup are steps for the native kernel and for the Shizuku primitives, each of which may fail
before or after its effect; another process may replace the destination between any two steps; the
caller may cancel a Task at every checkpoint (a synchronous call cannot be cancelled); the Shizuku
provider may change. A Task's claim knows of a publication only once it returned: one that failed
after its rename can still be cancelled, and then the settlements of driver and canceller race
(`Ends`). The formats of archives, encodings and listings are payload.

### NetworkTool, NetworkEvents, Resolver

`Resolver` gives for a request and a host the ordered candidates; the first available one is
admitted with its generation. `NetworkTool` has one synchronous call and one capture Task with its
registry beside each other, over both host ports. A capture's manifest record may land and be
reported as failed, and a cancellation may still come after it (`CapPublish`, `CapEnds`). Rows and
packets are units of the response frame, so budgets, truncation and cursors are arithmetic on them.
`NetworkEvents` has the plane's slot (vacant, active, stopping, quarantined), the source (an Android
callback or a netlink thread, which may report after its stop), the scheduler's subscription with
its bounded channel, and a default network that changes.

### McpServer, McpResources

`McpServer` covers both editions: the file that owns the token, the App's cached copy of it, the
running listener, each connection's exchange through the checks in the order of the code, the host
calls with their permits (in the App they outlive their client), and the operations that enable,
disable, rotate and bind. `McpResources` is a walk of pages while artifacts come and go; the cursor
is the last artifact seen, and nothing of a walk is kept by the server.

### Tunnel

The settings operations, the client as the ingress owns it, its poll loop (gate, poll, hold for the
operator, backoff) and one worker per command. The control plane is external: a poll and a post may
be answered, refused or lost. Assumed of it: it sends at most as many commands as were asked for,
and does not send one again that was aborted. Stopping the client is one step, as the ingress joins
it. Every configuration brings a new key.

### Visual

`VsCalls` overlapping calls of observe, view, interact and the lease operations, each a sequence of
sections under the cache's lock with the device in between. A record has its pins, its image, its
nodes and the scene it was bound to. Every call judges age by the time of its admission. Calls are
synchronous executions, which nothing cancels; the cache starts empty; at the start accessibility
reads the hierarchy; the sources are resolved together with the executor; the Kotlin scene store is
external.

### MCComponents

Seven components that share no state are checked in one run as a disjoint sum: the variable `part`
chooses at the start which of them moves, and the others rest in one of their initial states. The
reachable states are the union of those of seven separate runs, and a property of one component is
checked in every state of that component.

## 3. Runs

| Run | Specification, bounds | Distinct states | Result |
|---|---|---|---|
| `task_safety` | 2 Tasks, 1 executor generation, 1 permit, 2 queue places, 3 kinds of disk fault, 1 failure, 2 instances | 1,591,977 | pass |
| `task_liveness` | `FairSpec`, 1 Task, 2 executors, refused writes, 2 failures, 2 instances | 58,365 | pass |
| `retention` | 4 requests, 3 Task ids, window 2, history 3, clock to 5 | 334,892 | pass |
| `store` | 1 Task, 1 synchronous execution, 3 artifacts, room for 2, 2 attempts, 1 failure | 1,329,437 | pass |
| `reset` | `FairSpec`, 3 generations, 2 failures, 2 crashes | 12,674 | pass |
| `automation` | `AutoFairSpec`, 2 Automations, 2 executions, 3 triggers, 2 calls, 1 mishap | 170,636 | pass |
| `magisk` | `MgFairSpec`, 2 executions, 1 crash, 1 reboot, 1 failure | 527,874 | pass |
| `components` | bounds in `MCComponents.cfg` | 1,628,116 | pass |
| `readiness`, `permit`, `reuse`, `clear` | small instances | | violation (section 6) |

`task_safety` checks that an ended Task has no process (`SettledMeansStopped`), that a cancelled
one has no artifact whose publication succeeded and a completed one none whose publication was
reported as failed (`EndFitsPublications`), that no settlement is refused by the lifecycle
(`SettlementIsLegal`), that readiness lost to the store is always marked for the probe
(`StoreFaultTracked`), that a serving host owns all unsettled work (`ServingOwnsItsWork`), that a
request is pending exactly while its Task is (`RequestFollowsTask`), and that the whole implements
`TaskContract` (`ImplementsContract`).

`task_liveness` checks that a running Task ends (`RunningTaskEnds`), that readiness lost to the
store returns unless the scheduler's loop ended before its first pass (`StoreRecovers`), and that a
cancel call is answered (`CancelAnswers`). The unsynced fault is left out here, because a Start that
lands and is reported as failed leaves a running Task without a driver (a hazard in `PROJECT.json`).

`retention` checks that no handler builds a corrupt candidate (`NeverCorrupt`, with request ids that
are not used again), that a live dedup entry has its result (`ReplayFindsItsResult`), and that an
admitted Task can always be settled into a full history (`SettlementHasRoom`).

`store` checks that neither writer overwrites the other (`NoLostUpdate`) and that what a publisher was
told of stays readable while it has a record (`PublishedIsReadable`).

`reset` checks that no reset touches the store under an instance and that an instance's fence is
the owner's (`NoResetUnderInstance`), that a reset ends complete and advances the generation by
exactly one over any number of crashes (`EndsComplete`), and that a recorded one does complete
(`RecordedResetCompletes`).

`automation` checks that every execution that is not over is the active one of its Automation, with
a container Task in the same state (`OneOwner`), that no occurrence is admitted twice over failed
writes, crashes and updates (`ServedOnce`), that it implements `AutomationContract` (`KeepsContract`;
among others, that an execution drops its child only where another caller is cancelling it or
something failed), and that a due that
can be admitted is admitted or stops being one (`DueServed`).

`magisk` checks that a started instance owns all unsettled work and runs beside no process of an
earlier one (`SuccessorOwnsWork`), and that readiness lost to an unproven cleanup comes back without
the user once the guards have written their verdicts (`WatchResolves`; `Hopeless` names what no watch
can resolve: a guard that died without a verdict, a record without proof or thread, a supervisor that
ended).

`components` checks, for the filesystem, that the destination is whole in every state
(`WholeDestination`), that a cancelled call committed nothing and changed nothing there, except
where a native publication failed after its rename (`CancelledUnpublished`), that a call without
overwrite displaces nothing (`NoClobber`) and that Shizuku's exchange never deletes what another
process put there (`ForeignKept`); for the network tool, that an answer fits its frame and drops
nothing unannounced (`AnswersWhole`) and that a capture ends with what it counts, or cancelled with
at most a record whose publication was reported as failed (`CaptureSettles`); for the events, that
the plane knows the current network once the source is quiet (`NoChangeMissed`) and forgets no
registration (`NeverForgotten`); for MCP, that a revoked token passes no check
(`RevokedTokenRefused`), that a retryable answer belongs to a call that was not served
(`RetryableNotServed`) and that a finished walk is complete (`WalkComplete`); for the tunnel, that
nothing outlives a refusal (`NothingOutlivesRefusal`) and no ended credential is used
(`EndedCredentialUnused`); for the visual tool, that pins, limit and indexes agree with the calls in
flight (`PinsHeld`) and that input under a lease is its holder's or was checked before the grant
(`InputUnderLease`).

*Why the bounds are enough.* Two Tasks over one permit show every interaction two Tasks have: the
permit, the two limits and the readiness slot; within one Task the driver, the canceller, the guard
and the restart are all there. A change of the executor's generation meets one Task only, so
`task_safety` has one generation that comes and goes and `task_liveness` two. Two instances are one
predecessor and its successor. The window and the history of `retention` have different lengths and
the clock runs past both from any admission in the first instants; three results against room for
two fill every limit. In `store` three artifacts against two places force evictions, and two
attempts make both the retry and its exhaustion happen. In `reset` two crashes interrupt a recovery
and the recovery that takes it up. In `automation` two Automations compete for one Running place and
one place of history, and the mishap may be a write in any of three outcomes or a crash. In `magisk`
two executions give one that is proven and one that is not. In `components` two faults let a failing
step and its failing undo happen in one filesystem call; a frame of five units is smaller than the
rows of two families; a channel of one event overflows; three registrations are one, its replacement
and one more after a quarantine; two connections over one permit exhaust the permits; three commands
against a poll limit of two leave one waiting; three calls, two of them at once, over a cache of one
record evict, and outlive their records. The constants whose comment says "bound", and those that
begin with `Max` and count faults, crashes, changes or calls, cut an unbounded count; the others are
limits of the code.

*Deadlock.* `store`, `automation`, `magisk`, `components` and `clear` switch its check off: a store
whose references, a device whose executions, or a call whose steps are used up simply rests. That
nothing waits for ever is what the liveness properties say.

*Fairness.* `TaskRuntime`: tokio polls every ready future (weak fairness of driver and canceller
steps) and its semaphore is first-come first-served (strong fairness of `TakePermit`, which other
drivers disable again and again); a command has a deadline after which its guard kills the group
(`GuardCleans`); the scheduler's task publishes its first event, which may end it
(`PublishRuntimeReady`), and its loop, once it runs, keeps probing (`RecoverStore`); a disk fault is
transient (`DiskHeals`); a host that is down is started again (`RecoverOldInstance`, `Serve`).
Nothing is assumed of crashes, of cancel calls, or of the user. `RuntimeReset`: every call, alarm
and boot event of the App starts a host that is down (`BeginStart`), calls that have begun go on,
and a released instance loses its last reference (`DropLease`). `Automation`: only the scheduler's
own loop (`SchedulerStep`). `MagiskHost`: the main loop ticks, the watch and the recycle timer run,
the store is probed, a clear is taken up or times out, the supervisor sees an exit and spawns again,
the thread of an execution goes on, and a guard begins and ends (it has a deadline); nothing of
crashes, reboots, faults or the user.

## 4. Proofs

The theorems hold for every value of the constants that the named assumptions allow
(`TaskRuntimeAssumption`, `StoreAssumption`, `RetentionAssumption`, `ResetAssumption`,
`AutomationAssumption`, `MagiskHostAssumption`, `FilesystemAssumption`, `NetworkEventsAssumption`,
`NetworkToolAssumption`, `McpServerAssumption`, `McpResourcesAssumption`, `TunnelAssumption`,
`VisualAssumption`); TLC evaluates these on every run that extends the module. They say that bounds
are numbers, that the sets which are counted are finite, that a marker such as `NoExec` or `"none"` is
no identifier, that a page of resources is not empty, and that a frame carries one packet (its preview
is bounded far below `MAX_FRAME_BYTES`). The bounds are
constants too, so the number of faults, crashes, generations, keys, artifacts, commands, calls and
Tasks is arbitrary. Every property named in this section is also checked by a passing run.

`TaskRuntime_proofs` proves `Spec => []IInv` (`Inductive`) and from it `TypeCorrect`, `Stopped`,
`Unpublished`, `Settles`, `FaultTracked`, `OwnsItsWork`, `RequestHeld` and `Final` (the end of a Task
never changes). None of the properties is inductive alone: that a settlement leaves no process depends
on what the driver knew when it reached its outcome, which depends on the claim and on the guard.
`IInv` is `TypeOK`, `StoreFaultTracked`, `DownInv` (a host that is down has no memory) and for every
Task

* `DriverInv`: where the driver is against the Task's state and its process,
* `OutcomeInv`: what an outcome with verified cleanup implies,
* `ClaimInv`: published, requested and finished against driver, artifact records (those the claim
  does not know of included) and cancel flag,
* `CancellerInv`: what a canceller has achieved before it waits or settles,
* `RecordInv`: record, request, process and artifacts.

There is one lemma per action. Most actions touch one Task: `Frame` says a step that leaves a Task
alone keeps its invariant, so each lemma argues about the one Task that moves; `CommittedStep`,
`WriteFailedStep`, `Landed` and `NotLanded` split off the outcomes of a commit, so that a write that
lands and is reported as failed is treated once.

The same module proves `Spec => ImplementsContract` (`Refinement`): the initial state maps to
the contract's, and every step under `IInv` maps to one of its steps or to a stutter, with one lemma
per action that changes the status, the cancel flag or the process of a Task.

`Store_proofs` proves `StSpec => []StInv` (`StoreInductive`), and from it that a published
artifact is readable (`Readable`) and that no update is lost (`NothingLost`). `PublishedIsReadable`
alone says nothing of a port that is about to delete: `StInv` adds what each writer has read at which
revision (`CoreInv`) and that the port deletes or undoes only bytes whose record is not there and
whose publisher was not told (`PortInv`).

It also proves `RrSpec => []RrInv` (`RetentionInductive`), and from it that no commit's candidate is
corrupt (`CandidatesCanonical`), that a request inside its window finds its result (`ReplaysFound`)
and that a Task can always be settled within the limits of the history (`SettlementsFit`). These three
have the hypothesis `~ReuseIds`: the run `reuse` shows `NeverCorrupt` false where an id is used again.
What every handler has to find is `Sound`: a request is in the store at most once and in one shape,
the shape agrees with its dedup entry, and what a live entry stands for is there. `Known` says that
the store knows nothing that was not sent; `RoomInv` bounds the Tasks some clock may find pinned,
since handlers prune with clocks they read earlier. A prune with an earlier clock keeps more, so each
lemma about one is stated for the clock it uses, not for the store's.

`RuntimeReset_proofs` proves `Spec => []ResetInv` (`ResetInductive`), `NoResetUnderInstance`
(`InstanceUndisturbed`) and `EndsComplete` (`ResetEndsComplete`). An instance comes from a starter
that read the owner before it had the lock, so the invariant follows who holds the lock (`LockInv`),
what is recorded while an instance lives (`RecordInv`), how far a recovery under the lock has come
(`Progress`), the very first start (`Young`) and where each actor can be (`Places`). One lemma per
action, one step per conjunct. A valid intent goes in one action only (`OnlyRemoveIntent`), and
`Progress` says what holds where that action is enabled.

`Automation_proofs` proves `AutoSpec => []AutoInv` (`AutomationInductive`), that an execution which
is not over is the active one of exactly its Automation (`ExecutionsOwned`), that a due occurrence
is admitted once (`OccurrencesServedOnce`). Besides the ownership in both directions (`ExecOK`,
`AutoOK`), the invariant needs that an occurrence served lies before the clock and before its
Automation's next due (`DueOK`): the due is read in one step of the scheduler and admitted in a
later one. `DriversOK` ties drivers to executions. The lemmas are about the operations on the
store's value; an action that may fail commits either their result or what was there.

It also proves `AutoSpec => KeepsContract` (`AutomationRefines`). `AutoInv` is not enough for it:
that a driver settles only what was started, and as cancelled only what somebody asked to cancel,
lies in what it read of the store some steps before. `WorkOK` says that this is still so when it
acts on it (`DriverFits`), that a flag raised or about to be raised stands for a stored cancel, and
that a host that is down has no driver; `WorkInductive` proves it together with `AutoInv`. There is
one lemma for each kind of step the contract knows (an admission, a Task that starts, an end, a
call, a child that returns, is asked for or is left, a step it does not see) and, from these, one
for each action of `Automation`. An end is the hardest: the record, the container Task, the slot and
the tombstone change in one commit, also when the commit is reported as failed.

`MagiskHost_proofs` proves `MgSpec => []MgInv` (`HostInductive`) and `SuccessorOwnsWork` (`WorkOwned`):
beside a started instance of the daemon no record of an earlier one is running, and none of its root
commands runs beside a process an earlier one left. The
invariant says which guards there can be for each group (`GroupsGuarded`), where the activation and
the supervisor stand while no host is in the slot (`SlotHeld`), that what a clean plan read stays true
until it is acted on (`PlanKept`), and that beside a leftover this instance has no guard and starts
none, also while it is only being activated (`LeftoversDeny`).

`Filesystem_proofs` proves `FsSpec => []FsInv` (`FilesystemInductive`), that a destination never shows
half a file or tree, with the exception `WholeDestination` names (`DestinationsWhole`), that a
cancelled call has not committed or touched it, except by a native publication that failed after its
rename (`CancelledUntouched`), that a Shizuku replacement loses nothing
another process put there after the check (`ForeignEntriesKept`), and that without overwrite a call
takes only an empty place (`NothingClobbered`). The programs of the
two providers are sequences of steps; the invariant speaks of `Behind`, the steps a call has passed,
and not of positions. `Ordered` looks the order of the steps up once for every program. Then `Phases`
says where a call may be, `Whole` what has been filled before it is renamed, `Careful` what the last
look at the destination found, `Claimed` who has claimed the commit before anything is touched, and
`Found` where a foreign entry is at every step of an exchange and its rollback. One lemma each for a
failing, a quiet, a building, a displacing and an in-place step serves both providers.

`Ingress_proofs` proves `TnSpec => []TnInv` (`TunnelInductive`), `NothingOutlivesRefusal`
(`NothingOutlives`) and `EndedCredentialUnused` (`EndedUnused`). The strengthening is `FileUsable`:
the credential in an enabled file is none that has ended, also after a commit that landed unnoticed,
since attaching a host starts a client from the file.

It also proves `McSpec => []McInv` (`McpInductive`), that no exchange passes the token check with a
token whose revocation was acknowledged (`RevokedRefused`), and that an answer which invites a retry
was given to a call that was not served (`RetrySafe`). A listener takes its token from the settings
file, so `SettingsOwned` says that an enabled file holds none that was revoked, also after a write
that landed unnoticed, and that the App's snapshot is the file. `Honest` follows an exchange from the
submission on: once its call was served it only asks for what the result needs.

And it proves `RsSpec => []RsInv` (`WalkInductive`) and `WalkComplete` (`WalksComplete`). A page is
cut from the listing of that moment, so `Paged` speaks of references and not of positions: everything
listed so far is no older than the cursor, and of what stays everything that is not older was listed.
That a listing in descending order exists is proved too: the rank of a reference, the number of those
that are not below it, is an injection between two sets of one size, so it is onto.

`Tools_proofs` has four parts. For the event plane, `NeSpec => []NeInv` (`EventsInductive`), that a
registration a source holds is never forgotten (`RegistrationKept`) and that once the source has
nothing left to report the plane's baseline is the current network (`ChangesSeen`). The first
says nothing of a stop under way, the second nothing of reports of an earlier registration: `SlotInv`
ties the slot to where the scheduler's thread is, `BoundInv` a source to the plane's registration,
`ReadInv` bounds the reports on their way, and `ReportInv` says that a source which runs has reported
the current network, is about to, or has lost it and knows.

For synchronous network calls, `NtSpec => []CallInv` (`AnswersInductive`) and `AnswersWhole`
(`AnswersAreWhole`). The families of a result are shortened one after the other, each to the most that
fits, so `CallFits` says that once one was cut the result fills the frame exactly, and the
later ones keep what they have. It rests on two lemmas about the operators: `SumIs`, that the fold over
the families is their sum, and `FittingIs`, that the bisection finds the largest number of rows that
fits. A reader of a capture makes progress because a frame carries one packet.

For captures, `NtSpec => []CapInv` (`CaptureInductive`) and `CaptureSettles` (`CapturesSettle`): what
a capture holds, has streamed and has published, with or without its claim knowing, at each step of
its Task, whichever way it ends.

For the visual tool, `VsSpec => []VsInv` (`VisualInductive`), that a record's pins are the calls that
hold it (`PinsCounted`) and that input which arrives under a live lease is its holder's or passed its
check before that lease was granted (`LeaseRespected`).
An eviction, an expiry and the undoing of a reservation all remove records, so the invariant says who
may hold which record and when: a call only names and pins observations that are over (`Refers`), a
record belongs to an observation in the making or to one that is over (`Reserved`), and a call past
its check has the lease or was checked before it was granted (`LeaseChecked`). That an eviction finds
its record is the existence of a least element in a finite set of naturals.

What a fold or a recursive function computes cannot be proved by the library's induction theorems,
which take an operator as a parameter that no prover here instantiates. `SumIs` and `FittingIs` use a
least counterexample instead: the closed form satisfies the recursion, and of two functions that
satisfy it a smallest argument at which they differ cannot exist (`HasLeast`, from the
well-foundedness of `<` on the naturals).

Only model-checked, because fairness and ENABLED are outside the prover's reach: the liveness
properties `RunningTaskEnds`, `StoreRecovers`, `CancelAnswers`, `RecordedResetCompletes`, `DueServed`
and `WatchResolves`. All other properties of the passing runs are theorems.

## 5. Not modelled, and why

* The Android tool: translation of a call to platform services, without state, one synchronous
  execution per call. Its routes are in `Resolver`.
* Contract (wire types, schemas), JNI (marshalling; what it drives of the reset is in
  `RuntimeReset`), the Kotlin applications except the start, the reset and the MCP settings, the
  Magisk scripts and the framework helper (present in `MagiskHost` as a process that lives or not).
* Formats, encodings, texts of errors, packets, archives, hierarchies and images: payload.
* A Shizuku rename or removal that takes effect and whose reply is lost with the provider: in the model
  one that reports a failure has had no effect, and the provider changes only before a call starts.
* How a guard finds and kills its process group; its verdict, and the proof it writes, are modelled.
* The waiters of synchronous executions and the replay that waits for one; the daemon's own reset
  and the update barrier; the App's JNI around the tunnel's client; reads of artifacts.

## 6. Findings

Each is in `PROJECT.json` with the line it contradicts. Four have a run:

* `readiness`: readiness withdrawn for an unverified cleanup comes back when a write fails and a
  later one succeeds, because both withdrawals share one slot.
* `permit`: a driver releases its permit before its Task leaves Running in the store, so with all
  permits in use the next Start exceeds the store's limit; its Task stays queued with no driver.
* `reuse`: a request id used again after its window and before its Task leaves the history makes a
  candidate the store finds corrupt, which withdraws readiness from a healthy store.
* `clear`: when an activation fails on an unclean recovery plan after its cleanup watch was started,
  no host is started but the watch's thread holds the live lock, and a clear is refused.

The others are definitions of their modules that the code violates. To see one, put it in a copy of
the component's cfg as the only INVARIANT or PROPERTY (for a component of `MCComponents`, with the
component's own specification and constants):

* `SuccessorSettles` (`TaskRuntime`): a Task left queued, or ended with its proof retired, is not
  settled by the next instance's recovery, which refuses to start until the user clears it.
* `RefusalChangesNothing` (`RuntimeReset`): a reset whose intent cannot be synced is refused and the
  instance reopened, but the intent stays: the next start completes the refused reset, or fails if
  the intent is torn.
* `EveryDueServed` (`Automation`): a failed write in the first `runtime.ready` admission ends the
  scheduler of the instance.
* `StoreAlwaysRecovers` (`TaskRuntime`): the same write ends the only probe of the store, so readiness
  stays withdrawn until the host is started again.
* `StopsOnlyAfterChild` (`Automation`): a driver that stops while another caller is cancelling its child
  gets the child's running snapshot for an answer and ends before it; the Automation may admit its next
  execution beside the old child.
* `CancelledCapturePublishesNothing` (`NetworkTool`), `CancelledRecordsNothing` (`TaskRuntime`),
  `CancelledTouchesNothing` (`Filesystem`): a publication that took effect and was reported as failed
  leaves the claim open, and a cancellation that follows settles the Task as cancelled with its record
  in the manifest, or its destination replaced.
* `VerifiedLeavesNothing` (`Filesystem`): a directory copy whose parent sync fails leaves its
  temporary sibling and reports a verified cleanup.
* `RefusedOnlyWhenEmptyCannotFit` (`NetworkTool`): a result that would fit with two families
  shortened is refused.
* `KnownCaptureFound` (`NetworkTool`): a stop meets NOT_FOUND while its capture's Task is queued or
  about to be settled.
* `NotSilentlyMissing` (`NetworkEvents`): a netlink observer that ends tells nobody.
* `HostCallsBounded`, `ReplacedTokenUnserved` (`McpServer`): a restarted listener has fresh permits
  beside the calls of the old one; a rotation that landed unnoticed is acknowledged later while the
  listener serves the replaced token.
* `EnabledTunnelReported` (`Tunnel`): a clear whose removal fails, or a settings file that cannot be
  read when a host attaches, leaves an enabled tunnel without a client that reads "connecting".
* `ExclusiveInput`, `ImageBound`, `RenewalExtends` (`Visual`): input checked before a lease was
  granted arrives under it; an image and the scene its coordinates are bound to may differ; an older
  interaction moves the expiry of its lease back.

Observed while modelling, without a statement they contradict:

* Automation: an error midway in the admissions of an event leaves queued executions that nobody
  drives; a cancel whose commit lands and is reported as failed never wakes its execution.
* Filesystem: a rollback after a half-failed removal restores a partly deleted tree (the exception
  `WholeDestination` names); an error after the rename reports a failure of what is published.
* Network: a failure after the publication of a stream leaves an artifact nobody refers to; a
  replacement of the event source whose stop fails is not tried again.
* Magisk: a guard probe that fails leaves the cleanup unverified with no watch; the supervisor ends
  for good when a spawn fails.
* Visual: a pin that meets an expired record removes it although other calls have it pinned; a
  clipboard that cannot be restored skips the settling delay.

## 7. Plan

Done, in this order: `TaskLifecycle`, `TaskRuntime`, `TaskContract` and their proofs,
`RequestRetention`, `StateStore`, `RuntimeReset`; then `Automation`, `Resolver`, `Filesystem`,
`NetworkTool`, `NetworkEvents`, `MagiskHost`, `McpServer`, `McpResources`, `Tunnel`, `Visual`; then
the proofs of `Tunnel`, `StateStore` and `RuntimeReset`; then those of `NetworkEvents`,
`RequestRetention`, `Automation`, `MagiskHost`, `McpServer`, captures, `Visual` and `Filesystem`; then
those of `McpResources` and of network calls; then `AutomationContract` with the proof that
`Automation` implements it.

Next, most important first:

1. The waiters of synchronous executions: every waiter is answered, also when a settlement cannot be
   stored.
2. The daemon's reset and the update barrier, composed with `MagiskHost`.
3. The safety half of the liveness properties: the steps of each argument that are invariants.
