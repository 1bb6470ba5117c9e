------------------------- MODULE TaskRuntime_proofs -------------------------
(***************************************************************************)
(* Proofs that module TaskRuntime keeps its invariants for every set of    *)
(* Tasks and executors, every limit and any number of faults and crashes,  *)
(* and that it implements the contract of module TaskContract.             *)
(***************************************************************************)
EXTENDS TaskRuntime, TLAPS

\* The driver's places before its Task was started.
Waiting == {"queued", "permit", "interrupt"}

\* The driver against the Task it drives.
DriverInv(t) ==
    /\ driver[t].pc # "none" => task[t].state # "absent"
    /\ driver[t].pc \in Waiting => task[t].state # "running"
    /\ driver[t].pc \in Executing \ {"remove"} => task[t].state = "running"
    /\ driver[t].pc = "remove" => task[t].state # "queued"
    /\ driver[t].pc \in {"claimed", "checked"} => t \notin ran
    /\ driver[t].pc \in {"running", "result", "stderr"} => t \in ran
    /\ driver[t].pc \in {"claimed", "checked", "result", "stderr"} => ~Alive(t)
    /\ driver[t].pc \in Executing \ {"finish", "remove"} => "unconfirmed" \notin artifacts[t]

\* What a driver that has its outcome knows: cleanup it calls verified is, an execution
\* it calls completed ran and had no publication fail, and one it calls cancelled was asked
\* to and had none succeed.
OutcomeInv(t) ==
    driver[t].pc \in {"finish", "remove", "settle"} /\ driver[t].cleanup =>
        /\ ~Alive(t)
        /\ driver[t].outcome = "completed" => /\ t \in ran /\ task[t].state # "queued"
                                              /\ "unconfirmed" \notin artifacts[t]
        /\ driver[t].outcome = "cancelled" => /\ task[t].cancel
                                              /\ "confirmed" \notin artifacts[t]

\* The claim between the driver that owns it and the canceller that watches it.
ClaimInv(t) ==
    /\ claim[t].entry <=> driver[t].pc \in Executing
    /\ driver[t].pc \in Executing => ("confirmed" \in artifacts[t] <=> claim[t].published)
    /\ claim[t].requested => task[t].cancel /\ "confirmed" \notin artifacts[t]
    /\ claim[t].finished => /\ driver[t].pc \in {"remove", "settle", "done"}
                            /\ task[t].state # "queued"
                            /\ claim[t].cleanup => ~Alive(t)
    /\ driver[t].pc = "remove" => claim[t].finished

CancellerInv(t) ==
    /\ canceller[t].pc # "idle" => task[t].cancel
    /\ canceller[t].pc = "await" /\ ~canceller[t].won => claim[t].requested
    /\ canceller[t].pc = "settle" => claim[t].requested /\ claim[t].finished

\* The Task's record, its request, its process and its artifacts.
RecordInv(t) ==
    /\ task[t].state # "created"
    /\ dedup[t] = "pending" <=> NonTerminal(t)
    /\ dedup[t] = "settled" <=> IsTerminal(task[t])
    /\ task[t].cancel => task[t].state \notin {"absent", "queued"}
    /\ task[t].state = "cancelled" => task[t].cancel /\ "confirmed" \notin artifacts[t]
    /\ task[t].state = "completed" => "unconfirmed" \notin artifacts[t]
    /\ Alive(t) => task[t].state \in {"running", "interrupted"}
    /\ t \in ran => task[t].state \notin {"absent", "queued"}
    /\ artifacts[t] # {} => t \in ran
    /\ serving /\ task[t].instance # instance => ~NonTerminal(t) /\ ~Alive(t)

\* A host that is down has no memory.
DownInv ==
    ~serving => /\ \A t \in Tasks : /\ driver[t] = NoDriver
                                    /\ claim[t] = NoClaim
                                    /\ canceller[t] = NoCanceller
                /\ loop = "down"
                /\ readiness = "ready" /\ ~store_failed /\ ~unclean

TaskInv(t) == /\ DriverInv(t) /\ OutcomeInv(t) /\ ClaimInv(t)
              /\ CancellerInv(t) /\ RecordInv(t)

\* The inductive invariant.
IInv ==
    /\ TypeOK
    /\ StoreFaultTracked
    /\ DownInv
    /\ \A t \in Tasks : TaskInv(t)

-----------------------------------------------------------------------------
(* Lemmas on the operators the actions are built from.                     *)

\* A step that leaves everything of one Task alone.
Same(u) == /\ task'[u] = task[u] /\ dedup'[u] = dedup[u] /\ guard'[u] = guard[u]
           /\ driver'[u] = driver[u] /\ claim'[u] = claim[u]
           /\ canceller'[u] = canceller[u]
           /\ artifacts'[u] = artifacts[u]
           /\ u \in ran' <=> u \in ran
           /\ UNCHANGED <<instance, serving>>

\* Such a step keeps that Task's invariant.
LEMMA Frame ==
    ASSUME NEW u \in Tasks, TaskInv(u), Same(u)
    PROVE  TaskInv(u)'
  BY DEF TaskInv, Same, DriverInv, OutcomeInv, ClaimInv, CancellerInv, RecordInv,
         NonTerminal, Alive, IsTerminal

\* What the events the core applies do to a Task record (TaskLifecycle::apply).
LEMMA AfterEvents ==
    ASSUME NEW r \in TaskRec
    PROVE  /\ After(r, Event("Start")) = [r EXCEPT !.state = "running"]
           /\ After(r, Event("HostLost")) = [r EXCEPT !.state = "interrupted"]
           /\ After(r, Event("SettleCancellation")) = [r EXCEPT !.state = "cancelled"]
           /\ ~IsTerminal(r) => After(r, Event("RequestCancel")) = [r EXCEPT !.cancel = TRUE]
  BY DEF TaskRec, TaskState, Terminal, IsTerminal, After, Event, Selects

\* What a settlement records: an interruption unless cleanup is verified.
LEMMA AfterOutcome ==
    ASSUME NEW r \in TaskRec, NEW o \in {"completed", "failed", "cancelled"},
           NEW c \in BOOLEAN
    PROVE  After(r, OutcomeEvent(o, c)) =
               [r EXCEPT !.state = IF c THEN o ELSE "interrupted"]
  <1>1. CASE ~c
    BY <1>1 DEF TaskRec, After, OutcomeEvent, Selects
  <1>2. CASE c
    BY <1>2 DEF TaskRec, After, OutcomeEvent, Selects
  <1> QED BY <1>1, <1>2

\* A commit that succeeds is stored, and readiness withdrawn for the store is restored.
LEMMA CommittedStep ==
    ASSUME NEW ts, NEW ds, NEW r \in Readiness,
           store_failed => r # "ready", r = STORE_UNAVAILABLE => store_failed,
           Committed(ts, ds, r)
    PROVE  /\ task' = ts /\ dedup' = ds
           /\ store_failed' \in BOOLEAN /\ readiness' \in Readiness /\ StoreFaultTracked'
  BY DEF StoreFaultTracked, Committed, Ready, Readiness, STORE_UNAVAILABLE, CLEANUP_UNVERIFIED

\* A write that fails is stored or is not, and readiness is withdrawn.
LEMMA WriteFailedStep ==
    ASSUME NEW ts, NEW ds, WriteFailed(ts, ds)
    PROVE  /\ (task' = ts /\ dedup' = ds) \/ (task' = task /\ dedup' = dedup)
           /\ store_failed' \in BOOLEAN /\ readiness' \in Readiness /\ StoreFaultTracked'
  BY DEF StoreFaultTracked, WriteFailed, Ready, Readiness, STORE_UNAVAILABLE

\* The readiness a commit starts from, when the handler has not changed it.
LEMMA ReadinessNow ==
    ASSUME TypeOK, StoreFaultTracked
    PROVE  /\ readiness \in Readiness
           /\ store_failed => readiness # "ready"
           /\ readiness = STORE_UNAVAILABLE => store_failed
  BY DEF TypeOK, StoreFaultTracked, Ready

\* A driver or a canceller that is at work belongs to a host that serves.
LEMMA AtWork ==
    ASSUME IInv, NEW t \in Tasks, driver[t].pc # "none" \/ canceller[t].pc # "idle"
    PROVE  serving
  BY DEF IInv, DownInv, NoDriver, NoCanceller

\* A step of one Task, on a host that serves or has nothing to lose: what is left to show is about that Task.
LEMMA OneTask ==
    ASSUME IInv, NEW t \in Tasks, TypeOK', StoreFaultTracked', UNCHANGED life,
           serving \/ UNCHANGED <<driver, claim, canceller, readiness, store_failed, unclean>>,
           \A u \in Tasks \ {t} : Same(u), TaskInv(t)'
    PROVE  IInv'
  <1>1. DownInv'
    BY DEF IInv, DownInv, life
  <1>2. ASSUME NEW u \in Tasks PROVE TaskInv(u)'
    <2>1. CASE u = t
      BY <2>1
    <2>2. CASE u # t
      BY <2>2, Frame DEF IInv
    <2> QED BY <2>1, <2>2
  <1> QED BY <1>1, <1>2 DEF IInv

\* The driver of t is at p with outcome o and cleanup c after the step, and no other
\* driver moved.
Drives(t, p, o, c) == /\ driver' \in [Tasks -> DriverRec]
                      /\ driver'[t].pc = p /\ driver'[t].outcome = o
                      /\ driver'[t].cleanup = c
                      /\ \A u \in Tasks \ {t} : driver'[u] = driver[u]

\* A driver that goes on keeps its outcome, and no other driver moves.
LEMMA GoesDrives ==
    ASSUME TypeOK, NEW t \in Tasks, NEW p \in DriverPc, Goes(t, p)
    PROVE  Drives(t, p, driver[t].outcome, driver[t].cleanup)
  <1>1. [driver[t] EXCEPT !.pc = p] \in DriverRec
    BY DEF TypeOK, DriverRec
  <1> QED BY <1>1 DEF TypeOK, Goes, Drives, DriverRec

\* A driver that reached its outcome holds it, and no other driver moves.
LEMMA ConcludesDrives ==
    ASSUME TypeOK, NEW t \in Tasks, NEW p \in DriverPc, NEW c \in BOOLEAN,
           NEW o \in {"completed", "failed", "cancelled"}, Concludes(t, p, o, c)
    PROVE  Drives(t, p, o, c)
  <1>1. [pc |-> p, outcome |-> o, cleanup |-> c] \in DriverRec
    BY DEF DriverRec
  <1> QED BY <1>1 DEF TypeOK, Concludes, Drives

\* The sets of places a driver can be at (run_task and execute_command).
LEMMA Places ==
    DriverPc = {"none", "queued", "settle", "interrupt", "done", "permit", "claimed",
                "checked", "running", "result", "stderr", "finish", "remove"}
  BY DEF DriverPc, Holding, Executing

\* The store holds the record r and the dedup entry d of t after the step, and every
\* other Task and request as before.
Stores(t, r, d) == /\ task' \in [Tasks -> TaskRec]
                   /\ dedup' \in [Tasks -> {"none", "pending", "settled"}]
                   /\ task'[t] = r /\ dedup'[t] = d
                   /\ \A u \in Tasks \ {t} : task'[u] = task[u] /\ dedup'[u] = dedup[u]

\* A candidate that was stored is the canonical record of its Task.
LEMMA Landed ==
    ASSUME TypeOK, NEW t \in Tasks, NEW r \in TaskRec, NEW d \in {"none", "pending", "settled"},
           task' = [task EXCEPT ![t] = r], dedup' = [dedup EXCEPT ![t] = d]
    PROVE  Stores(t, r, d)
  BY DEF TypeOK, Stores

\* A candidate that was not stored leaves the Task as it was.
LEMMA NotLanded ==
    ASSUME TypeOK, NEW t \in Tasks, (task' = task /\ dedup' = dedup)
    PROVE  Stores(t, task[t], dedup[t])
  BY DEF TypeOK, Stores

\* The canceller of t is at p after the step, and no other canceller moved.
Calls(t, p, w) == /\ canceller' \in [Tasks -> CancellerRec]
                  /\ canceller'[t].pc = p /\ canceller'[t].won = w
                  /\ \A u \in Tasks \ {t} : canceller'[u] = canceller[u]

\* A cancel call that goes on moves no other call.
LEMMA CancelsCalls ==
    ASSUME TypeOK, NEW t \in Tasks, NEW p \in {"idle", "claim", "await", "settle", "poll"},
           NEW w \in BOOLEAN, Cancels(t, p, w)
    PROVE  Calls(t, p, w)
  <1>1. [pc |-> p, won |-> w] \in CancellerRec
    BY DEF CancellerRec
  <1> QED BY <1>1 DEF TypeOK, Cancels, Calls

-----------------------------------------------------------------------------
(* Every action keeps the inductive invariant.                             *)

\* TakePermit keeps the inductive invariant (run_task, leaf_permits.acquire).
LEMMA TakePermitInv ==
    ASSUME IInv, NEW t \in Tasks, TakePermit(t)
    PROVE  IInv'
  <1>1. serving /\ TypeOK /\ TaskInv(t) /\ StoreFaultTracked
    BY AtWork DEF IInv, TakePermit
  <1>2. Drives(t, "permit", driver[t].outcome, driver[t].cleanup)
    BY <1>1, GoesDrives, Places DEF TakePermit
  <1>3. TypeOK' /\ StoreFaultTracked' /\ UNCHANGED life
    BY <1>1, <1>2 DEF TypeOK, StoreFaultTracked, Ready, TakePermit, Drives, store, env, life
  <1>4. \A u \in Tasks \ {t} : Same(u)
    BY <1>2 DEF TakePermit, Drives, Same, life, store
  <1>5. TaskInv(t)'
    BY <1>1, <1>2 DEF TakePermit, Drives, store, life, TaskInv, DriverInv, OutcomeInv,
       ClaimInv, CancellerInv, RecordInv, NonTerminal, Alive, IsTerminal, Waiting, Executing
  <1> QED BY <1>1, <1>3, <1>4, <1>5, OneTask

\* DeclineTask keeps the inductive invariant (run_task, early returns).
LEMMA DeclineTaskInv ==
    ASSUME IInv, NEW t \in Tasks, DeclineTask(t)
    PROVE  IInv'
  <1>1. serving /\ TypeOK /\ TaskInv(t) /\ StoreFaultTracked
    BY AtWork DEF IInv, DeclineTask
  <1>2. \/ Drives(t, "done", driver[t].outcome, driver[t].cleanup)
        \/ Drives(t, "interrupt", driver[t].outcome, driver[t].cleanup)
        \/ Drives(t, "settle", "failed", TRUE) /\ ~IsTerminal(task[t])
    BY <1>1, GoesDrives, ConcludesDrives, Places DEF DeclineTask, Leaves
  <1>3. TypeOK' /\ StoreFaultTracked' /\ UNCHANGED life
    BY <1>1, <1>2 DEF TypeOK, StoreFaultTracked, Ready, DeclineTask, Drives, store, env, life
  <1>4. \A u \in Tasks \ {t} : Same(u)
    BY <1>2 DEF DeclineTask, Drives, Same, life, store
  <1>5. TaskInv(t)'
    BY <1>1, <1>2 DEF DeclineTask, Drives, store, life, TaskInv, DriverInv, OutcomeInv,
       ClaimInv, CancellerInv, RecordInv, NonTerminal, Alive, IsTerminal, Terminal, Waiting, Executing
  <1> QED BY <1>1, <1>3, <1>4, <1>5, OneTask

\* CheckExecutor keeps the inductive invariant (command_executor_is_current).
LEMMA CheckExecutorInv ==
    ASSUME IInv, NEW t \in Tasks, CheckExecutor(t)
    PROVE  IInv'
  <1>1. serving /\ TypeOK /\ TaskInv(t) /\ StoreFaultTracked
    BY AtWork DEF IInv, CheckExecutor
  <1>2. \/ Drives(t, "checked", driver[t].outcome, driver[t].cleanup)
        \/ Drives(t, "finish", "failed", TRUE)
    BY <1>1, GoesDrives, ConcludesDrives, Places DEF CheckExecutor, Ends
  <1>3. TypeOK' /\ StoreFaultTracked' /\ UNCHANGED life
    BY <1>1, <1>2 DEF TypeOK, StoreFaultTracked, Ready, CheckExecutor, Drives, store, env, life
  <1>4. \A u \in Tasks \ {t} : Same(u)
    BY <1>2 DEF CheckExecutor, Drives, Same, life, store
  <1>5. TaskInv(t)'
    BY <1>1, <1>2 DEF CheckExecutor, Drives, store, life, TaskInv, DriverInv, OutcomeInv,
       ClaimInv, CancellerInv, RecordInv, NonTerminal, Alive, IsTerminal, Waiting, Executing
  <1> QED BY <1>1, <1>3, <1>4, <1>5, OneTask

\* Checkpoint keeps the inductive invariant (ExecutionClaim::checkpoint).
LEMMA CheckpointInv ==
    ASSUME IInv, NEW t \in Tasks, Checkpoint(t)
    PROVE  IInv'
  <1>1. serving /\ TypeOK /\ TaskInv(t) /\ StoreFaultTracked
    BY AtWork DEF IInv, Checkpoint
  <1>2. \/ /\ Drives(t, "finish", "cancelled", TRUE) /\ claim[t].requested
           /\ UNCHANGED <<guard, ran>>
        \/ Drives(t, "finish", "failed", TRUE) /\ UNCHANGED <<guard, ran>>
        \/ /\ Drives(t, "running", driver[t].outcome, driver[t].cleanup)
           /\ guard' = [guard EXCEPT ![t] = "live"]
           /\ ran' = ran \cup {t}
    BY <1>1, GoesDrives, ConcludesDrives, Places DEF Checkpoint, Ends
  <1>3. TypeOK' /\ StoreFaultTracked' /\ UNCHANGED life
    BY <1>1, <1>2 DEF TypeOK, StoreFaultTracked, Ready, Checkpoint, Drives, store, env, life
  <1>4. \A u \in Tasks \ {t} : Same(u)
    BY <1>1, <1>2 DEF TypeOK, Checkpoint, Drives, Same, life, store
  <1>5. TaskInv(t)'
    BY <1>1, <1>2 DEF TypeOK, Checkpoint, Drives, store, life, TaskInv, DriverInv, OutcomeInv,
       ClaimInv, CancellerInv, RecordInv, NonTerminal, Alive, IsTerminal, Waiting, Executing
  <1> QED BY <1>1, <1>3, <1>4, <1>5, OneTask

\* ProcessEnds keeps the inductive invariant: a process is gone with its verdict.
LEMMA ProcessEndsInv ==
    ASSUME IInv, NEW t \in Tasks, ProcessEnds(t)
    PROVE  IInv'
  <1>1. serving /\ TypeOK /\ TaskInv(t) /\ StoreFaultTracked
    BY AtWork DEF IInv, ProcessEnds
  <1>2. \/ /\ \/ Drives(t, "finish", "cancelled", TRUE) /\ claim[t].requested
              \/ Drives(t, "finish", "failed", TRUE)
              \/ Drives(t, "result", driver[t].outcome, driver[t].cleanup)
           /\ guard' = [guard EXCEPT ![t] = "none"]
        \/ Drives(t, "finish", "failed", FALSE) /\ UNCHANGED guard
    BY <1>1, GoesDrives, ConcludesDrives, Places DEF ProcessEnds, Ends
  <1>3. TypeOK' /\ StoreFaultTracked' /\ UNCHANGED life
    BY <1>1, <1>2 DEF TypeOK, StoreFaultTracked, Ready, ProcessEnds, Drives, store, env, life
  <1>4. \A u \in Tasks \ {t} : Same(u)
    BY <1>1, <1>2 DEF TypeOK, ProcessEnds, Drives, Same, life, store
  <1>5. TaskInv(t)'
    BY <1>1, <1>2 DEF TypeOK, ProcessEnds, Drives, store, life, TaskInv, DriverInv, OutcomeInv,
       ClaimInv, CancellerInv, RecordInv, NonTerminal, Alive, IsTerminal, Waiting, Executing
  <1> QED BY <1>1, <1>3, <1>4, <1>5, OneTask

\* CommandResult keeps the inductive invariant: publication needs no cancellation.
LEMMA CommandResultInv ==
    ASSUME IInv, NEW t \in Tasks, CommandResult(t)
    PROVE  IInv'
  <1>1. serving /\ TypeOK /\ TaskInv(t) /\ StoreFaultTracked
    BY AtWork DEF IInv, CommandResult
  <1>2. [claim EXCEPT ![t].published = TRUE] \in [Tasks -> ClaimRec]
    <2>1. [claim[t] EXCEPT !.published = TRUE] \in ClaimRec
      BY <1>1 DEF TypeOK, ClaimRec
    <2> QED BY <1>1, <2>1 DEF TypeOK
  <1>3. /\ \/ Drives(t, "finish", "completed", TRUE)
           \/ Drives(t, "finish", "failed", TRUE)
           \/ Drives(t, "stderr", driver[t].outcome, driver[t].cleanup)
           \/ /\ Drives(t, "finish", "cancelled", TRUE) /\ claim[t].requested
              /\ UNCHANGED <<artifacts, claim>>
        /\ \/ UNCHANGED <<artifacts, claim>>
           \/ /\ Drives(t, "finish", "failed", TRUE)
              /\ artifacts' = [artifacts EXCEPT ![t] = @ \cup {"unconfirmed"}]
              /\ claim' = claim
           \/ /\ ~claim[t].requested
              /\ artifacts' = [artifacts EXCEPT ![t] = @ \cup {"confirmed"}]
              /\ claim' = [claim EXCEPT ![t].published = TRUE]
        /\ driver[t].pc \in {"result", "stderr"}
        /\ UNCHANGED <<store, guard, env, life, canceller, executor, ran, unclean>>
    BY <1>1, GoesDrives, ConcludesDrives, Places DEF CommandResult, PublishStream, Records,
       Ends
  <1>4. TypeOK' /\ StoreFaultTracked' /\ UNCHANGED life
    <2>1. artifacts' \in [Tasks -> SUBSET {"confirmed", "unconfirmed"}]
      <3>1. artifacts[t] \cup {"confirmed"} \in SUBSET {"confirmed", "unconfirmed"}
        BY <1>1 DEF TypeOK
      <3>2. artifacts[t] \cup {"unconfirmed"} \in SUBSET {"confirmed", "unconfirmed"}
        BY <1>1 DEF TypeOK
      <3>3. artifacts \in [Tasks -> SUBSET {"confirmed", "unconfirmed"}]
        BY <1>1 DEF TypeOK
      <3>4. \/ artifacts' = artifacts
            \/ artifacts' = [artifacts EXCEPT ![t] = artifacts[t] \cup {"unconfirmed"}]
            \/ artifacts' = [artifacts EXCEPT ![t] = artifacts[t] \cup {"confirmed"}]
        BY <1>3
      <3> QED BY <3>1, <3>2, <3>3, <3>4
    <2>2. claim' \in [Tasks -> ClaimRec]
      BY <1>1, <1>2, <1>3 DEF TypeOK
    <2> QED BY <1>1, <1>3, <2>1, <2>2 DEF TypeOK, StoreFaultTracked, Ready, Drives, store,
            env, life
  <1>5. \A u \in Tasks \ {t} : Same(u)
    BY <1>1, <1>3 DEF TypeOK, Drives, Same, life, store
  <1>6. TaskInv(t)'
    BY <1>1, <1>3 DEF TypeOK, ClaimRec, Drives, store, life, TaskInv, DriverInv, OutcomeInv,
       ClaimInv, CancellerInv, RecordInv, NonTerminal, Alive, IsTerminal, Waiting, Executing
  <1> QED BY <1>1, <1>4, <1>5, <1>6, OneTask

\* FinishClaim keeps the inductive invariant (ExecutionClaim::finish).
LEMMA FinishClaimInv ==
    ASSUME IInv, NEW t \in Tasks, FinishClaim(t)
    PROVE  IInv'
  <1>1. serving /\ TypeOK /\ TaskInv(t) /\ StoreFaultTracked
    BY AtWork DEF IInv, FinishClaim
  <1>2. /\ claim' \in [Tasks -> ClaimRec]
        /\ claim'[t] = [claim[t] EXCEPT !.finished = TRUE, !.cleanup = driver[t].cleanup]
        /\ \A u \in Tasks \ {t} : claim'[u] = claim[u]
    <2>1. [claim[t] EXCEPT !.finished = TRUE, !.cleanup = driver[t].cleanup] \in ClaimRec
      BY <1>1 DEF TypeOK, ClaimRec, DriverRec
    <2> QED BY <1>1, <2>1 DEF TypeOK, FinishClaim
  <1>3. Drives(t, "remove", driver[t].outcome, driver[t].cleanup)
    BY <1>1, GoesDrives, Places DEF FinishClaim
  <1>4. TypeOK' /\ StoreFaultTracked' /\ UNCHANGED life
    BY <1>1, <1>2, <1>3 DEF TypeOK, StoreFaultTracked, Ready, FinishClaim, Drives, store, env, life
  <1>5. \A u \in Tasks \ {t} : Same(u)
    BY <1>2, <1>3 DEF FinishClaim, Drives, Same, life, store
  <1>6. TaskInv(t)'
    BY <1>1, <1>2, <1>3 DEF TypeOK, ClaimRec, FinishClaim, Drives, store, life, TaskInv,
       DriverInv, OutcomeInv, ClaimInv, CancellerInv, RecordInv, NonTerminal, Alive,
       IsTerminal, Waiting, Executing
  <1> QED BY <1>1, <1>4, <1>5, <1>6, OneTask

\* RemoveClaim keeps the inductive invariant (LocalExecutionClaims::finish).
LEMMA RemoveClaimInv ==
    ASSUME IInv, NEW t \in Tasks, RemoveClaim(t)
    PROVE  IInv'
  <1>1. serving /\ TypeOK /\ TaskInv(t) /\ StoreFaultTracked
    BY AtWork DEF IInv, RemoveClaim
  <1>2. /\ claim' \in [Tasks -> ClaimRec]
        /\ claim'[t] = [claim[t] EXCEPT !.entry = FALSE]
        /\ \A u \in Tasks \ {t} : claim'[u] = claim[u]
    <2>1. [claim[t] EXCEPT !.entry = FALSE] \in ClaimRec
      BY <1>1 DEF TypeOK, ClaimRec
    <2> QED BY <1>1, <2>1 DEF TypeOK, RemoveClaim
  <1>3. Drives(t, "settle", driver[t].outcome, driver[t].cleanup)
    BY <1>1, GoesDrives, Places DEF RemoveClaim
  <1>4. TypeOK' /\ StoreFaultTracked' /\ UNCHANGED life
    BY <1>1, <1>2, <1>3 DEF TypeOK, StoreFaultTracked, Ready, RemoveClaim, Drives, store, env, life
  <1>5. \A u \in Tasks \ {t} : Same(u)
    BY <1>2, <1>3 DEF RemoveClaim, Drives, Same, life, store
  <1>6. TaskInv(t)'
    BY <1>1, <1>2, <1>3 DEF TypeOK, ClaimRec, RemoveClaim, Drives, store, life, TaskInv,
       DriverInv, OutcomeInv, ClaimInv, CancellerInv, RecordInv, NonTerminal, Alive,
       IsTerminal, Waiting, Executing
  <1> QED BY <1>1, <1>4, <1>5, <1>6, OneTask

\* AdmitTask keeps the inductive invariant, stored or not (admit_task).
LEMMA AdmitTaskInv ==
    ASSUME IInv, NEW t \in Tasks, AdmitTask(t)
    PROVE  IInv'
  <1> DEFINE r  == [state |-> "queued", cancel |-> FALSE, executor |-> executor,
                    instance |-> instance]
             ts == [task EXCEPT ![t] = r]
             ds == [dedup EXCEPT ![t] = "pending"]
  <1>1. /\ serving /\ TypeOK /\ TaskInv(t) /\ StoreFaultTracked
        /\ dedup[t] = "none" /\ Ready
        /\ UNCHANGED <<guard, artifacts, env, life, claim, canceller, executor, ran, unclean>>
    BY DEF IInv, AdmitTask
  <1>2. \/ Committed(ts, ds, readiness) /\ Goes(t, "queued")
        \/ WriteFailed(ts, ds) /\ UNCHANGED driver
    BY DEF AdmitTask, After, NewLifecycle, Event, Selects
  <1>3. r \in TaskRec
    BY <1>1 DEF TypeOK, TaskRec, TaskState
  <1>4. /\ Stores(t, r, "pending") \/ (Stores(t, task[t], dedup[t]) /\ UNCHANGED driver)
        /\ store_failed' \in BOOLEAN /\ readiness' \in Readiness /\ StoreFaultTracked'
    <2> HIDE DEF r
    <2>1. /\ (task' = ts /\ dedup' = ds) \/ (task' = task /\ dedup' = dedup)
          /\ Committed(ts, ds, readiness) => task' = ts /\ dedup' = ds
          /\ store_failed' \in BOOLEAN /\ readiness' \in Readiness /\ StoreFaultTracked'
      BY <1>1, <1>2, CommittedStep, WriteFailedStep, ReadinessNow
    <2> QED BY <1>1, <1>2, <1>3, <2>1, Landed, NotLanded
  <1>5. \/ UNCHANGED driver
        \/ Drives(t, "queued", driver[t].outcome, driver[t].cleanup) /\ Stores(t, r, "pending")
    <2> HIDE DEF r
    <2>1. Committed(ts, ds, readiness) => task' = ts /\ dedup' = ds
      BY DEF Committed
    <2> QED BY <1>1, <1>2, <1>3, <2>1, GoesDrives, Landed, Places
  <1>6. TypeOK'
    BY <1>1, <1>4, <1>5 DEF TypeOK, Drives, Stores, env, life
  <1>7. \A u \in Tasks \ {t} : Same(u)
    BY <1>1, <1>4, <1>5 DEF Drives, Stores, Same, life
  <1>8. TaskInv(t)'
    BY <1>1, <1>4, <1>5 DEF TypeOK, TaskRec, TaskState, Drives, Stores, life, TaskInv,
       DriverInv, OutcomeInv, ClaimInv, CancellerInv, RecordInv, NonTerminal, Alive,
       IsTerminal, Terminal, Waiting, Executing
  <1> QED BY <1>1, <1>4, <1>6, <1>7, <1>8, OneTask

\* StartTask keeps the inductive invariant, stored, failed or refused (run_task).
LEMMA StartTaskInv ==
    ASSUME IInv, NEW t \in Tasks, StartTask(t)
    PROVE  IInv'
  <1> DEFINE r == [task[t] EXCEPT !.state = "running"]
             c == [NoClaim EXCEPT !.entry = TRUE]
  <1>1. /\ serving /\ TypeOK /\ TaskInv(t) /\ StoreFaultTracked
        /\ task[t].state = "queued" /\ driver[t].pc = "permit" /\ Ready
        /\ UNCHANGED <<guard, artifacts, env, life, canceller, executor, ran, unclean>>
    <2>1. driver[t].pc = "permit" /\ ~IsTerminal(task[t]) /\ Ready
      BY DEF StartTask, MayStart
    <2>2. serving /\ TypeOK /\ TaskInv(t) /\ StoreFaultTracked
      BY <2>1, AtWork DEF IInv
    <2>3. task[t].state = "queued"
      BY <2>1, <2>2 DEF TypeOK, TaskInv, DriverInv, RecordInv, TaskRec, TaskState,
         IsTerminal, Terminal, Waiting
    <2> QED BY <2>1, <2>2, <2>3 DEF StartTask
  <1>2. r \in TaskRec /\ Started(t) = [task EXCEPT ![t] = r]
    <2>1. task[t] \in TaskRec
      BY <1>1 DEF TypeOK
    <2>2. r \in TaskRec
      BY <2>1 DEF TaskRec, TaskState
    <2>3. After(task[t], Event("Start")) = r
      BY <2>1, AfterEvents
    <2> QED BY <2>2, <2>3 DEF Started
  <1>3. dedup = [dedup EXCEPT ![t] = dedup[t]] /\ dedup[t] \in {"none", "pending", "settled"}
    BY <1>1 DEF TypeOK
  <1>4. /\ \/ /\ Stores(t, r, dedup[t])
              /\ Drives(t, "claimed", driver[t].outcome, driver[t].cleanup)
              /\ claim' = [claim EXCEPT ![t] = c]
           \/ /\ Stores(t, r, dedup[t]) \/ Stores(t, task[t], dedup[t])
              /\ Drives(t, "done", driver[t].outcome, driver[t].cleanup)
              /\ UNCHANGED claim
        /\ store_failed' \in BOOLEAN /\ readiness' \in Readiness /\ StoreFaultTracked'
    <2> HIDE DEF r, c
    <2>1. CASE Committed(Started(t), dedup, readiness) /\ Goes(t, "claimed")
                 /\ claim' = [claim EXCEPT ![t] = c]
      <3>1. /\ task' = [task EXCEPT ![t] = r] /\ dedup' = [dedup EXCEPT ![t] = dedup[t]]
            /\ store_failed' \in BOOLEAN /\ readiness' \in Readiness /\ StoreFaultTracked'
        BY <1>1, <1>2, <1>3, <2>1, CommittedStep, ReadinessNow
      <3> QED BY <1>1, <1>2, <1>3, <2>1, <3>1, Landed, GoesDrives, Places
    <2>2. CASE WriteFailed(Started(t), dedup) /\ Goes(t, "done") /\ UNCHANGED claim
      <3>1. /\ \/ task' = [task EXCEPT ![t] = r] /\ dedup' = [dedup EXCEPT ![t] = dedup[t]]
               \/ (task' = task /\ dedup' = dedup)
            /\ store_failed' \in BOOLEAN /\ readiness' \in Readiness /\ StoreFaultTracked'
        BY <1>1, <1>2, <1>3, <2>2, WriteFailedStep
      <3> QED BY <1>1, <1>2, <1>3, <2>2, <3>1, Landed, NotLanded, GoesDrives, Places
    <2>3. CASE CommitRefused(Started(t)) /\ Goes(t, "done") /\ UNCHANGED claim
      <3>1. task' = task /\ dedup' = dedup /\ StoreFaultTracked'
            /\ store_failed' \in BOOLEAN /\ readiness' \in Readiness
        BY <1>1, <2>3 DEF CommitRefused, store, durable, StoreFaultTracked, Ready, TypeOK
      <3> QED BY <1>1, <2>3, <3>1, NotLanded, GoesDrives, Places
    <2> QED BY <2>1, <2>2, <2>3 DEF StartTask, Leaves, c
  <1>5. TypeOK'
    <2>1. c \in ClaimRec
      BY DEF ClaimRec, NoClaim
    <2> HIDE DEF c, r
    <2>2. claim' \in [Tasks -> ClaimRec]
      BY <1>1, <1>4, <2>1 DEF TypeOK
    <2> QED BY <1>1, <1>4, <2>2 DEF TypeOK, Drives, Stores, env, life
  <1>6. \A u \in Tasks \ {t} : Same(u)
    BY <1>1, <1>4 DEF TypeOK, Drives, Stores, Same, life
  <1>7. TaskInv(t)'
    <2>1. CASE UNCHANGED claim /\ Drives(t, "done", driver[t].outcome, driver[t].cleanup)
                 /\ (Stores(t, r, dedup[t]) \/ Stores(t, task[t], dedup[t]))
      BY <1>1, <2>1 DEF TypeOK, TaskRec, Drives, Stores, life, TaskInv,
         DriverInv, OutcomeInv, ClaimInv, CancellerInv, RecordInv, NonTerminal, Alive,
         IsTerminal, Terminal, Waiting, Executing
    <2>2. CASE claim' = [claim EXCEPT ![t] = c] /\ Stores(t, r, dedup[t])
                 /\ Drives(t, "claimed", driver[t].outcome, driver[t].cleanup)
      <3>1. /\ claim'[t].entry /\ ~claim'[t].requested /\ ~claim'[t].published
            /\ ~claim'[t].finished
        BY <1>1, <2>2 DEF TypeOK, NoClaim
      <3>2. /\ task'[t].state = "running" /\ task'[t].cancel = task[t].cancel
            /\ task'[t].instance = task[t].instance
        BY <1>1, <2>2 DEF TypeOK, TaskRec, Stores
      <3> QED
        BY <1>1, <2>2, <3>1, <3>2 DEF Drives, Stores, life, TaskInv,
           DriverInv, OutcomeInv, ClaimInv, CancellerInv, RecordInv, NonTerminal, Alive,
           IsTerminal, Terminal, Waiting, Executing
    <2> QED BY <1>4, <2>1, <2>2
  <1> QED BY <1>1, <1>4, <1>5, <1>6, <1>7, OneTask

\* One attempt of a settlement, by the driver or by the canceller.
LEMMA SettleStep ==
    ASSUME IInv, NEW t \in Tasks, NEW o \in {"completed", "failed", "cancelled"},
           NEW c \in BOOLEAN, SettleEnds(t, o, c) \/ SettleFails(t, o, c)
    PROVE  /\ \/ Stores(t, task[t], dedup[t])
              \/ /\ ~IsTerminal(task[t]) /\ Legal(task[t], OutcomeEvent(o, c))
                 /\ Stores(t, [task[t] EXCEPT !.state = IF c THEN o ELSE "interrupted"],
                           "settled")
           /\ store_failed' \in BOOLEAN /\ readiness' \in Readiness /\ StoreFaultTracked'
           /\ unclean' \in BOOLEAN
  <1> DEFINE ev == OutcomeEvent(o, c)
             r  == [task[t] EXCEPT !.state = IF c THEN o ELSE "interrupted"]
  <1>1. TypeOK /\ StoreFaultTracked /\ unclean \in BOOLEAN
    BY DEF IInv, TypeOK
  <1>2. r \in TaskRec /\ Settled(t, ev) = [task EXCEPT ![t] = r]
    <2>1. task[t] \in TaskRec
      BY <1>1 DEF TypeOK
    <2>2. r \in TaskRec
      BY <2>1 DEF TaskRec, TaskState, Terminal
    <2>3. After(task[t], ev) = r
      BY <2>1, AfterOutcome
    <2> QED BY <2>2, <2>3 DEF Settled
  <1> HIDE DEF r, ev
  <1>3. CASE ~Readable /\ UNCHANGED <<store, unclean>>
    BY <1>1, <1>3, NotLanded DEF store, durable, StoreFaultTracked, Ready, TypeOK
  <1>4. CASE /\ readiness' = Reported(c) /\ unclean' = (unclean \/ ~c)
             /\ UNCHANGED <<durable, store_failed>>
    BY <1>1, <1>4, NotLanded DEF durable, Reported, StoreFaultTracked, Ready, TypeOK, Readiness,
       STORE_UNAVAILABLE, CLEANUP_UNVERIFIED
  <1>5. CASE /\ ~IsTerminal(task[t]) /\ Legal(task[t], ev) /\ unclean' = (unclean \/ ~c)
             /\ \/ Committed(Settled(t, ev), Retained(t), Reported(c))
                \/ WriteFailed(Settled(t, ev), Retained(t))
    <2>1. /\ Reported(c) \in Readiness
          /\ store_failed => Reported(c) # "ready"
          /\ Reported(c) = STORE_UNAVAILABLE => store_failed
      BY <1>1 DEF Reported, TypeOK, Readiness, StoreFaultTracked, Ready,
         STORE_UNAVAILABLE, CLEANUP_UNVERIFIED
    <2>2. /\ (task' = Settled(t, ev) /\ dedup' = Retained(t)) \/ (task' = task /\ dedup' = dedup)
          /\ store_failed' \in BOOLEAN /\ readiness' \in Readiness /\ StoreFaultTracked'
      <3>1. CASE Committed(Settled(t, ev), Retained(t), Reported(c))
        BY <2>1, <3>1, CommittedStep
      <3>2. CASE WriteFailed(Settled(t, ev), Retained(t))
        BY <3>2, WriteFailedStep
      <3> QED BY <1>5, <3>1, <3>2
    <2> QED BY <1>1, <1>2, <1>5, <2>2, Landed, NotLanded DEF Retained, r, ev
  <1> QED BY <1>3, <1>4, <1>5 DEF SettleEnds, SettleFails, ev

\* SettleTask keeps the inductive invariant (settle, until_stored).
LEMMA SettleTaskInv ==
    ASSUME IInv, NEW t \in Tasks, SettleTask(t)
    PROVE  IInv'
  <1> DEFINE o == driver[t].outcome
             c == driver[t].cleanup
  <1>1. /\ serving /\ TypeOK /\ TaskInv(t) /\ driver[t].pc = "settle"
        /\ UNCHANGED <<guard, artifacts, env, life, claim, canceller, executor, ran>>
    BY AtWork DEF IInv, SettleTask
  <1>2. o \in {"completed", "failed", "cancelled"} /\ c \in BOOLEAN
    BY <1>1 DEF TypeOK, DriverRec
  <1>3. UNCHANGED driver \/ Drives(t, "done", o, c)
    BY <1>1, GoesDrives, Places DEF SettleTask, Leaves
  <1>4. SettleEnds(t, o, c) \/ SettleFails(t, o, c)
    BY DEF SettleTask
  <1> HIDE DEF o, c
  <1>5. /\ \/ Stores(t, task[t], dedup[t])
           \/ /\ ~IsTerminal(task[t]) /\ Legal(task[t], OutcomeEvent(o, c))
              /\ Stores(t, [task[t] EXCEPT !.state = IF c THEN o ELSE "interrupted"],
                        "settled")
        /\ store_failed' \in BOOLEAN /\ readiness' \in Readiness /\ StoreFaultTracked'
        /\ unclean' \in BOOLEAN
    BY <1>2, <1>4, SettleStep
  <1>6. TypeOK'
    BY <1>1, <1>3, <1>5 DEF TypeOK, Drives, Stores, env, life
  <1>7. \A u \in Tasks \ {t} : Same(u)
    BY <1>1, <1>3, <1>5 DEF Drives, Stores, Same, life
  <1>8. TaskInv(t)'
    BY <1>1, <1>2, <1>3, <1>5 DEF TypeOK, TaskRec, Drives, Stores, life, TaskInv, o, c,
       DriverInv, OutcomeInv, ClaimInv, CancellerInv, RecordInv, NonTerminal, Alive,
       IsTerminal, Terminal, Waiting, Executing
  <1> QED BY <1>1, <1>5, <1>6, <1>7, <1>8, OneTask

\* InterruptTask keeps the inductive invariant (interrupt_before_execution).
LEMMA InterruptTaskInv ==
    ASSUME IInv, NEW t \in Tasks, InterruptTask(t)
    PROVE  IInv'
  <1> DEFINE r  == [task[t] EXCEPT !.state = "interrupted"]
             ts == Settled(t, Event("HostLost"))
  <1>1. /\ serving /\ TypeOK /\ TaskInv(t) /\ StoreFaultTracked /\ driver[t].pc = "interrupt"
        /\ UNCHANGED <<guard, artifacts, env, life, claim, canceller, executor, ran, unclean>>
    BY AtWork DEF IInv, InterruptTask
  <1>2. r \in TaskRec /\ ts = [task EXCEPT ![t] = r]
    <2>1. task[t] \in TaskRec
      BY <1>1 DEF TypeOK
    <2>2. r \in TaskRec
      BY <2>1 DEF TaskRec, TaskState, Terminal
    <2>3. After(task[t], Event("HostLost")) = r
      BY <2>1, AfterEvents
    <2> QED BY <2>2, <2>3 DEF Settled
  <1>3. UNCHANGED driver \/ Drives(t, "done", driver[t].outcome, driver[t].cleanup)
    BY <1>1, GoesDrives, Places DEF InterruptTask, Leaves
  <1>4. /\ \/ Stores(t, task[t], dedup[t])
           \/ ~IsTerminal(task[t]) /\ Stores(t, r, "settled")
        /\ store_failed' \in BOOLEAN /\ readiness' \in Readiness /\ StoreFaultTracked'
    <2> HIDE DEF r, ts
    <2>1. CASE UNCHANGED store
      BY <1>1, <2>1, NotLanded DEF store, StoreFaultTracked, Ready, TypeOK
    <2>2. CASE ~IsTerminal(task[t]) /\ Committed(ts, Retained(t), readiness)
      <3>1. /\ task' = ts /\ dedup' = Retained(t)
            /\ store_failed' \in BOOLEAN /\ readiness' \in Readiness /\ StoreFaultTracked'
        BY <1>1, <2>2, CommittedStep, ReadinessNow
      <3> QED BY <1>1, <1>2, <2>2, <3>1, Landed DEF Retained
    <2>3. CASE ~IsTerminal(task[t]) /\ WriteFailed(ts, Retained(t))
      <3>1. /\ (task' = ts /\ dedup' = Retained(t)) \/ (task' = task /\ dedup' = dedup)
            /\ store_failed' \in BOOLEAN /\ readiness' \in Readiness /\ StoreFaultTracked'
        BY <2>3, WriteFailedStep
      <3> QED BY <1>1, <1>2, <2>3, <3>1, Landed, NotLanded DEF Retained
    <2> QED BY <2>1, <2>2, <2>3 DEF InterruptTask, ts
  <1>5. TypeOK'
    BY <1>1, <1>3, <1>4 DEF TypeOK, Drives, Stores, env, life
  <1>6. \A u \in Tasks \ {t} : Same(u)
    BY <1>1, <1>3, <1>4 DEF Drives, Stores, Same, life
  <1>7. TaskInv(t)'
    BY <1>1, <1>3, <1>4 DEF TypeOK, TaskRec, Drives, Stores, life, TaskInv, DriverInv,
       OutcomeInv, ClaimInv, CancellerInv, RecordInv, NonTerminal, Alive, IsTerminal,
       Terminal, Waiting, Executing
  <1> QED BY <1>1, <1>4, <1>5, <1>6, <1>7, OneTask

\* CancelTask keeps the inductive invariant: only a stored request goes to the claim.
LEMMA CancelTaskInv ==
    ASSUME IInv, NEW t \in Tasks, CancelTask(t)
    PROVE  IInv'
  <1> DEFINE a == [task[t] EXCEPT !.cancel = TRUE]
             r == [a EXCEPT !.state = "cancelled"]
             queued  == [task EXCEPT ![t] = r]
             running == [task EXCEPT ![t] = a]
  <1>1. /\ serving /\ TypeOK /\ TaskInv(t) /\ StoreFaultTracked
        /\ canceller[t].pc = "idle" /\ task[t].state \in {"queued", "running"}
        /\ UNCHANGED <<guard, artifacts, env, life, driver, claim, executor, ran, unclean>>
    BY DEF IInv, CancelTask, NonTerminal
  <1>2. /\ a \in TaskRec /\ r \in TaskRec
        /\ After(task[t], Event("RequestCancel")) = a
        /\ After(a, Event("SettleCancellation")) = r
    <2>1. task[t] \in TaskRec /\ ~IsTerminal(task[t])
      BY <1>1 DEF TypeOK, IsTerminal, Terminal
    <2>2. a \in TaskRec
      BY <2>1 DEF TaskRec
    <2>3. r \in TaskRec
      BY <2>1 DEF TaskRec, TaskState, Terminal
    <2>4. After(task[t], Event("RequestCancel")) = a
      BY <2>1, AfterEvents
    <2>5. After(a, Event("SettleCancellation")) = r
      BY <2>2, AfterEvents
    <2> QED BY <2>2, <2>3, <2>4, <2>5
  <1>3. \/ /\ task[t].state = "queued" /\ UNCHANGED canceller
           /\ \/ Committed(queued, Retained(t), readiness)
              \/ WriteFailed(queued, Retained(t))
        \/ /\ task[t].state = "running"
           /\ \/ Committed(running, dedup, readiness) /\ Cancels(t, "claim", FALSE)
              \/ WriteFailed(running, dedup) /\ UNCHANGED canceller
    <2> HIDE DEF a, r
    <2> QED BY <1>2 DEF CancelTask
  <1>4. /\ \/ UNCHANGED canceller /\ Stores(t, task[t], dedup[t])
           \/ /\ UNCHANGED canceller /\ task[t].state = "queued"
              /\ Stores(t, r, "settled")
           \/ /\ task[t].state = "running" /\ Stores(t, a, dedup[t])
              /\ UNCHANGED canceller \/ Calls(t, "claim", FALSE)
        /\ store_failed' \in BOOLEAN /\ readiness' \in Readiness /\ StoreFaultTracked'
    <2> HIDE DEF a, r
    <2>0. dedup = [dedup EXCEPT ![t] = dedup[t]] /\ dedup[t] \in {"none", "pending", "settled"}
      BY <1>1 DEF TypeOK
    <2>1. CASE task[t].state = "queued" /\ UNCHANGED canceller
                 /\ Committed(queued, Retained(t), readiness)
      <3>1. /\ task' = queued /\ dedup' = Retained(t)
            /\ store_failed' \in BOOLEAN /\ readiness' \in Readiness /\ StoreFaultTracked'
        BY <1>1, <2>1, CommittedStep, ReadinessNow
      <3> QED BY <1>1, <1>2, <2>1, <3>1, Landed DEF Retained
    <2>2. CASE task[t].state = "queued" /\ UNCHANGED canceller
                 /\ WriteFailed(queued, Retained(t))
      <3>1. /\ (task' = queued /\ dedup' = Retained(t)) \/ (task' = task /\ dedup' = dedup)
            /\ store_failed' \in BOOLEAN /\ readiness' \in Readiness /\ StoreFaultTracked'
        BY <2>2, WriteFailedStep
      <3> QED BY <1>1, <1>2, <2>2, <3>1, Landed, NotLanded DEF Retained
    <2>3. CASE task[t].state = "running" /\ Cancels(t, "claim", FALSE)
                 /\ Committed(running, dedup, readiness)
      <3>1. /\ task' = running /\ dedup' = [dedup EXCEPT ![t] = dedup[t]]
            /\ store_failed' \in BOOLEAN /\ readiness' \in Readiness /\ StoreFaultTracked'
        BY <1>1, <2>0, <2>3, CommittedStep, ReadinessNow
      <3>2. Stores(t, a, dedup[t])
        BY <1>1, <1>2, <2>0, <3>1, Landed
      <3>3. Calls(t, "claim", FALSE)
        BY <1>1, <2>3, CancelsCalls
      <3> QED BY <2>3, <3>1, <3>2, <3>3
    <2>4. CASE task[t].state = "running" /\ UNCHANGED canceller
                 /\ WriteFailed(running, dedup)
      <3>1. /\ \/ task' = running /\ dedup' = [dedup EXCEPT ![t] = dedup[t]]
               \/ task' = task /\ dedup' = dedup
            /\ store_failed' \in BOOLEAN /\ readiness' \in Readiness /\ StoreFaultTracked'
        BY <2>0, <2>4, WriteFailedStep
      <3> QED BY <1>1, <1>2, <2>0, <2>4, <3>1, Landed, NotLanded
    <2> QED BY <1>3, <2>1, <2>2, <2>3, <2>4
  <1>5. TypeOK'
    BY <1>1, <1>4 DEF TypeOK, Calls, Stores, env, life
  <1>6. \A u \in Tasks \ {t} : Same(u)
    BY <1>1, <1>4 DEF Calls, Stores, Same, life
  <1>7. TaskInv(t)'
    <2>1. /\ a.state = task[t].state /\ a.cancel /\ a.instance = task[t].instance
          /\ r.state = "cancelled" /\ r.cancel /\ r.instance = task[t].instance
      BY <1>1 DEF TypeOK, TaskRec
    <2> HIDE DEF a, r
    <2> USE DEF Stores, TaskInv, DriverInv, OutcomeInv, ClaimInv, CancellerInv, RecordInv,
                NonTerminal, Alive, IsTerminal, Terminal, Waiting, Executing, life
    <2>2. CASE UNCHANGED canceller /\ Stores(t, task[t], dedup[t])
      BY <1>1, <2>2
    <2>3. CASE UNCHANGED canceller /\ task[t].state = "queued" /\ Stores(t, r, "settled")
      BY <1>1, <2>1, <2>3
    <2>4. CASE /\ task[t].state = "running" /\ Stores(t, a, dedup[t])
               /\ UNCHANGED canceller \/ Calls(t, "claim", FALSE)
      BY <1>1, <2>1, <2>4 DEF Calls
    <2> QED BY <1>4, <2>2, <2>3, <2>4
  <1> QED BY <1>1, <1>4, <1>5, <1>6, <1>7, OneTask

\* CancelClaim keeps the inductive invariant (LocalExecutionClaims::cancel).
LEMMA CancelClaimInv ==
    ASSUME IInv, NEW t \in Tasks, CancelClaim(t)
    PROVE  IInv'
  <1>1. /\ serving /\ TypeOK /\ TaskInv(t) /\ StoreFaultTracked /\ canceller[t].pc = "claim"
        /\ UNCHANGED <<store, guard, artifacts, env, life, driver, executor, ran, unclean>>
    BY AtWork DEF IInv, CancelClaim
  <1>2. \/ Calls(t, "poll", FALSE) /\ UNCHANGED claim
        \/ /\ Calls(t, "await", claim[t].published) /\ claim[t].entry
           /\ claim' \in [Tasks -> ClaimRec]
           /\ claim'[t] = [claim[t] EXCEPT !.requested = ~claim[t].published]
           /\ \A u \in Tasks \ {t} : claim'[u] = claim[u]
    <2>1. CASE Cancels(t, "poll", FALSE) /\ UNCHANGED claim
      BY <1>1, <2>1, CancelsCalls
    <2>2. CASE /\ claim[t].entry
               /\ claim' = [claim EXCEPT ![t].requested = ~claim[t].published]
               /\ Cancels(t, "await", claim[t].published)
      <3>1. /\ [claim[t] EXCEPT !.requested = ~claim[t].published] \in ClaimRec
            /\ claim[t].published \in BOOLEAN
        BY <1>1 DEF TypeOK, ClaimRec
      <3>2. Calls(t, "await", claim[t].published)
        BY <1>1, <2>2, <3>1, CancelsCalls
      <3> QED BY <1>1, <2>2, <3>1, <3>2 DEF TypeOK
    <2> QED BY <2>1, <2>2 DEF CancelClaim
  <1>3. TypeOK' /\ StoreFaultTracked' /\ UNCHANGED life
    BY <1>1, <1>2 DEF TypeOK, StoreFaultTracked, Ready, Calls, store, env, life
  <1>4. \A u \in Tasks \ {t} : Same(u)
    BY <1>1, <1>2 DEF Calls, Same, life, store
  <1>5. TaskInv(t)'
    <2> USE DEF Calls, store, life, TaskInv, DriverInv, OutcomeInv, ClaimInv, CancellerInv,
                RecordInv, NonTerminal, Alive, IsTerminal, Terminal, Waiting, Executing
    <2>1. CASE Calls(t, "poll", FALSE) /\ UNCHANGED claim
      BY <1>1, <2>1
    <2>2. CASE /\ Calls(t, "await", claim[t].published) /\ claim[t].entry
               /\ claim'[t] = [claim[t] EXCEPT !.requested = ~claim[t].published]
      <3>1. /\ claim'[t].entry = claim[t].entry /\ claim'[t].published = claim[t].published
            /\ claim'[t].finished = claim[t].finished /\ claim'[t].cleanup = claim[t].cleanup
            /\ claim'[t].requested = ~claim[t].published
        BY <1>1, <2>2 DEF TypeOK, ClaimRec
      <3> QED BY <1>1, <2>2, <3>1
    <2> QED BY <1>2, <2>1, <2>2
  <1> QED BY <1>1, <1>3, <1>4, <1>5, OneTask

\* CancelAwait keeps the inductive invariant (the wait for a finished claim).
LEMMA CancelAwaitInv ==
    ASSUME IInv, NEW t \in Tasks, CancelAwait(t)
    PROVE  IInv'
  <1>1. /\ serving /\ TypeOK /\ TaskInv(t) /\ StoreFaultTracked /\ canceller[t].pc = "await"
        /\ claim[t].finished
        /\ UNCHANGED <<store, guard, artifacts, env, life, driver, claim, executor, ran, unclean>>
    BY AtWork DEF IInv, CancelAwait
  <1>2. Calls(t, IF canceller[t].won THEN "poll" ELSE "settle", FALSE)
    BY <1>1, CancelsCalls DEF CancelAwait
  <1>3. TypeOK' /\ StoreFaultTracked' /\ UNCHANGED life
    BY <1>1, <1>2 DEF TypeOK, StoreFaultTracked, Ready, Calls, store, env, life
  <1>4. \A u \in Tasks \ {t} : Same(u)
    BY <1>1, <1>2 DEF Calls, Same, life, store
  <1>5. TaskInv(t)'
    BY <1>1, <1>2 DEF Calls, store, life, TaskInv, DriverInv, OutcomeInv, ClaimInv,
       CancellerInv, RecordInv, NonTerminal, Alive, IsTerminal, Waiting, Executing
  <1> QED BY <1>1, <1>3, <1>4, <1>5, OneTask

\* CancelPoll keeps the inductive invariant (the wait for the driver).
LEMMA CancelPollInv ==
    ASSUME IInv, NEW t \in Tasks, CancelPoll(t)
    PROVE  IInv'
  <1>1. /\ serving /\ TypeOK /\ TaskInv(t) /\ StoreFaultTracked /\ canceller[t].pc = "poll"
        /\ UNCHANGED <<store, guard, artifacts, env, life, driver, claim, executor, ran, unclean>>
    BY AtWork DEF IInv, CancelPoll
  <1>2. Calls(t, "idle", FALSE)
    BY <1>1, CancelsCalls DEF CancelPoll
  <1>3. TypeOK' /\ StoreFaultTracked' /\ UNCHANGED life
    BY <1>1, <1>2 DEF TypeOK, StoreFaultTracked, Ready, Calls, store, env, life
  <1>4. \A u \in Tasks \ {t} : Same(u)
    BY <1>1, <1>2 DEF Calls, Same, life, store
  <1>5. TaskInv(t)'
    BY <1>1, <1>2 DEF Calls, store, life, TaskInv, DriverInv, OutcomeInv, ClaimInv,
       CancellerInv, RecordInv, NonTerminal, Alive, IsTerminal, Waiting, Executing
  <1> QED BY <1>1, <1>3, <1>4, <1>5, OneTask

\* CancelSettle keeps the inductive invariant (cancel_task, settle).
LEMMA CancelSettleInv ==
    ASSUME IInv, NEW t \in Tasks, CancelSettle(t)
    PROVE  IInv'
  <1> DEFINE c == claim[t].cleanup
  <1>1. /\ serving /\ TypeOK /\ TaskInv(t) /\ canceller[t].pc = "settle"
        /\ UNCHANGED <<guard, artifacts, env, life, driver, claim, executor, ran>>
    BY AtWork DEF IInv, CancelSettle
  <1>2. c \in BOOLEAN
    BY <1>1 DEF TypeOK, ClaimRec
  <1>3. UNCHANGED canceller \/ Calls(t, "idle", FALSE)
    BY <1>1, CancelsCalls DEF CancelSettle
  <1>4. SettleEnds(t, "cancelled", c) \/ SettleFails(t, "cancelled", c)
    BY DEF CancelSettle
  <1> HIDE DEF c
  <1>5. /\ \/ Stores(t, task[t], dedup[t])
           \/ /\ ~IsTerminal(task[t])
              /\ Stores(t, [task[t] EXCEPT !.state = IF c THEN "cancelled" ELSE "interrupted"],
                        "settled")
        /\ store_failed' \in BOOLEAN /\ readiness' \in Readiness /\ StoreFaultTracked'
        /\ unclean' \in BOOLEAN
    BY <1>2, <1>4, SettleStep
  <1>6. TypeOK'
    BY <1>1, <1>3, <1>5 DEF TypeOK, Calls, Stores, env, life
  <1>7. \A u \in Tasks \ {t} : Same(u)
    BY <1>1, <1>3, <1>5 DEF Calls, Stores, Same, life
  <1>8. TaskInv(t)'
    BY <1>1, <1>2, <1>3, <1>5 DEF TypeOK, TaskRec, Calls, Stores, life, TaskInv, c,
       DriverInv, OutcomeInv, ClaimInv, CancellerInv, RecordInv, NonTerminal, Alive,
       IsTerminal, Terminal, Waiting, Executing
  <1> QED BY <1>1, <1>5, <1>6, <1>7, <1>8, OneTask

\* A guard that cleans up or dies keeps the inductive invariant.
LEMMA GuardInv ==
    ASSUME IInv, NEW t \in Tasks, GuardCleans(t) \/ GuardDies(t)
    PROVE  IInv'
  <1>1. /\ TypeOK /\ TaskInv(t) /\ StoreFaultTracked /\ guard[t] = "live"
        /\ guard' = [guard EXCEPT ![t] = "clean"] \/ guard' = [guard EXCEPT ![t] = "lost"]
        /\ UNCHANGED <<store, artifacts, disk, life, driver, claim, canceller, executor,
                       ran, unclean>>
        /\ faults' \in 0..MaxFaults
    BY TaskRuntimeAssumption DEF IInv, TypeOK, GuardCleans, GuardDies, env
  <1>2. TypeOK' /\ StoreFaultTracked' /\ UNCHANGED life
    BY <1>1 DEF TypeOK, StoreFaultTracked, Ready, store, life
  <1>3. \A u \in Tasks \ {t} : Same(u)
    BY <1>1 DEF TypeOK, Same, life, store
  <1>4. TaskInv(t)'
    BY <1>1 DEF TypeOK, store, life, TaskInv, DriverInv, OutcomeInv, ClaimInv,
       CancellerInv, RecordInv, NonTerminal, Alive, IsTerminal, Waiting, Executing
  <1> QED BY <1>1, <1>2, <1>3, <1>4, OneTask DEF store

\* RecoverStore keeps the inductive invariant (recover_store).
LEMMA RecoverStoreInv ==
    ASSUME IInv, RecoverStore
    PROVE  IInv'
  <1>1. /\ serving /\ TypeOK /\ StoreFaultTracked
        /\ UNCHANGED <<guard, artifacts, env, life, driver, claim, canceller, executor, ran,
                       unclean>>
        /\ Committed(task, dedup, readiness) \/ WriteFailed(task, dedup)
    BY DEF IInv, DownInv, RecoverStore
  <1>2. /\ task' = task /\ dedup' = dedup
        /\ store_failed' \in BOOLEAN /\ readiness' \in Readiness /\ StoreFaultTracked'
    BY <1>1, CommittedStep, WriteFailedStep, ReadinessNow
  <1>3. TypeOK' /\ DownInv'
    BY <1>1, <1>2 DEF TypeOK, DownInv, env, life
  <1>4. ASSUME NEW u \in Tasks PROVE TaskInv(u)'
    BY <1>1, <1>2, Frame DEF IInv, Same, life
  <1> QED BY <1>2, <1>3, <1>4 DEF IInv

\* The start of the scheduler's task keeps the inductive invariant (publish_runtime_ready).
LEMMA PublishRuntimeReadyInv ==
    ASSUME IInv, PublishRuntimeReady
    PROVE  IInv'
  <1>1. /\ serving /\ TypeOK /\ StoreFaultTracked
        /\ UNCHANGED <<guard, artifacts, env, instance, serving, driver, claim, canceller,
                       executor, ran, unclean>>
        /\ loop' \in {"running", "ended"}
        /\ UNCHANGED store \/ WriteFailed(task, dedup)
    BY DEF IInv, DownInv, PublishRuntimeReady
  <1>2. /\ task' = task /\ dedup' = dedup
        /\ store_failed' \in BOOLEAN /\ readiness' \in Readiness /\ StoreFaultTracked'
    BY <1>1, WriteFailedStep DEF TypeOK, StoreFaultTracked, Ready, store
  <1>3. TypeOK' /\ DownInv'
    BY <1>1, <1>2 DEF TypeOK, DownInv, env
  <1>4. ASSUME NEW u \in Tasks PROVE TaskInv(u)'
    BY <1>1, <1>2, Frame DEF IInv, Same, life
  <1> QED BY <1>2, <1>3, <1>4 DEF IInv

\* The disk and the resolver keep the inductive invariant.
LEMMA EnvironmentInv ==
    ASSUME IInv, ChangeCapability \/ DiskFault \/ DiskHeals
    PROVE  IInv'
  <1>1. /\ TypeOK /\ executor' \in Generations \cup {"none"}
        /\ disk' \in {"ok"} \cup Faults /\ faults' \in 0..MaxFaults
        /\ UNCHANGED <<store, guard, artifacts, life, driver, claim, canceller, ran, unclean>>
    BY TaskRuntimeAssumption DEF IInv, TypeOK, ChangeCapability, DiskFault, DiskHeals, env
  <1>2. TypeOK' /\ DownInv' /\ StoreFaultTracked'
    BY <1>1 DEF IInv, TypeOK, DownInv, StoreFaultTracked, Ready, store, life
  <1>3. ASSUME NEW u \in Tasks PROVE TaskInv(u)'
    BY <1>1, Frame DEF IInv, Same, life, store
  <1> QED BY <1>2, <1>3 DEF IInv

\* A crash keeps the inductive invariant: what is left is durable.
LEMMA CrashInv ==
    ASSUME IInv, Crash
    PROVE  IInv'
  <1>1. NoDriver \in DriverRec /\ NoClaim \in ClaimRec /\ NoCanceller \in CancellerRec
    BY Places DEF NoDriver, DriverRec, NoClaim, ClaimRec, NoCanceller, CancellerRec
  <1>2. TypeOK' /\ DownInv' /\ StoreFaultTracked'
    <2>1. TypeOK'
      <3>1. instance' \in 1..MaxInstance
        BY TaskRuntimeAssumption DEF IInv, TypeOK, Crash
      <3>2. /\ driver' \in [Tasks -> DriverRec] /\ claim' \in [Tasks -> ClaimRec]
            /\ canceller' \in [Tasks -> CancellerRec]
        BY <1>1 DEF Crash
      <3>3. /\ serving' \in BOOLEAN /\ store_failed' \in BOOLEAN /\ unclean' \in BOOLEAN
            /\ readiness' \in Readiness /\ executor' \in Generations \cup {"none"}
        BY DEF Crash, Readiness
      <3> QED BY <3>1, <3>2, <3>3 DEF IInv, TypeOK, Crash, durable, env
    <2>2. DownInv'
      BY DEF Crash, DownInv
    <2>3. StoreFaultTracked'
      BY DEF Crash, StoreFaultTracked, Ready, STORE_UNAVAILABLE
    <2> QED BY <2>1, <2>2, <2>3
  <1>3. ASSUME NEW u \in Tasks PROVE TaskInv(u)'
    <2>1. /\ driver'[u].pc = "none" /\ canceller'[u].pc = "idle"
          /\ ~claim'[u].entry /\ ~claim'[u].requested /\ ~claim'[u].finished
      BY DEF Crash, NoDriver, NoClaim, NoCanceller
    <2>2. TaskInv(u)
      BY DEF IInv
    <2> QED BY <2>1, <2>2 DEF Crash, durable, TaskInv, DriverInv, OutcomeInv, ClaimInv,
            CancellerInv, RecordInv, NonTerminal, Alive, IsTerminal, Waiting, Executing
  <1> QED BY <1>2, <1>3 DEF IInv

\* A reboot keeps the inductive invariant: it only ends processes.
LEMMA RebootInv ==
    ASSUME IInv, Reboot
    PROVE  IInv'
  <1>1. TypeOK' /\ DownInv' /\ StoreFaultTracked'
    BY DEF IInv, TypeOK, Reboot, Alive, DownInv, StoreFaultTracked, Ready, store, env, life
  <1>2. ASSUME NEW u \in Tasks PROVE TaskInv(u)'
    <2>1. TaskInv(u) /\ guard'[u] \notin {"live", "lost"}
      BY DEF IInv, TypeOK, Reboot, Alive
    <2> QED BY <2>1 DEF Reboot, store, life, TaskInv, DriverInv, OutcomeInv, ClaimInv,
            CancellerInv, RecordInv, NonTerminal, Alive, IsTerminal, Waiting, Executing
  <1> QED BY <1>1, <1>2 DEF IInv

\* The recovery of a restart and the user's, which differ only in what they ask first.
LEMMA InterruptsInv ==
    ASSUME IInv, RecoverOldInstance \/ ClearStranded
    PROVE  IInv'
  <1>1. /\ ~serving /\ TypeOK /\ DownInv /\ task' = Interrupted /\ dedup' = Released
        /\ UNCHANGED <<readiness, store_failed, guard, artifacts, env, life, driver, claim,
                       canceller, executor, ran, unclean>>
    BY DEF IInv, RecoverOldInstance, ClearStranded, Interrupts
  <1>2. ASSUME NEW u \in Tasks
        PROVE  /\ task'[u] = IF NonTerminal(u) THEN [task[u] EXCEPT !.state = "interrupted"]
                                               ELSE task[u]
               /\ dedup'[u] = IF NonTerminal(u) THEN "settled" ELSE dedup[u]
    BY <1>1, AfterEvents DEF TypeOK, Interrupted, Released
  <1>3. TypeOK' /\ DownInv' /\ StoreFaultTracked'
    <2>1. ASSUME NEW u \in Tasks PROVE Interrupted[u] \in TaskRec
      <3>1. task[u] \in TaskRec
        BY <1>1 DEF TypeOK
      <3>2. [task[u] EXCEPT !.state = "interrupted"] \in TaskRec
        BY <3>1 DEF TaskRec, TaskState, Terminal
      <3> QED BY <1>1, <1>2, <3>1, <3>2
    <2>2. task' \in [Tasks -> TaskRec]
      BY <1>1, <2>1 DEF Interrupted
    <2>3. dedup' \in [Tasks -> {"none", "pending", "settled"}]
      BY <1>1 DEF TypeOK, Released
    <2> QED BY <1>1, <2>2, <2>3 DEF IInv, TypeOK, DownInv, StoreFaultTracked, Ready, env, life
  <1>4. ASSUME NEW u \in Tasks PROVE TaskInv(u)'
    <2>1. /\ driver[u] = NoDriver /\ claim[u] = NoClaim /\ canceller[u] = NoCanceller
          /\ TaskInv(u) /\ task[u] \in TaskRec
      BY <1>1 DEF IInv, DownInv, TypeOK
    <2>2. /\ driver[u].pc = "none" /\ canceller[u].pc = "idle"
          /\ ~claim[u].entry /\ ~claim[u].requested /\ ~claim[u].finished
      BY <2>1 DEF NoDriver, NoClaim, NoCanceller
    <2>3. CASE NonTerminal(u)
      <3>1. /\ task'[u].state = "interrupted" /\ task'[u].cancel = task[u].cancel
            /\ dedup'[u] = "settled"
        BY <1>2, <2>1, <2>3 DEF TaskRec
      <3> QED BY <1>1, <2>1, <2>2, <2>3, <3>1 DEF life, TaskInv, DriverInv, OutcomeInv,
              ClaimInv, CancellerInv, RecordInv, NonTerminal, Alive, IsTerminal, Terminal,
              Waiting, Executing
    <2>4. CASE ~NonTerminal(u)
      BY <1>1, <1>2, <2>1, <2>4, Frame DEF Same, life
    <2> QED BY <2>3, <2>4
  <1> QED BY <1>3, <1>4 DEF IInv

\* A host that is published keeps the inductive invariant (activate_app_host).
LEMMA ServeInv ==
    ASSUME IInv, Serve
    PROVE  IInv'
  <1>1. TypeOK' /\ DownInv' /\ StoreFaultTracked'
    BY DEF IInv, TypeOK, Serve, DownInv, StoreFaultTracked, Ready, store, env
  <1>2. ASSUME NEW u \in Tasks PROVE TaskInv(u)'
    <2>1. TaskInv(u) /\ guard'[u] = "none" /\ ~NonTerminal(u)
      BY DEF IInv, Serve
    <2> QED BY <2>1 DEF Serve, store, TaskInv, DriverInv, OutcomeInv, ClaimInv,
            CancellerInv, RecordInv, NonTerminal, Alive, IsTerminal, Waiting, Executing
  <1> QED BY <1>1, <1>2 DEF IInv

-----------------------------------------------------------------------------
(* The theorems.                                                           *)

\* The inductive invariant holds in the first state.
LEMMA InitInv == Init => IInv
  <1> SUFFICES ASSUME Init PROVE IInv
    OBVIOUS
  <1>1. NoDriver \in DriverRec /\ NoClaim \in ClaimRec /\ NoCanceller \in CancellerRec
    BY Places DEF NoDriver, DriverRec, NoClaim, ClaimRec, NoCanceller, CancellerRec
  <1>2. NoTask \in TaskRec
    BY DEF NoTask, TaskRec, TaskState
  <1>3. TypeOK /\ DownInv /\ StoreFaultTracked
    <2>1. TypeOK
      <3>1. instance \in 1..MaxInstance /\ faults \in 0..MaxFaults
        BY TaskRuntimeAssumption DEF Init
      <3>2. /\ driver \in [Tasks -> DriverRec] /\ claim \in [Tasks -> ClaimRec]
            /\ canceller \in [Tasks -> CancellerRec] /\ task \in [Tasks -> TaskRec]
        BY <1>1, <1>2 DEF Init
      <3>3. /\ serving \in BOOLEAN /\ store_failed \in BOOLEAN /\ unclean \in BOOLEAN
            /\ readiness \in Readiness /\ executor \in Generations \cup {"none"}
        BY DEF Init, Readiness
      <3> QED BY <3>1, <3>2, <3>3 DEF Init, TypeOK
    <2>2. DownInv
      BY DEF Init, DownInv
    <2>3. StoreFaultTracked
      BY DEF Init, StoreFaultTracked, Ready, STORE_UNAVAILABLE
    <2> QED BY <2>1, <2>2, <2>3
  <1>4. ASSUME NEW u \in Tasks PROVE TaskInv(u)
    BY DEF Init, NoTask, NoDriver, NoClaim, NoCanceller, TaskInv, DriverInv, OutcomeInv,
       ClaimInv, CancellerInv, RecordInv, NonTerminal, Alive, IsTerminal, Terminal,
       Waiting, Executing
  <1> QED BY <1>3, <1>4 DEF IInv

\* Every step of the Runtime keeps the inductive invariant.
LEMMA NextInv == IInv /\ [Next]_vars => IInv'
  <1> SUFFICES ASSUME IInv, [Next]_vars PROVE IInv'
    OBVIOUS
  <1>1. ASSUME NEW t \in Tasks, AdmitTask(t) PROVE IInv'
    BY <1>1, AdmitTaskInv
  <1>2. ASSUME NEW t \in Tasks, DriverStep(t) PROVE IInv'
    BY <1>2, TakePermitInv, DeclineTaskInv, StartTaskInv, CheckExecutorInv, CheckpointInv,
       ProcessEndsInv, CommandResultInv, FinishClaimInv, RemoveClaimInv, SettleTaskInv,
       InterruptTaskInv DEF DriverStep
  <1>3. ASSUME NEW t \in Tasks, CancelTask(t) PROVE IInv'
    BY <1>3, CancelTaskInv
  <1>4. ASSUME NEW t \in Tasks, CancelStep(t) PROVE IInv'
    BY <1>4, CancelClaimInv, CancelAwaitInv, CancelSettleInv, CancelPollInv DEF CancelStep
  <1>5. ASSUME NEW t \in Tasks, GuardCleans(t) \/ GuardDies(t) PROVE IInv'
    BY <1>5, GuardInv
  <1>6. ASSUME HostStep PROVE IInv'
    BY <1>6, PublishRuntimeReadyInv, RecoverStoreInv, EnvironmentInv, CrashInv, RebootInv, InterruptsInv, ServeInv
       DEF HostStep
  <1>7. CASE UNCHANGED vars
    <2>1. TypeOK' /\ DownInv' /\ StoreFaultTracked'
      BY <1>7 DEF IInv, TypeOK, DownInv, StoreFaultTracked, Ready, vars
    <2>2. ASSUME NEW u \in Tasks PROVE TaskInv(u)'
      BY <1>7, Frame DEF IInv, Same, life, vars
    <2> QED BY <2>1, <2>2 DEF IInv
  <1> QED BY <1>1, <1>2, <1>3, <1>4, <1>5, <1>6, <1>7 DEF Next

\* The inductive invariant holds in every behaviour of the Runtime.
THEOREM Inductive == Spec => []IInv
  BY InitInv, NextInv, PTL DEF Spec

\* Every variable keeps its type, for every set of Tasks and every limit.
THEOREM TypeCorrect == Spec => []TypeOK
  <1>1. IInv => TypeOK
    BY DEF IInv
  <1> QED BY <1>1, Inductive, PTL

\* A Task recorded completed, failed or cancelled has no process left, whichever of its
\* driver and its canceller settled it (core.rs settle_once).
THEOREM Stopped == Spec => []SettledMeansStopped
  <1>1. IInv => SettledMeansStopped
    BY DEF IInv, TaskInv, RecordInv, SettledMeansStopped
  <1> QED BY <1>1, Inductive, PTL

\* A cancelled Task has no artifact whose publication succeeded, and a completed one none
\* whose publication was reported as failed (ports.rs publish and cancel, command.rs).
THEOREM Unpublished == Spec => []EndFitsPublications
  <1>1. IInv => EndFitsPublications
    BY DEF IInv, TaskInv, RecordInv, EndFitsPublications
  <1> QED BY <1>1, Inductive, PTL

\* No settlement is refused by the Task's lifecycle (task.rs apply).
THEOREM Settles == Spec => []SettlementIsLegal
  <1>1. IInv => SettlementIsLegal
    <2> SUFFICES ASSUME IInv, NEW t \in Tasks, ~IsTerminal(task[t])
                 PROVE  /\ driver[t].pc = "settle" =>
                             Legal(task[t], OutcomeEvent(driver[t].outcome, driver[t].cleanup))
                        /\ canceller[t].pc = "settle" =>
                             Legal(task[t], OutcomeEvent("cancelled", claim[t].cleanup))
      BY DEF SettlementIsLegal
    <2>1. /\ TaskInv(t) /\ task[t] \in TaskRec /\ driver[t] \in DriverRec
          /\ claim[t] \in ClaimRec
      BY DEF IInv, TypeOK
    <2>2. ASSUME driver[t].pc = "settle"
          PROVE  Legal(task[t], OutcomeEvent(driver[t].outcome, driver[t].cleanup))
      <3>1. CASE ~driver[t].cleanup \/ driver[t].outcome = "failed"
        BY <2>1, <3>1 DEF Legal, OutcomeEvent
      <3>2. CASE driver[t].cleanup /\ driver[t].outcome = "completed"
        <4>1. task[t].state = "running"
          BY <2>1, <2>2, <3>2 DEF TaskInv, OutcomeInv, DriverInv, RecordInv, TaskRec,
             TaskState, IsTerminal
        <4> QED BY <3>2, <4>1 DEF Legal, OutcomeEvent, IsTerminal, Terminal
      <3>3. CASE driver[t].cleanup /\ driver[t].outcome = "cancelled"
        <4>1. task[t].cancel
          BY <2>1, <2>2, <3>3 DEF TaskInv, OutcomeInv
        <4> QED BY <3>3, <4>1 DEF Legal, OutcomeEvent
      <3> QED BY <2>1, <3>1, <3>2, <3>3 DEF DriverRec
    <2>3. ASSUME canceller[t].pc = "settle"
          PROVE  Legal(task[t], OutcomeEvent("cancelled", claim[t].cleanup))
      <3>1. task[t].cancel
        BY <2>1, <2>3 DEF TaskInv, CancellerInv, ClaimInv
      <3> QED BY <2>1, <3>1 DEF Legal, OutcomeEvent
    <2> QED BY <2>2, <2>3
  <1> QED BY <1>1, Inductive, PTL

\* Readiness withdrawn for a failed write is marked for the probe, and no instance is
\* ready while its last write failed (core.rs commit and recover_store).
THEOREM FaultTracked == Spec => []StoreFaultTracked
  <1>1. IInv => StoreFaultTracked
    BY DEF IInv
  <1> QED BY <1>1, Inductive, PTL

\* A serving host owns all unsettled work (core.rs recover_old_instance).
THEOREM OwnsItsWork == Spec => []ServingOwnsItsWork
  <1>1. IInv => ServingOwnsItsWork
    BY DEF IInv, TaskInv, RecordInv, ServingOwnsItsWork
  <1> QED BY <1>1, Inductive, PTL

\* A request is held exactly while its Task is unsettled, also over writes that land
\* although they are reported as failed (persistence/src/model.rs).
THEOREM RequestHeld == Spec => []RequestFollowsTask
  <1>1. IInv => RequestFollowsTask
    BY DEF IInv, TaskInv, RecordInv, RequestFollowsTask
  <1> QED BY <1>1, Inductive, PTL

\* The first settlement of a Task stands, whoever made it.
THEOREM Final == Spec => TerminalIsFinal
  <1>1. ASSUME IInv, [Next]_vars, NEW u \in Tasks, IsTerminal(task[u])
        PROVE  task'[u] = task[u]
    <2> USE DEF Committed, WriteFailed
    <2>0. task \in [Tasks -> TaskRec] /\ TaskInv(u)
      BY <1>1 DEF IInv, TypeOK
    <2>1. ASSUME NEW t \in Tasks, AdmitTask(t) PROVE task'[u] = task[u]
      <3>1. t # u
        BY <1>1, <2>0, <2>1 DEF AdmitTask, TaskInv, RecordInv
      <3> QED BY <2>0, <2>1, <3>1 DEF AdmitTask
    <2>2. ASSUME NEW t \in Tasks, StartTask(t) PROVE task'[u] = task[u]
      <3>1. t # u
        BY <1>1, <2>2 DEF StartTask, MayStart
      <3> QED BY <2>0, <2>2, <3>1 DEF StartTask, Started, CommitRefused, store
    <2>3. ASSUME NEW t \in Tasks, NEW o, NEW c, SettleEnds(t, o, c) \/ SettleFails(t, o, c)
          PROVE  task'[u] = task[u]
      BY <1>1, <2>0, <2>3 DEF SettleEnds, SettleFails, Settled, store, durable
    <2>4. ASSUME NEW t \in Tasks, InterruptTask(t) PROVE task'[u] = task[u]
      BY <1>1, <2>0, <2>4 DEF InterruptTask, Settled, store
    <2>5. ASSUME NEW t \in Tasks, CancelTask(t) PROVE task'[u] = task[u]
      <3>1. t # u
        BY <1>1, <2>5 DEF CancelTask, NonTerminal, IsTerminal, Terminal
      <3> QED BY <2>0, <2>5, <3>1 DEF CancelTask
    <2>6. ASSUME NEW t \in Tasks, DriverStep(t) PROVE task'[u] = task[u]
      BY <2>2, <2>3, <2>4, <2>6 DEF DriverStep, TakePermit, DeclineTask, CheckExecutor,
         Checkpoint, ProcessEnds, CommandResult, FinishClaim, RemoveClaim, SettleTask, store
    <2>7. ASSUME NEW t \in Tasks, CancelStep(t) PROVE task'[u] = task[u]
      BY <2>3, <2>7 DEF CancelStep, CancelClaim, CancelAwait, CancelSettle, CancelPoll, store
    <2>8. ASSUME NEW t \in Tasks, GuardCleans(t) \/ GuardDies(t) PROVE task'[u] = task[u]
      BY <2>8 DEF GuardCleans, GuardDies, store
    <2>9. ASSUME HostStep PROVE task'[u] = task[u]
      <3>1. CASE RecoverOldInstance \/ ClearStranded
        BY <1>1, <3>1 DEF RecoverOldInstance, ClearStranded, Interrupts, Interrupted,
           NonTerminal, IsTerminal, Terminal
      <3>2. CASE RecoverStore \/ PublishRuntimeReady
        BY <3>2 DEF RecoverStore, PublishRuntimeReady, store
      <3> QED BY <2>9, <3>1, <3>2 DEF HostStep, ChangeCapability, DiskFault, DiskHeals,
              Crash, Reboot, Serve, store, durable
    <2> QED BY <1>1, <2>1, <2>5, <2>6, <2>7, <2>8, <2>9 DEF Next, vars
  <1>2. IInv /\ [Next]_vars =>
            [\A t \in Tasks : IsTerminal(task[t]) => task'[t] = task[t]]_vars
    BY <1>1
  <1> QED BY <1>2, Inductive, PTL DEF Spec, TerminalIsFinal

-----------------------------------------------------------------------------
(***************************************************************************)
(* The Task runtime implements the Task contract: under the mapping of     *)
(* TaskRuntime's Contract, its initial states are the contract's and every *)
(* step is one of the contract's or leaves what the contract speaks of.    *)
(***************************************************************************)

\* What the refinement mapping gives the contract for its variables.
Status == [t \in Tasks |-> task[t].state]
Asked  == {t \in Tasks : task[t].cancel}
Live   == {t \in Tasks : Alive(t)}

\* The contract's step, or a step it does not see.
Allowed == [Contract!Next]_(Contract!vars)

\* What the contract sees of a step that stores one Task record.
LEMMA Seen ==
    ASSUME IInv, NEW t \in Tasks, NEW r \in TaskRec, task' = [task EXCEPT ![t] = r]
    PROVE  /\ Status' = [Status EXCEPT ![t] = r.state]
           /\ r.cancel = task[t].cancel => Asked' = Asked
           /\ r.cancel => Asked' = Asked \cup {t}
  BY DEF IInv, TypeOK, TaskRec, Status, Asked

\* A step that changes nothing the contract sees is a stutter.
LEMMA Unseen ==
    ASSUME task' = task, guard' = guard, ran' = ran
    PROVE  Allowed
  BY DEF Allowed, Contract!vars, Alive

\* The processes that may be alive change only with the guards.
LEMMA SameLive ==
    ASSUME guard' = guard
    PROVE  Live' = Live
  BY DEF Live, Alive

\* A step that records the end e of t.
LEMMA EndAllowed ==
    ASSUME IInv, NEW t \in Tasks, NEW e \in Terminal, task[t].state \in {"queued", "running"},
           task' = [task EXCEPT ![t] = [task[t] EXCEPT !.state = e]],
           guard' = guard, ran' = ran,
           e # "interrupted" => ~Alive(t),
           e = "completed" => task[t].state = "running" /\ t \in ran,
           e = "cancelled" => task[t].cancel
    PROVE  Allowed
  <1>1. /\ Status' = [Status EXCEPT ![t] = e] /\ Asked' = Asked /\ Live' = Live
        /\ Status[t] \in {"queued", "running"}
    <2> DEFINE r == [task[t] EXCEPT !.state = e]
    <2>1. task[t] \in TaskRec
      BY DEF IInv, TypeOK
    <2>2. r \in TaskRec /\ r.state = e /\ r.cancel = task[t].cancel
      BY <2>1 DEF TaskRec, TaskState
    <2>3. task' = [task EXCEPT ![t] = r]
      OBVIOUS
    <2> HIDE DEF r
    <2>4. Status' = [Status EXCEPT ![t] = e] /\ Asked' = Asked
      BY <2>2, <2>3, Seen
    <2> QED BY <2>4, SameLive DEF Status
  <1>2. CASE e = "interrupted"
    <2>1. Status' = [u \in Tasks |-> IF u \in {t} THEN "interrupted" ELSE Status[u]]
      BY <1>1, <1>2 DEF Status
    <2>2. Contract!Interrupt({t})
      BY <1>1, <2>1 DEF Contract!Interrupt, Contract!Open, Status, Asked, Live
    <2> QED BY <2>2 DEF Allowed, Contract!Next
  <1>3. CASE e = "completed"
    BY <1>1, <1>3 DEF Allowed, Contract!Next, Contract!Complete, Status, Asked, Live
  <1>4. CASE e = "failed"
    BY <1>1, <1>4 DEF Allowed, Contract!Next, Contract!Fail, Contract!Open, Status, Asked, Live
  <1>5. CASE e = "cancelled"
    <2>1. Asked' = Asked \cup {t} /\ t \in Asked
      BY <1>1, <1>5 DEF Asked
    <2> QED BY <1>1, <1>5, <2>1 DEF Allowed, Contract!Next, Contract!Cancel, Contract!Open,
            Status, Asked, Live
  <1> QED BY <1>2, <1>3, <1>4, <1>5 DEF Terminal

\* An admission is an Admit of the contract, or a stutter (admit_task).
LEMMA AdmitAllowed ==
    ASSUME IInv, NEW t \in Tasks, AdmitTask(t)
    PROVE  Allowed
  <1> DEFINE r == [state |-> "queued", cancel |-> FALSE, executor |-> executor,
                   instance |-> instance]
  <1>1. /\ r \in TaskRec /\ guard' = guard /\ ran' = ran
        /\ task[t].state = "absent" /\ ~task[t].cancel /\ task[t].cancel \in BOOLEAN
    <2>1. TaskInv(t) /\ task[t] \in TaskRec /\ dedup[t] = "none"
      BY DEF IInv, TypeOK, AdmitTask
    <2>2. r \in TaskRec
      BY DEF IInv, TypeOK, TaskRec, TaskState
    <2> QED BY <2>1, <2>2 DEF AdmitTask, TaskInv, RecordInv, NonTerminal, IsTerminal,
            TaskRec, TaskState
  <1>2. task' = [task EXCEPT ![t] = r] \/ task' = task
    BY DEF AdmitTask, Committed, WriteFailed, After, NewLifecycle, Event, Selects
  <1>3. CASE task' = [task EXCEPT ![t] = r]
    <2>1. r.state = "queued" /\ r.cancel = task[t].cancel
      BY <1>1
    <2> HIDE DEF r
    <2>2. Status' = [Status EXCEPT ![t] = "queued"] /\ Asked' = Asked /\ Live' = Live
      BY <1>1, <1>3, <2>1, Seen, SameLive
    <2> QED BY <1>1, <2>2 DEF Allowed, Contract!Next, Contract!Admit, Status, Asked, Live
  <1> QED BY <1>1, <1>2, <1>3, Unseen

\* A start is a Start of the contract, or a stutter (run_task).
LEMMA StartAllowed ==
    ASSUME IInv, NEW t \in Tasks, StartTask(t)
    PROVE  Allowed
  <1> DEFINE r == [task[t] EXCEPT !.state = "running"]
  <1>1. /\ task[t] \in TaskRec /\ task[t].state = "queued" /\ guard' = guard /\ ran' = ran
    BY DEF IInv, TypeOK, StartTask, MayStart, TaskInv, DriverInv, RecordInv, Waiting,
       IsTerminal, TaskRec, TaskState
  <1>2. r \in TaskRec /\ r.state = "running" /\ r.cancel = task[t].cancel
    BY <1>1 DEF TaskRec, TaskState
  <1>3. task' = [task EXCEPT ![t] = r] \/ task' = task
    BY <1>1, AfterEvents DEF StartTask, Started, Committed, WriteFailed, CommitRefused, store
  <1> HIDE DEF r
  <1>4. CASE task' = [task EXCEPT ![t] = r]
    <2>1. Status' = [Status EXCEPT ![t] = "running"] /\ Asked' = Asked /\ Live' = Live
      BY <1>1, <1>2, <1>4, Seen, SameLive
    <2> QED BY <1>1, <2>1 DEF Allowed, Contract!Next, Contract!Start, Status, Asked, Live
  <1> QED BY <1>1, <1>3, <1>4, Unseen

\* A process that is started is a Begin of the contract, and the first one.
LEMMA CheckpointAllowed ==
    ASSUME IInv, NEW t \in Tasks, Checkpoint(t)
    PROVE  Allowed
  <1>1. task' = task /\ driver[t].pc = "checked" /\ TaskInv(t)
    BY DEF IInv, Checkpoint, store
  <1>2. CASE UNCHANGED <<guard, ran>>
    BY <1>1, <1>2, Unseen
  <1>3. CASE guard' = [guard EXCEPT ![t] = "live"] /\ ran' = ran \cup {t}
    <2>1. /\ Status' = Status /\ Asked' = Asked
          /\ Status[t] = "running" /\ t \notin ran
      BY <1>1 DEF Status, Asked, TaskInv, DriverInv, Executing
    <2>2. Live' = Live \cup {t}
      BY <1>3 DEF IInv, TypeOK, Live, Alive
    <2> QED BY <1>3, <2>1, <2>2 DEF Allowed, Contract!Next, Contract!Begin, Status, Asked, Live
  <1> QED BY <1>2, <1>3 DEF Checkpoint

\* Reading a guard's verdict is a stutter: its process had already stopped.
LEMMA ProcessEndsAllowed ==
    ASSUME IInv, NEW t \in Tasks, ProcessEnds(t)
    PROVE  Allowed
  <1>1. task' = task /\ ran' = ran
    BY DEF ProcessEnds, store
  <1>2. Live' = Live
    BY DEF IInv, TypeOK, ProcessEnds, Live, Alive
  <1> QED BY <1>1, <1>2 DEF Allowed, Contract!vars, Live

\* An attempt of a settlement whose outcome is what really happened.
LEMMA SettleAllowed ==
    ASSUME IInv, NEW t \in Tasks, NEW o \in {"completed", "failed", "cancelled"},
           NEW c \in BOOLEAN, SettleEnds(t, o, c) \/ SettleFails(t, o, c),
           guard' = guard, ran' = ran, task[t].state # "absent",
           c => ~Alive(t), c /\ o = "completed" => t \in ran
    PROVE  Allowed
  <1> DEFINE e == IF c THEN o ELSE "interrupted"
  <1>1. task[t] \in TaskRec /\ TaskInv(t)
    BY DEF IInv, TypeOK
  <1>2. \/ task' = task
        \/ /\ ~IsTerminal(task[t]) /\ Legal(task[t], OutcomeEvent(o, c))
           /\ task' = [task EXCEPT ![t] = [task[t] EXCEPT !.state = e]]
    BY <1>1, AfterOutcome DEF SettleEnds, SettleFails, Committed, WriteFailed, Settled,
       store, durable
  <1>3. CASE /\ ~IsTerminal(task[t]) /\ Legal(task[t], OutcomeEvent(o, c))
             /\ task' = [task EXCEPT ![t] = [task[t] EXCEPT !.state = e]]
    <2>1. task[t].state \in {"queued", "running"}
      BY <1>1, <1>3 DEF TaskRec, TaskState, IsTerminal, TaskInv, RecordInv
    <2>2. e \in Terminal /\ (e # "interrupted" => c /\ e = o)
      BY DEF Terminal
    <2>3. /\ c /\ o = "completed" => task[t].state = "running"
          /\ c /\ o = "cancelled" => task[t].cancel
      BY <1>1, <1>3 DEF Legal, OutcomeEvent
    <2> HIDE DEF e
    <2> QED BY <1>3, <2>1, <2>2, <2>3, EndAllowed
  <1> QED BY <1>2, <1>3, Unseen

\* The driver's settlement is an end the contract allows (settle_once).
LEMMA SettleTaskAllowed ==
    ASSUME IInv, NEW t \in Tasks, SettleTask(t) \/ CancelSettle(t)
    PROVE  Allowed
  <1>1. TaskInv(t) /\ driver[t] \in DriverRec /\ claim[t] \in ClaimRec
    BY DEF IInv, TypeOK
  <1>2. CASE SettleTask(t)
    <2>1. /\ driver[t].pc = "settle" /\ guard' = guard /\ ran' = ran
          /\ \/ SettleEnds(t, driver[t].outcome, driver[t].cleanup)
             \/ SettleFails(t, driver[t].outcome, driver[t].cleanup)
      BY <1>2 DEF SettleTask
    <2>2. /\ task[t].state # "absent"
          /\ driver[t].cleanup => ~Alive(t)
          /\ driver[t].cleanup /\ driver[t].outcome = "completed" => t \in ran
          /\ driver[t].outcome \in {"completed", "failed", "cancelled"}
          /\ driver[t].cleanup \in BOOLEAN
      BY <1>1, <2>1 DEF TaskInv, DriverInv, OutcomeInv, DriverRec
    <2> QED BY <2>1, <2>2, SettleAllowed
  <1>3. CASE CancelSettle(t)
    <2>1. /\ canceller[t].pc = "settle" /\ guard' = guard /\ ran' = ran
          /\ \/ SettleEnds(t, "cancelled", claim[t].cleanup)
             \/ SettleFails(t, "cancelled", claim[t].cleanup)
      BY <1>3 DEF CancelSettle
    <2>2. /\ task[t].state # "absent"
          /\ claim[t].cleanup => ~Alive(t)
          /\ claim[t].cleanup \in BOOLEAN
      BY <1>1, <2>1 DEF TaskInv, CancellerInv, ClaimInv, RecordInv, ClaimRec
    <2> QED BY <2>1, <2>2, SettleAllowed
  <1> QED BY <1>2, <1>3

\* interrupt_before_execution is an Interrupt of the contract, or a stutter.
LEMMA InterruptAllowed ==
    ASSUME IInv, NEW t \in Tasks, InterruptTask(t)
    PROVE  Allowed
  <1>1. /\ task[t] \in TaskRec /\ TaskInv(t) /\ driver[t].pc = "interrupt"
        /\ guard' = guard /\ ran' = ran
    BY DEF IInv, TypeOK, InterruptTask
  <1>2. \/ task' = task
        \/ /\ ~IsTerminal(task[t])
           /\ task' = [task EXCEPT ![t] = [task[t] EXCEPT !.state = "interrupted"]]
    BY <1>1, AfterEvents DEF InterruptTask, Committed, WriteFailed, Settled, store
  <1>3. ~IsTerminal(task[t]) => task[t].state \in {"queued", "running"}
    BY <1>1 DEF TaskRec, TaskState, IsTerminal, TaskInv, RecordInv, DriverInv
  <1> QED BY <1>1, <1>2, <1>3, EndAllowed, Unseen DEF Terminal

\* A cancel call is an Ask or a Cancel of the contract, or a stutter (cancel_task).
LEMMA CancelAllowed ==
    ASSUME IInv, NEW t \in Tasks, CancelTask(t)
    PROVE  Allowed
  <1> DEFINE a == [task[t] EXCEPT !.cancel = TRUE]
             r == [a EXCEPT !.state = "cancelled"]
  <1>1. /\ task[t] \in TaskRec /\ TaskInv(t) /\ task[t].state \in {"queued", "running"}
        /\ ~IsTerminal(task[t]) /\ guard' = guard /\ ran' = ran
    BY DEF IInv, TypeOK, CancelTask, NonTerminal, IsTerminal, Terminal
  <1>2. a \in TaskRec /\ a.state = task[t].state /\ a.cancel
    BY <1>1 DEF TaskRec
  <1>3. r \in TaskRec /\ r.state = "cancelled" /\ r.cancel
    BY <1>1 DEF TaskRec, TaskState, Terminal
  <1>4. After(task[t], Event("RequestCancel")) = a
    BY <1>1, AfterEvents
  <1>5. After(a, Event("SettleCancellation")) = r
    BY <1>2, AfterEvents
  <1> HIDE DEF a, r
  <1>6. \/ task' = task
        \/ task[t].state = "queued" /\ task' = [task EXCEPT ![t] = r]
        \/ task[t].state = "running" /\ task' = [task EXCEPT ![t] = a]
    BY <1>4, <1>5 DEF CancelTask, Committed, WriteFailed
  <1>7. CASE task[t].state = "queued" /\ task' = [task EXCEPT ![t] = r]
    <2>1. /\ Status' = [Status EXCEPT ![t] = "cancelled"] /\ Asked' = Asked \cup {t}
          /\ Live' = Live /\ Status[t] = "queued" /\ ~Alive(t)
      <3>1. ~Alive(t)
        BY <1>1, <1>7 DEF TaskInv, RecordInv
      <3> QED BY <1>1, <1>3, <1>7, <3>1, Seen, SameLive DEF Status
    <2> QED BY <1>1, <2>1 DEF Allowed, Contract!Next, Contract!Cancel, Contract!Open,
            Status, Asked, Live
  <1>8. CASE task[t].state = "running" /\ task' = [task EXCEPT ![t] = a]
    <2>1. Status' = [Status EXCEPT ![t] = task[t].state] /\ Asked' = Asked \cup {t}
          /\ Live' = Live
      BY <1>1, <1>2, <1>8, Seen, SameLive
    <2>2. Status' = Status /\ Status[t] = "running"
      BY <1>8, <2>1 DEF Status
    <2> QED BY <1>1, <2>1, <2>2 DEF Allowed, Contract!Next, Contract!Ask, Status, Asked, Live
  <1> QED BY <1>1, <1>6, <1>7, <1>8, Unseen

\* Guards and the boot: processes end, and a guard that dies leaves its process.
LEMMA GuardAllowed ==
    ASSUME IInv, \/ \E t \in Tasks : GuardCleans(t) \/ GuardDies(t)
                 \/ Reboot \/ Serve
    PROVE  Allowed
  <1>1. /\ task' = task /\ ran' = ran /\ Status' = Status /\ Asked' = Asked
        /\ guard \in [Tasks -> {"none", "live", "clean", "lost"}]
    BY DEF IInv, TypeOK, GuardCleans, GuardDies, Reboot, Serve, store, Status, Asked
  <1>2. ASSUME NEW S, S \subseteq Live, Live' = Live \ S PROVE Allowed
    <2>1. S \in SUBSET Tasks
      BY <1>2 DEF Live
    <2>2. Contract!Stop(S)
      BY <1>1, <1>2 DEF Contract!Stop, Status, Asked, Live
    <2> QED BY <2>1, <2>2 DEF Allowed, Contract!Next
  <1>3. ASSUME NEW t \in Tasks, GuardCleans(t) PROVE Allowed
    <2>1. {t} \subseteq Live /\ Live' = Live \ {t}
      BY <1>1, <1>3 DEF GuardCleans, Live, Alive
    <2> QED BY <1>2, <2>1
  <1>4. ASSUME NEW t \in Tasks, GuardDies(t) PROVE Allowed
    <2>1. {} \subseteq Live /\ Live' = Live \ {}
      BY <1>1, <1>4 DEF GuardDies, Live, Alive
    <2> QED BY <1>2, <2>1
  <1>5. CASE Reboot
    <2>1. Live \subseteq Live /\ Live' = Live \ Live
      BY <1>1, <1>5 DEF Reboot, Live, Alive
    <2> QED BY <1>2, <2>1
  <1>6. CASE Serve
    <2>1. {} \subseteq Live /\ Live' = Live \ {}
      BY <1>1, <1>6 DEF Serve, GuardsAreClean, Live, Alive
    <2> QED BY <1>2, <2>1
  <1> QED BY <1>3, <1>4, <1>5, <1>6

\* The recovery of a restart is one Interrupt of all unsettled Tasks.
LEMMA RecoveryAllowed ==
    ASSUME IInv, RecoverOldInstance \/ ClearStranded
    PROVE  Allowed
  <1> DEFINE Left == {t \in Tasks : NonTerminal(t)}
  <1>1. /\ task' = Interrupted /\ guard' = guard /\ ran' = ran
        /\ task \in [Tasks -> TaskRec]
    BY DEF IInv, TypeOK, RecoverOldInstance, ClearStranded, Interrupts
  <1>2. ASSUME NEW u \in Tasks
        PROVE  /\ task'[u].state = IF u \in Left THEN "interrupted" ELSE task[u].state
               /\ task'[u].cancel = task[u].cancel
    <2>1. task[u] \in TaskRec
      BY <1>1
    <2>2. After(task[u], Event("HostLost")) = [task[u] EXCEPT !.state = "interrupted"]
      BY <2>1, AfterEvents
    <2> QED BY <1>1, <2>1, <2>2 DEF Interrupted, TaskRec
  <1>3. Status' = [u \in Tasks |-> IF u \in Left THEN "interrupted" ELSE Status[u]]
    BY <1>2 DEF Status
  <1>4. Asked' = Asked /\ Live' = Live
    BY <1>1, <1>2, SameLive DEF Asked
  <1>5. Left \in SUBSET Tasks /\ \A u \in Left : Status[u] \in {"queued", "running"}
    BY DEF Status, NonTerminal
  <1> HIDE DEF Left
  <1>6. ASSUME NEW I \in SUBSET Tasks, I = Left PROVE Allowed
    <2>1. Contract!Interrupt(I)
      BY <1>1, <1>3, <1>4, <1>5, <1>6 DEF Contract!Interrupt, Contract!Open, Status, Asked, Live
    <2> QED BY <2>1 DEF Allowed, Contract!Next
  <1> QED BY <1>5, <1>6

-----------------------------------------------------------------------------
\* Every behaviour of the Task runtime, with its disk faults, crashes, restarts and
\* racing cancellations, is one the Task contract allows its clients to see.
THEOREM Refinement == Spec => ImplementsContract
  <1>1. Init => Contract!Init
    <2> SUFFICES ASSUME Init PROVE Contract!Init
      OBVIOUS
    <2>1. Status = [t \in Tasks |-> "absent"] /\ Asked = {} /\ Live = {} /\ ran = {}
      BY DEF Init, NoTask, Status, Asked, Live, Alive
    <2> QED BY <2>1 DEF Contract!Init, Status, Asked, Live
  <1>2. IInv /\ [Next]_vars => [Contract!Next]_(Contract!vars)
    <2> SUFFICES ASSUME IInv, [Next]_vars PROVE Allowed
      BY DEF Allowed
    <2>1. ASSUME NEW t \in Tasks, DriverStep(t) PROVE Allowed
      <3>1. CASE TakePermit(t) \/ DeclineTask(t) \/ CheckExecutor(t) \/ CommandResult(t)
                   \/ FinishClaim(t) \/ RemoveClaim(t)
        BY <3>1, Unseen DEF TakePermit, DeclineTask, CheckExecutor, CommandResult,
           FinishClaim, RemoveClaim, store
      <3> QED BY <2>1, <3>1, StartAllowed, CheckpointAllowed, ProcessEndsAllowed,
              SettleTaskAllowed, InterruptAllowed DEF DriverStep
    <2>2. ASSUME NEW t \in Tasks, CancelStep(t) PROVE Allowed
      <3>1. CASE CancelClaim(t) \/ CancelAwait(t) \/ CancelPoll(t)
        BY <3>1, Unseen DEF CancelClaim, CancelAwait, CancelPoll, store
      <3> QED BY <2>2, <3>1, SettleTaskAllowed DEF CancelStep
    <2>3. ASSUME HostStep PROVE Allowed
      <3>1. CASE RecoverStore \/ PublishRuntimeReady
        BY <3>1, Unseen DEF RecoverStore, PublishRuntimeReady, Committed, WriteFailed, store
      <3>2. CASE ChangeCapability \/ DiskFault \/ DiskHeals \/ Crash
        BY <3>2, Unseen DEF ChangeCapability, DiskFault, DiskHeals, Crash, store, durable
      <3> QED BY <2>3, <3>1, <3>2, GuardAllowed, RecoveryAllowed DEF HostStep
    <2>4. CASE UNCHANGED vars
      BY <2>4, Unseen DEF vars
    <2> QED BY <2>1, <2>2, <2>3, <2>4, AdmitAllowed, CancelAllowed, GuardAllowed DEF Next
  <1> QED BY <1>1, <1>2, Inductive, PTL DEF Spec, ImplementsContract, Contract!Spec
=============================================================================
