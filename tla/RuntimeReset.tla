---------------------------- MODULE RuntimeReset ----------------------------
(***************************************************************************)
(* The reset of the App's Runtime data and the start of its host, over the *)
(* files of the canonical store: runtime-owner.json, runtime-state.json,   *)
(* runtime-reset-intent.json, the artifacts directory and the reset trash  *)
(* (persistence/src/atomic.rs), as the native surface (app_native/src/     *)
(* lib.rs, app_host.rs) and RuntimeHostController.kt drive them.           *)
(*                                                                         *)
(* Two actors: "start", the synchronized start() of the controller, and    *)
(* "reset", its maintenance executor.  Both may complete a recorded reset; *)
(* the live lock (flock on runtime-live.lock) keeps them, and a Runtime    *)
(* instance, apart.  Every file operation is a step, a crash may fall      *)
(* between any two of them, and a file that is written in place may be     *)
(* left torn.  "busy" is a store with unsettled work, "data" one whose     *)
(* work has settled.                                                       *)
(***************************************************************************)
EXTENDS Naturals

CONSTANTS
    MaxGeneration,  \* bound: the last host generation a reset reaches
    MaxFaults,      \* bound: how many file operations fail
    MaxCrashes      \* bound: how many times the process dies

ASSUME ResetAssumption ==
    /\ MaxGeneration \in Nat \ {0}
    /\ MaxFaults \in Nat
    /\ MaxCrashes \in Nat

VARIABLES
    \* durable
    owner, state, intent,
    artifacts, trash,       \* whether the directory exists
    \* the process
    live,                   \* who holds the live lock
    up,                     \* the host slot holds an instance
    open,                   \* its admission_open
    session,                \* the controller's view of it
    seen,                   \* the owner's generation the starter read for its instance
    pc,                     \* where each actor is
    \* bounds
    faults, crashes

files  == <<owner, state, intent, artifacts, trash>>
host   == <<up, open, session>>
bounds == <<faults, crashes>>
vars   == <<owner, state, intent, artifacts, trash, live, up, open, session, seen, pc,
            faults, crashes>>

Actors   == {"start", "reset"}
Recovery == {"await", "lock", "move", "empty", "advance", "purge", "remove"}
Starting == {"init_owner", "init_state", "read", "acquire", "load"}
Locked   == {"move", "empty", "advance", "purge", "remove"}

Goes(a, place) == pc' = [pc EXCEPT ![a] = place]

\* What maintenance_blocker finds in the files alone.
OwnerCorrupt == owner.file # "valid" /\ ~(owner.file = "absent" /\ state = "absent")
StoreCorrupt == owner.file = "valid" /\ state \in {"absent", "torn"}

-----------------------------------------------------------------------------
(* start()                                                                 *)

\* A recorded reset is completed before any activation; the owner file decides whether
\* the store is initialized.
BeginStart ==
    /\ pc["start"] = "idle" /\ session = "inactive"
    /\ Goes("start", IF intent.file # "absent" THEN "await"
                     ELSE IF owner.file = "absent" THEN "init_owner" ELSE "read")
    /\ UNCHANGED <<files, live, host, seen, bounds>>

\* StateStore::initialize writes the owner, then the state.
InitializeOwner ==
    /\ pc["start"] = "init_owner"
    /\ owner' = [file |-> "valid", generation |-> 1]
    /\ Goes("start", "init_state")
    /\ UNCHANGED <<state, intent, artifacts, trash, live, host, seen, bounds>>

InitializeState ==
    /\ pc["start"] = "init_state"
    /\ IF state = "absent" THEN state' = "empty" /\ Goes("start", "read")
                           ELSE Goes("start", "idle") /\ UNCHANGED state
    /\ UNCHANGED <<owner, intent, artifacts, trash, live, host, seen, bounds>>

\* read_owner, before there is any lock.
ReadOwner ==
    /\ pc["start"] = "read"
    /\ IF owner.file = "valid" THEN seen' = owner.generation /\ Goes("start", "acquire")
                               ELSE Goes("start", "idle") /\ UNCHANGED seen
    /\ UNCHANGED <<files, live, host, bounds>>

\* Mutant: the owner is not read again once the lock is there.
AcquireLifetime_Unfenced ==
    /\ pc["start"] = "acquire" /\ live = "none"
    /\ IF intent.file = "absent" THEN live' = "start" /\ Goes("start", "load")
                                 ELSE Goes("start", "idle") /\ UNCHANGED live
    /\ UNCHANGED <<files, host, seen, bounds>>

\* acquire_lifetime waits for the lock, and only then looks for an intent and compares
\* its fence with the owner.
AcquireLifetime ==
    /\ pc["start"] = "acquire" /\ live = "none"
    /\ IF intent.file = "absent" /\ owner.file = "valid" /\ seen = owner.generation
         THEN live' = "start" /\ Goes("start", "load")
         ELSE Goes("start", "idle") /\ UNCHANGED live
    /\ UNCHANGED <<files, host, seen, bounds>>

\* activate_app_host: the state is loaded, the work of a lost instance settled, and the
\* instance published; an unreadable state gives the lock back.
Activate ==
    /\ pc["start"] = "load"
    /\ Goes("start", "idle")
    /\ IF StoreCorrupt
         THEN live' = "none" /\ UNCHANGED <<state, host>>
         ELSE /\ live' = "host"
              /\ state' = IF state = "busy" THEN "data" ELSE state
              /\ up' = TRUE /\ open' = TRUE /\ session' = "started"
    /\ UNCHANGED <<owner, intent, artifacts, trash, seen, bounds>>

-----------------------------------------------------------------------------
(* The instance's own work.                                                *)

\* submit_apk_public reads admission_open once, so a call that read it in time, like the
\* scheduler, which never reads it, admits work at any time while the lease is held.  The
\* work may publish an artifact.
AdmitWork ==
    /\ live = "host"
    /\ state' = "busy"
    /\ artifacts' \in {artifacts, TRUE}
    /\ UNCHANGED <<owner, intent, trash, live, host, pc, seen, bounds>>

\* The work settles while a reference to the instance's lease is left.
SettleWork ==
    /\ live = "host" /\ state = "busy"
    /\ state' = "data"
    /\ UNCHANGED <<owner, intent, artifacts, trash, live, host, pc, seen, bounds>>

\* The last reference to a released instance goes, and with it the live lock.
DropLease ==
    /\ live = "host" /\ ~up
    /\ live' = "none"
    /\ UNCHANGED <<files, host, pc, seen, bounds>>

-----------------------------------------------------------------------------
(* resetRuntimeData, from the request to the recorded intent.              *)

\* A reset of a started instance withdraws the session first.
Withdrawn == session' = IF session = "started" THEN "pending" ELSE session

BeginReset ==
    /\ pc["reset"] = "idle"
    /\ \/ \* reset_malformed_owner replaces the owner alone
          /\ session # "started" /\ OwnerCorrupt
          /\ live = "none" /\ intent.file = "absent"
          /\ owner' = [file |-> "valid", generation |-> 1]
          /\ UNCHANGED <<live, up, open, session, pc>>
       \/ \* an intent is already there
          /\ ~(session # "started" /\ OwnerCorrupt)
          /\ intent.file # "absent"
          /\ Withdrawn
          /\ Goes("reset", "await")
          /\ UNCHANGED <<owner, live, up, open>>
       \/ \* record_live_reset_intent closes the instance's admission
          /\ intent.file = "absent" /\ up /\ owner.generation < MaxGeneration
          /\ Withdrawn
          /\ open' = FALSE
          /\ Goes("reset", "prove")
          /\ UNCHANGED <<owner, live, up>>
       \/ \* record_corrupt_store_reset_intent works under the live lock
          /\ intent.file = "absent" /\ ~up /\ pc["start"] \notin Starting
          /\ StoreCorrupt /\ live = "none" /\ owner.generation < MaxGeneration
          /\ live' = "reset"
          /\ Goes("reset", "record")
          /\ UNCHANGED <<owner, host>>
    /\ UNCHANGED <<state, intent, artifacts, trash, seen, bounds>>

\* A refusal reopens the instance, or gives the live lock back.
Refuse ==
    /\ Goes("reset", "idle")
    /\ IF live = "reset" THEN live' = "none" /\ UNCHANGED host
                         ELSE /\ open' = TRUE
                              /\ session' = IF session = "pending" THEN "started" ELSE session
                              /\ UNCHANGED <<live, up>>

\* require_idle_apk_runtime and the zero-work check of record_reset_intent.
ProveIdle ==
    /\ pc["reset"] = "prove"
    /\ IF state = "busy" THEN Refuse
                         ELSE Goes("reset", "record") /\ UNCHANGED <<live, host>>
    /\ UNCHANGED <<files, seen, bounds>>

\* write_new_json writes the intent in place, then the directory is synced.
RecordIntent ==
    /\ pc["reset"] = "record"
    /\ intent.file = "absent"
    /\ intent' = [file |-> "valid", source |-> owner.generation]
    /\ IF live = "reset" THEN live' = "none" /\ Goes("reset", "await")
                         ELSE Goes("reset", "release") /\ UNCHANGED live
    /\ UNCHANGED <<owner, state, artifacts, trash, host, seen, bounds>>

\* The write or the sync fails: whatever of the file is there stays there.
RecordFails ==
    /\ pc["reset"] = "record"
    /\ faults < MaxFaults /\ faults' = faults + 1
    /\ \E file \in {"absent", "torn", "valid"} :
          intent' = [file |-> file, source |-> owner.generation]
    /\ Refuse
    /\ UNCHANGED <<owner, state, artifacts, trash, seen, crashes>>

\* The slot is emptied; the lease closes with its last reference.
ReleaseHost ==
    /\ pc["reset"] = "release"
    /\ up' = FALSE
    /\ Goes("reset", "await")
    /\ UNCHANGED <<files, live, open, session, seen, bounds>>

-----------------------------------------------------------------------------
(* await_live_lock_release and recover_confirmed_reset, by either actor.   *)

\* The actor's call returns an error.  A reset that had released the instance leaves the
\* session inactive; one that had not gives it back.
Fails(a) ==
    /\ Goes(a, "idle")
    /\ live' = IF live = a THEN "none" ELSE live
    /\ session' = IF a = "reset" /\ session = "pending"
                    THEN (IF up THEN "started" ELSE "inactive") ELSE session
    /\ UNCHANGED <<up, open>>

\* The lock is free, or still held after five seconds.
AwaitRelease(a) ==
    /\ pc[a] = "await"
    /\ IF live = "none" THEN Goes(a, "lock") /\ UNCHANGED <<live, host>>
                        ELSE Fails(a)
    /\ UNCHANGED <<files, seen, bounds>>

\* validate_reset_owner: the owner is where the reset starts or where it leads.
AtSource == owner.generation = intent.source
AtTarget == owner.generation = intent.source + 1

\* Mutant: a reset that has advanced the owner already is refused.
LockReset_Source(a) ==
    /\ pc[a] = "lock" /\ live = "none"
    /\ IF intent.file = "valid" /\ owner.file = "valid" /\ AtSource
         THEN live' = a /\ Goes(a, "move") /\ UNCHANGED host
         ELSE Fails(a)
    /\ UNCHANGED <<files, seen, bounds>>

\* The live lock, the intent and the owner; then every step to the end under the lock.
LockReset(a) ==
    /\ pc[a] = "lock" /\ live = "none"
    /\ IF intent.file = "valid" /\ owner.file = "valid" /\ (AtSource \/ AtTarget)
         THEN live' = a /\ Goes(a, "move") /\ UNCHANGED host
         ELSE Fails(a)
    /\ UNCHANGED <<files, seen, bounds>>

MoveArtifacts(a) ==
    /\ pc[a] = "move"
    /\ IF artifacts /\ trash
         THEN Fails(a) /\ UNCHANGED <<artifacts, trash>>
         ELSE /\ artifacts' = FALSE
              /\ trash' = (trash \/ artifacts)
              /\ Goes(a, "empty")
              /\ UNCHANGED <<live, host>>
    /\ UNCHANGED <<owner, state, intent, seen, bounds>>

\* Mutant: unsettled work is left in the store.
EmptyState_Idle(a) ==
    /\ pc[a] = "empty"
    /\ state' = IF state = "busy" THEN state ELSE "empty"
    /\ Goes(a, "advance")
    /\ UNCHANGED <<owner, intent, artifacts, trash, live, host, seen, bounds>>

EmptyState(a) ==
    /\ pc[a] = "empty"
    /\ state' = "empty"
    /\ Goes(a, "advance")
    /\ UNCHANGED <<owner, intent, artifacts, trash, live, host, seen, bounds>>

AdvanceOwner(a) ==
    /\ pc[a] = "advance"
    /\ owner' = IF AtSource THEN [owner EXCEPT !.generation = intent.source + 1] ELSE owner
    /\ Goes(a, "purge")
    /\ UNCHANGED <<state, intent, artifacts, trash, live, host, seen, bounds>>

PurgeTrash(a) ==
    /\ pc[a] = "purge"
    /\ trash' = FALSE
    /\ Goes(a, "remove")
    /\ UNCHANGED <<owner, state, intent, artifacts, live, host, seen, bounds>>

\* The intent goes last.  The starter goes on to the start itself; the reset leaves that
\* to start(), which its session no longer holds back.
RemoveIntent(a) ==
    /\ pc[a] = "remove"
    /\ intent' = [intent EXCEPT !.file = "absent"]
    /\ live' = "none"
    /\ session' = IF a = "reset" THEN "inactive" ELSE session
    /\ Goes(a, IF a = "start" THEN "read" ELSE "idle")
    /\ UNCHANGED <<owner, state, artifacts, trash, up, open, seen, bounds>>

-----------------------------------------------------------------------------
(* Failures.                                                               *)

\* A file operation fails before it had an effect, or the guards are not verified clean.
\* (One that fails after its effect is the step, and then a failure of the next.)
StepFails(a) ==
    /\ pc[a] \in Recovery \cup {"read", "acquire"}
    /\ faults < MaxFaults /\ faults' = faults + 1
    /\ Fails(a)
    /\ UNCHANGED <<files, seen, crashes>>

\* initialize fails in the middle of a file.
InitializeFails ==
    /\ pc["start"] \in {"init_owner", "init_state"}
    /\ faults < MaxFaults /\ faults' = faults + 1
    /\ Goes("start", "idle")
    /\ owner' = IF pc["start"] = "init_owner" THEN [owner EXCEPT !.file = "torn"] ELSE owner
    /\ state' = IF pc["start"] = "init_state" THEN "torn" ELSE state
    /\ UNCHANGED <<intent, artifacts, trash, live, host, seen, crashes>>

\* The process dies; a file that is being written in place may be torn, a directory that
\* is being removed half removed (which is no different from not removed).
Crash ==
    /\ crashes < MaxCrashes /\ crashes' = crashes + 1
    /\ owner' \in {owner} \cup
          (IF pc["start"] = "init_owner" THEN {[owner EXCEPT !.file = "torn"]} ELSE {})
    /\ state' \in {state} \cup (IF pc["start"] = "init_state" THEN {"torn"} ELSE {})
    /\ intent' \in {intent} \cup
          (IF pc["reset"] = "record" THEN {[file |-> "torn", source |-> owner.generation]} ELSE {})
    /\ live' = "none" /\ up' = FALSE /\ open' = TRUE /\ session' = "inactive"
    /\ pc' = [a \in Actors |-> "idle"]
    /\ UNCHANGED <<artifacts, trash, seen, faults>>

Init ==
    /\ owner = [file |-> "absent", generation |-> 0]
    /\ state = "absent"
    /\ intent = [file |-> "absent", source |-> 0]
    /\ artifacts = FALSE /\ trash = FALSE
    /\ live = "none" /\ up = FALSE /\ open = TRUE /\ session = "inactive" /\ seen = 0
    /\ pc = [a \in Actors |-> "idle"]
    /\ faults = 0 /\ crashes = 0

StartStep == InitializeOwner \/ InitializeState \/ ReadOwner \/ AcquireLifetime \/ Activate

RecordStep == ProveIdle \/ RecordIntent \/ ReleaseHost

RecoverStep(a) ==
    \/ AwaitRelease(a) \/ LockReset(a) \/ MoveArtifacts(a) \/ EmptyState(a)
    \/ AdvanceOwner(a) \/ PurgeTrash(a) \/ RemoveIntent(a)

Next ==
    \/ BeginStart \/ StartStep
    \/ AdmitWork \/ SettleWork \/ DropLease
    \/ BeginReset \/ RecordStep \/ RecordFails
    \/ \E a \in Actors : RecoverStep(a) \/ StepFails(a)
    \/ InitializeFails \/ Crash

Spec == Init /\ [][Next]_vars

\* Every call, alarm and boot event of the App starts a host that is down; a call that has
\* begun goes on; a released instance loses its last reference.
Fairness ==
    /\ WF_vars(BeginStart) /\ WF_vars(StartStep) /\ WF_vars(RecordStep)
    /\ WF_vars(DropLease)
    /\ \A a \in Actors : WF_vars(RecoverStep(a))

FairSpec == Spec /\ Fairness

-----------------------------------------------------------------------------
(* Properties.                                                             *)

\* Every variable has its type.
TypeOK ==
    /\ owner \in [file : {"absent", "torn", "valid"}, generation : Nat]
    /\ state \in {"absent", "torn", "empty", "data", "busy"}
    /\ intent \in [file : {"absent", "torn", "valid"}, source : Nat]
    /\ artifacts \in BOOLEAN /\ trash \in BOOLEAN
    /\ live \in {"none", "host"} \cup Actors
    /\ up \in BOOLEAN /\ open \in BOOLEAN
    /\ session \in {"inactive", "started", "pending"}
    /\ seen \in Nat
    /\ pc \in [Actors -> {"idle", "prove", "record", "release"} \cup Recovery \cup Starting]
    /\ faults \in 0..MaxFaults /\ crashes \in 0..MaxCrashes

\* While a Runtime instance lives nobody resets the store under it: its fence is the
\* owner's, no step of a reset that changes a file runs, and no half of one is left
\* (acquire_lifetime and recover_confirmed_reset share one lock).
NoResetUnderInstance ==
    live = "host" => /\ owner.file = "valid" /\ owner.generation = seen
                     /\ ~StoreCorrupt /\ ~trash
                     /\ \A a \in Actors : pc[a] \notin Locked

\* A reset ends complete: when its intent goes the state is empty, no artifact is left
\* anywhere, and the generation has advanced by exactly one, over any number of crashes
\* and attempts of both actors.
EndsComplete ==
    [][intent.file = "valid" /\ intent'.file = "absent" =>
          state' = "empty" /\ ~artifacts' /\ ~trash' /\ owner'.generation = intent.source + 1]_vars

\* "A recorded S-UPD-006 reset only moves forward" (RuntimeHostController.kt): once no
\* instance lives it completes, although steps fail and the process dies.
RecordedResetCompletes == (intent.file = "valid" /\ ~up) ~> intent.file = "absent"

\* What the comment on record_live_reset_intent (lib.rs) says: any refusal reopens the
\* unchanged instance.  An instance whose admission is open has no reset recorded
\* against it.
RefusalChangesNothing == up /\ open => intent.file = "absent"
=============================================================================
