------------------------- MODULE RuntimeReset_proofs -------------------------
(***************************************************************************)
(* The safety of start and reset for any number of resets, failures and    *)
(* crashes.  NoResetUnderInstance is not inductive: an instance comes from *)
(* a starter that read the owner before it had the lock, so the proof      *)
(* follows who holds the lock, what may be recorded while an instance      *)
(* lives, and how far a recovery under the lock has come.                  *)
(***************************************************************************)
EXTENDS RuntimeReset, TLAPS

\* Where each actor can be: a reset never starts, and a start never records.
Places ==
    /\ pc["start"] \notin {"prove", "record", "release"}
    /\ pc["reset"] \notin Starting

\* Until the first owner and the first state are written nobody else does anything.
Young ==
    /\ owner.file = "absent" => pc["start"] \in {"idle", "init_owner"}
    /\ pc["start"] = "init_owner" => owner.file = "absent"
    /\ pc["start"] = "init_state" => owner.file = "valid"
    /\ owner.file = "absent" \/ pc["start"] \in {"init_owner", "init_state"}
         => /\ state = "absent" /\ intent.file = "absent" /\ live = "none" /\ ~up
            /\ pc["reset"] = "idle" /\ ~trash /\ ~artifacts

\* Who holds the live lock is where it is needed, and who is there holds it.
LockInv ==
    /\ \A a \in Actors : pc[a] \in Locked => live = a
    /\ pc["start"] = "load" => live = "start"
    /\ live = "start" => pc["start"] \in Locked \cup {"load"}
    /\ live = "reset" => pc["reset"] \in Locked \cup {"record"}
    /\ up => live = "host"

\* What the two ways to an instance and to an intent rest on.
RecordInv ==
    /\ pc["start"] = "load" => /\ intent.file = "absent" /\ owner.file = "valid"
                               /\ owner.generation = seen
    /\ pc["reset"] \in {"prove", "release"} => up
    /\ pc["reset"] = "record" => up \/ live = "reset"
    /\ pc["reset"] \in {"prove", "record"} => intent.file = "absent"
    /\ trash => intent.file = "valid"

\* How far a recovery under the lock has come.
Progress ==
    \A a \in Actors :
      /\ pc[a] \in Locked => intent.file = "valid" /\ owner.file = "valid" /\ (AtSource \/ AtTarget)
      /\ pc[a] \in {"empty", "advance", "purge", "remove"} => ~artifacts
      /\ pc[a] \in {"advance", "purge", "remove"} => state = "empty"
      /\ pc[a] \in {"purge", "remove"} => AtTarget
      /\ pc[a] = "remove" => ~trash

ResetInv == /\ TypeOK /\ Places /\ Young /\ LockInv /\ RecordInv /\ Progress
            /\ NoResetUnderInstance

-----------------------------------------------------------------------------
(* The four parts of TypeOK.                                               *)

FileTypes ==
    /\ owner \in [file : {"absent", "torn", "valid"}, generation : Nat]
    /\ state \in {"absent", "torn", "empty", "data", "busy"}
    /\ intent \in [file : {"absent", "torn", "valid"}, source : Nat]

FlagTypes ==
    artifacts \in BOOLEAN /\ trash \in BOOLEAN /\ up \in BOOLEAN /\ open \in BOOLEAN

HostTypes ==
    /\ live \in {"none", "host"} \cup Actors
    /\ session \in {"inactive", "started", "pending"}
    /\ seen \in Nat
    /\ faults \in 0..MaxFaults /\ crashes \in 0..MaxCrashes

PlaceTypes ==
    pc \in [Actors -> {"idle", "prove", "record", "release"} \cup Recovery \cup Starting]

-----------------------------------------------------------------------------
(* One lemma per action: it preserves every part of the invariant.         *)

\* start() looks for an intent and for the owner.
LEMMA BeginStartStep ==
    ASSUME ResetInv, BeginStart
    PROVE  ResetInv'
<1>1. TypeOK'
  BY ResetAssumption DEF ResetInv, BeginStart, TypeOK, Goes, Actors, Recovery, Starting,
     files, host, bounds
<1>2. Places'
  BY DEF ResetInv, BeginStart, TypeOK, Places, Goes, Actors, Starting
<1>3. Young'
  BY DEF ResetInv, BeginStart, TypeOK, Places, Young, LockInv, Goes, Actors, Locked, files, host
<1>4. LockInv'
  BY DEF ResetInv, BeginStart, TypeOK, Places, LockInv, Goes, Actors, Locked, Starting, host
<1>5. RecordInv'
  BY DEF ResetInv, BeginStart, TypeOK, Places, Young, LockInv, RecordInv, Goes, Actors,
     Locked, files, host
<1>6. Progress'
  BY DEF ResetInv, BeginStart, TypeOK, LockInv, Progress, AtSource, AtTarget, Goes, Actors,
     Locked, files
<1>7. NoResetUnderInstance'
  BY DEF ResetInv, BeginStart, TypeOK, Places, LockInv, RecordInv, NoResetUnderInstance,
     StoreCorrupt, Goes, Actors, Locked, files, host
<1> QED
  BY <1>1, <1>2, <1>3, <1>4, <1>5, <1>6, <1>7 DEF ResetInv

\* StateStore::initialize writes the owner.
LEMMA InitializeOwnerStep ==
    ASSUME ResetInv, InitializeOwner
    PROVE  ResetInv'
<1>1. TypeOK'
  BY ResetAssumption DEF ResetInv, InitializeOwner, TypeOK, Goes, Actors, Recovery, Starting,
     files, host, bounds
<1>2. Places'
  BY DEF ResetInv, InitializeOwner, TypeOK, Places, Goes, Actors, Starting
<1>3. Young'
  BY DEF ResetInv, InitializeOwner, TypeOK, Places, Young, LockInv, Goes, Actors, Locked,
     files, host
<1>4. LockInv'
  BY DEF ResetInv, InitializeOwner, TypeOK, Places, LockInv, Goes, Actors, Locked, Starting,
     host
<1>5. RecordInv'
  BY DEF ResetInv, InitializeOwner, TypeOK, Places, Young, LockInv, RecordInv, Goes, Actors,
     Locked, files, host
<1>6. Progress'
  BY DEF ResetInv, InitializeOwner, TypeOK, Places, Young, LockInv, RecordInv, Progress,
     NoResetUnderInstance, StoreCorrupt, OwnerCorrupt, AtSource, AtTarget, Actors, Recovery,
     Starting, Locked, files, host, bounds, Goes
<1>7. NoResetUnderInstance'
  BY DEF ResetInv, InitializeOwner, TypeOK, Places, Young, LockInv, RecordInv, Progress,
     NoResetUnderInstance, StoreCorrupt, OwnerCorrupt, AtSource, AtTarget, Actors, Recovery,
     Starting, Locked, files, host, bounds, Goes
<1> QED
  BY <1>1, <1>2, <1>3, <1>4, <1>5, <1>6, <1>7 DEF ResetInv

\* StateStore::initialize writes the state.
LEMMA InitializeStateStep ==
    ASSUME ResetInv, InitializeState
    PROVE  ResetInv'
<1>1. TypeOK'
  BY ResetAssumption DEF ResetInv, InitializeState, TypeOK, Goes, Actors, Recovery, Starting,
     files, host, bounds
<1>2. Places'
  BY DEF ResetInv, InitializeState, TypeOK, Places, Goes, Actors, Starting
<1>3. Young'
  BY DEF ResetInv, InitializeState, TypeOK, Places, Young, LockInv, Goes, Actors, Locked,
     files, host
<1>4. LockInv'
  BY DEF ResetInv, InitializeState, TypeOK, Places, LockInv, Goes, Actors, Locked, Starting,
     host
<1>5. RecordInv'
  BY DEF ResetInv, InitializeState, TypeOK, Places, Young, LockInv, RecordInv, Goes, Actors,
     Locked, files, host
<1>6. Progress'
  BY DEF ResetInv, InitializeState, TypeOK, LockInv, Progress, AtSource, AtTarget, Goes,
     Actors, Locked, files
<1>7. NoResetUnderInstance'
  BY DEF ResetInv, InitializeState, TypeOK, Places, LockInv, RecordInv, NoResetUnderInstance,
     StoreCorrupt, Goes, Actors, Locked, files, host
<1> QED
  BY <1>1, <1>2, <1>3, <1>4, <1>5, <1>6, <1>7 DEF ResetInv

\* read_owner.
LEMMA ReadOwnerStep ==
    ASSUME ResetInv, ReadOwner
    PROVE  ResetInv'
<1>1. TypeOK'
  BY ResetAssumption DEF ResetInv, ReadOwner, TypeOK, Goes, Actors, Recovery, Starting, files,
     host, bounds
<1>2. Places'
  BY DEF ResetInv, ReadOwner, TypeOK, Places, Goes, Actors, Starting
<1>3. Young'
  BY DEF ResetInv, ReadOwner, TypeOK, Places, Young, LockInv, Goes, Actors, Locked, files, host
<1>4. LockInv'
  BY DEF ResetInv, ReadOwner, TypeOK, Places, LockInv, Goes, Actors, Locked, Starting, host
<1>5. RecordInv'
  BY DEF ResetInv, ReadOwner, TypeOK, Places, Young, LockInv, RecordInv, Goes, Actors, Locked,
     files, host
<1>6. Progress'
  BY DEF ResetInv, ReadOwner, TypeOK, LockInv, Progress, AtSource, AtTarget, Goes, Actors,
     Locked, files
<1>7. NoResetUnderInstance'
  BY DEF ResetInv, ReadOwner, TypeOK, Places, LockInv, RecordInv, NoResetUnderInstance,
     StoreCorrupt, Goes, Actors, Locked, files, host
<1> QED
  BY <1>1, <1>2, <1>3, <1>4, <1>5, <1>6, <1>7 DEF ResetInv

\* acquire_lifetime, the fence compared under the lock.
LEMMA AcquireLifetimeStep ==
    ASSUME ResetInv, AcquireLifetime
    PROVE  ResetInv'
<1>1. TypeOK'
  BY ResetAssumption DEF ResetInv, AcquireLifetime, TypeOK, Goes, Actors, Recovery, Starting,
     files, host, bounds
<1>2. Places'
  BY DEF ResetInv, AcquireLifetime, TypeOK, Places, Goes, Actors, Starting
<1>3. Young'
  BY DEF ResetInv, AcquireLifetime, TypeOK, Places, Young, LockInv, Goes, Actors, Locked,
     files, host
<1>4. LockInv'
  BY DEF ResetInv, AcquireLifetime, TypeOK, Places, LockInv, Goes, Actors, Locked, Starting,
     host
<1>5. RecordInv'
  BY DEF ResetInv, AcquireLifetime, TypeOK, Places, Young, LockInv, RecordInv, Goes, Actors,
     Locked, files, host
<1>6. Progress'
  BY DEF ResetInv, AcquireLifetime, TypeOK, LockInv, Progress, AtSource, AtTarget, Goes,
     Actors, Locked, files
<1>7. NoResetUnderInstance'
  BY DEF ResetInv, AcquireLifetime, TypeOK, Places, LockInv, RecordInv, NoResetUnderInstance,
     StoreCorrupt, Goes, Actors, Locked, files, host
<1> QED
  BY <1>1, <1>2, <1>3, <1>4, <1>5, <1>6, <1>7 DEF ResetInv

\* activate_app_host.
LEMMA ActivateStep ==
    ASSUME ResetInv, Activate
    PROVE  ResetInv'
<1>1. TypeOK'
  BY ResetAssumption DEF ResetInv, Activate, TypeOK, Goes, Actors, Recovery, Starting, files,
     host, bounds
<1>2. Places'
  BY DEF ResetInv, Activate, TypeOK, Places, Goes, Actors, Starting
<1>3. Young'
  BY DEF ResetInv, Activate, TypeOK, Places, Young, LockInv, Goes, Actors, Locked, files, host
<1>4. LockInv'
  BY DEF ResetInv, Activate, TypeOK, Places, LockInv, Goes, Actors, Locked, Starting, host
<1>5. RecordInv'
  BY DEF ResetInv, Activate, TypeOK, Places, Young, LockInv, RecordInv, Goes, Actors, Locked,
     files, host
<1>6. Progress'
  BY DEF ResetInv, Activate, TypeOK, LockInv, Progress, AtSource, AtTarget, Goes, Actors,
     Locked, files
<1>7. NoResetUnderInstance'
  BY DEF ResetInv, Activate, TypeOK, Places, LockInv, RecordInv, NoResetUnderInstance,
     StoreCorrupt, Goes, Actors, Locked, files, host
<1> QED
  BY <1>1, <1>2, <1>3, <1>4, <1>5, <1>6, <1>7 DEF ResetInv

\* An admission while the lease is held.
LEMMA AdmitWorkStep ==
    ASSUME ResetInv, AdmitWork
    PROVE  ResetInv'
<1>1. TypeOK'
  BY ResetAssumption DEF ResetInv, AdmitWork, TypeOK, Goes, Actors, Recovery, Starting, files,
     host, bounds
<1>2. Places'
  BY DEF ResetInv, AdmitWork, TypeOK, Places, Goes, Actors, Starting
<1>3. Young'
  BY DEF ResetInv, AdmitWork, TypeOK, Places, Young, LockInv, Goes, Actors, Locked, files, host
<1>4. LockInv'
  BY DEF ResetInv, AdmitWork, TypeOK, Places, LockInv, Goes, Actors, Locked, Starting, host
<1>5. RecordInv'
  BY DEF ResetInv, AdmitWork, TypeOK, Places, Young, LockInv, RecordInv, Goes, Actors, Locked,
     files, host
<1>6. Progress'
  BY DEF ResetInv, AdmitWork, TypeOK, LockInv, Progress, AtSource, AtTarget, Goes, Actors,
     Locked, files
<1>7. NoResetUnderInstance'
  BY DEF ResetInv, AdmitWork, TypeOK, Places, LockInv, RecordInv, NoResetUnderInstance,
     StoreCorrupt, Goes, Actors, Locked, files, host
<1> QED
  BY <1>1, <1>2, <1>3, <1>4, <1>5, <1>6, <1>7 DEF ResetInv

\* A settlement.
LEMMA SettleWorkStep ==
    ASSUME ResetInv, SettleWork
    PROVE  ResetInv'
<1>1. TypeOK'
  BY ResetAssumption DEF ResetInv, SettleWork, TypeOK, Goes, Actors, Recovery, Starting,
     files, host, bounds
<1>2. Places'
  BY DEF ResetInv, SettleWork, TypeOK, Places, Goes, Actors, Starting
<1>3. Young'
  BY DEF ResetInv, SettleWork, TypeOK, Places, Young, LockInv, Goes, Actors, Locked, files, host
<1>4. LockInv'
  BY DEF ResetInv, SettleWork, TypeOK, Places, LockInv, Goes, Actors, Locked, Starting, host
<1>5. RecordInv'
  BY DEF ResetInv, SettleWork, TypeOK, Places, Young, LockInv, RecordInv, Goes, Actors,
     Locked, files, host
<1>6. Progress'
  BY DEF ResetInv, SettleWork, TypeOK, LockInv, Progress, AtSource, AtTarget, Goes, Actors,
     Locked, files
<1>7. NoResetUnderInstance'
  BY DEF ResetInv, SettleWork, TypeOK, Places, LockInv, RecordInv, NoResetUnderInstance,
     StoreCorrupt, Goes, Actors, Locked, files, host
<1> QED
  BY <1>1, <1>2, <1>3, <1>4, <1>5, <1>6, <1>7 DEF ResetInv

\* The last reference to a released instance.
LEMMA DropLeaseStep ==
    ASSUME ResetInv, DropLease
    PROVE  ResetInv'
<1>1. TypeOK'
  BY ResetAssumption DEF ResetInv, DropLease, TypeOK, Goes, Actors, Recovery, Starting, files,
     host, bounds
<1>2. Places'
  BY DEF ResetInv, DropLease, TypeOK, Places, Goes, Actors, Starting
<1>3. Young'
  BY DEF ResetInv, DropLease, TypeOK, Places, Young, LockInv, Goes, Actors, Locked, files, host
<1>4. LockInv'
  BY DEF ResetInv, DropLease, TypeOK, Places, LockInv, Goes, Actors, Locked, Starting, host
<1>5. RecordInv'
  BY DEF ResetInv, DropLease, TypeOK, Places, Young, LockInv, RecordInv, Goes, Actors, Locked,
     files, host
<1>6. Progress'
  BY DEF ResetInv, DropLease, TypeOK, LockInv, Progress, AtSource, AtTarget, Goes, Actors,
     Locked, files
<1>7. NoResetUnderInstance'
  BY DEF ResetInv, DropLease, TypeOK, Places, LockInv, RecordInv, NoResetUnderInstance,
     StoreCorrupt, Goes, Actors, Locked, files, host
<1> QED
  BY <1>1, <1>2, <1>3, <1>4, <1>5, <1>6, <1>7 DEF ResetInv

\* The four ways a reset begins.
LEMMA BeginResetStep ==
    ASSUME ResetInv, BeginReset
    PROVE  ResetInv'
<1>1. TypeOK'
  <2>1. FileTypes'
    BY DEF ResetInv, BeginReset, Withdrawn, Goes, files, host, bounds, TypeOK, FileTypes
  <2>2. FlagTypes'
    BY Zenon DEF ResetInv, BeginReset, Withdrawn, Goes, files, host, bounds, TypeOK, FlagTypes
  <2>3. HostTypes'
    BY ResetAssumption DEF ResetInv, BeginReset, Withdrawn, Goes, files, host, bounds, TypeOK,
       HostTypes, Actors
  <2>4. PlaceTypes'
    BY DEF ResetInv, BeginReset, Withdrawn, Goes, files, host, bounds, TypeOK, PlaceTypes,
       Actors, Recovery, Starting
  <2> QED
    BY <2>1, <2>2, <2>3, <2>4 DEF TypeOK, FileTypes, FlagTypes, HostTypes, PlaceTypes
<1>2. Places'
  BY DEF ResetInv, BeginReset, Withdrawn, TypeOK, Places, Goes, Actors, Starting
<1>3. Young'
  BY DEF ResetInv, BeginReset, Withdrawn, TypeOK, Places, Young, LockInv, RecordInv, Progress,
     NoResetUnderInstance, StoreCorrupt, OwnerCorrupt, AtSource, AtTarget, Actors, Recovery,
     Starting, Locked, files, host, bounds, Goes
<1>4. LockInv'
  BY DEF ResetInv, BeginReset, Withdrawn, TypeOK, Places, LockInv, Goes, Actors, Locked,
     Starting, host
<1>5. RecordInv'
  BY DEF ResetInv, BeginReset, Withdrawn, TypeOK, Places, Young, LockInv, RecordInv, Goes,
     Actors, Locked, files, host
<1>6. Progress'
  BY DEF ResetInv, BeginReset, Withdrawn, TypeOK, LockInv, Progress, AtSource, AtTarget, Goes,
     Actors, Locked, files
<1>7. NoResetUnderInstance'
  BY DEF ResetInv, BeginReset, Withdrawn, TypeOK, Places, LockInv, RecordInv,
     NoResetUnderInstance, StoreCorrupt, Goes, Actors, Locked, files, host
<1> QED
  BY <1>1, <1>2, <1>3, <1>4, <1>5, <1>6, <1>7 DEF ResetInv

\* require_idle_apk_runtime.
LEMMA ProveIdleStep ==
    ASSUME ResetInv, ProveIdle
    PROVE  ResetInv'
<1>1. TypeOK'
  BY ResetAssumption DEF ResetInv, ProveIdle, Refuse, TypeOK, Places, Young, LockInv,
     RecordInv, Progress, NoResetUnderInstance, StoreCorrupt, OwnerCorrupt, AtSource, AtTarget,
     Actors, Recovery, Starting, Locked, files, host, bounds, Goes
<1>2. Places'
  BY DEF ResetInv, ProveIdle, Refuse, TypeOK, Places, Goes, Actors, Starting
<1>3. Young'
  BY DEF ResetInv, ProveIdle, Refuse, TypeOK, Places, Young, LockInv, Goes, Actors, Locked,
     files, host
<1>4. LockInv'
  BY DEF ResetInv, ProveIdle, Refuse, TypeOK, Places, LockInv, Goes, Actors, Locked, Starting,
     host
<1>5. RecordInv'
  BY DEF ResetInv, ProveIdle, Refuse, TypeOK, Places, Young, LockInv, RecordInv, Goes, Actors,
     Locked, files, host
<1>6. Progress'
  BY DEF ResetInv, ProveIdle, Refuse, TypeOK, LockInv, Progress, AtSource, AtTarget, Goes,
     Actors, Locked, files
<1>7. NoResetUnderInstance'
  BY DEF ResetInv, ProveIdle, Refuse, TypeOK, Places, LockInv, RecordInv,
     NoResetUnderInstance, StoreCorrupt, Goes, Actors, Locked, files, host
<1> QED
  BY <1>1, <1>2, <1>3, <1>4, <1>5, <1>6, <1>7 DEF ResetInv

\* write_new_json of the intent.
LEMMA RecordIntentStep ==
    ASSUME ResetInv, RecordIntent
    PROVE  ResetInv'
<1>1. TypeOK'
  BY ResetAssumption DEF ResetInv, RecordIntent, TypeOK, Goes, Actors, Recovery, Starting,
     files, host, bounds
<1>2. Places'
  BY DEF ResetInv, RecordIntent, TypeOK, Places, Goes, Actors, Starting
<1>3. Young'
  BY DEF ResetInv, RecordIntent, TypeOK, Places, Young, LockInv, Goes, Actors, Locked, files,
     host
<1>4. LockInv'
  BY DEF ResetInv, RecordIntent, TypeOK, Places, LockInv, Goes, Actors, Locked, Starting, host
<1>5. RecordInv'
  BY DEF ResetInv, RecordIntent, TypeOK, Places, Young, LockInv, RecordInv, Goes, Actors,
     Locked, files, host
<1>6. Progress'
  BY DEF ResetInv, RecordIntent, TypeOK, LockInv, Progress, AtSource, AtTarget, Goes, Actors,
     Locked, files
<1>7. NoResetUnderInstance'
  BY DEF ResetInv, RecordIntent, TypeOK, Places, LockInv, RecordInv, NoResetUnderInstance,
     StoreCorrupt, Goes, Actors, Locked, files, host
<1> QED
  BY <1>1, <1>2, <1>3, <1>4, <1>5, <1>6, <1>7 DEF ResetInv

\* The host slot is emptied.
LEMMA ReleaseHostStep ==
    ASSUME ResetInv, ReleaseHost
    PROVE  ResetInv'
<1>1. TypeOK'
  BY ResetAssumption DEF ResetInv, ReleaseHost, TypeOK, Places, Young, LockInv, RecordInv,
     Progress, NoResetUnderInstance, StoreCorrupt, OwnerCorrupt, AtSource, AtTarget, Actors,
     Recovery, Starting, Locked, files, host, bounds, Goes
<1>2. Places'
  BY DEF ResetInv, ReleaseHost, TypeOK, Places, Goes, Actors, Starting
<1>3. Young'
  BY DEF ResetInv, ReleaseHost, TypeOK, Places, Young, LockInv, Goes, Actors, Locked, files,
     host
<1>4. LockInv'
  BY DEF ResetInv, ReleaseHost, TypeOK, Places, LockInv, Goes, Actors, Locked, Starting, host
<1>5. RecordInv'
  BY DEF ResetInv, ReleaseHost, TypeOK, Places, Young, LockInv, RecordInv, Goes, Actors,
     Locked, files, host
<1>6. Progress'
  BY DEF ResetInv, ReleaseHost, TypeOK, LockInv, Progress, AtSource, AtTarget, Goes, Actors,
     Locked, files
<1>7. NoResetUnderInstance'
  BY DEF ResetInv, ReleaseHost, TypeOK, Places, LockInv, RecordInv, NoResetUnderInstance,
     StoreCorrupt, Goes, Actors, Locked, files, host
<1> QED
  BY <1>1, <1>2, <1>3, <1>4, <1>5, <1>6, <1>7 DEF ResetInv

\* The intent's write fails, whatever of it is there.
LEMMA RecordFailsStep ==
    ASSUME ResetInv, RecordFails
    PROVE  ResetInv'
<1>1. TypeOK'
  <2>1. FileTypes'
    BY DEF ResetInv, RecordFails, Refuse, Goes, files, host, bounds, TypeOK, FileTypes
  <2>2. FlagTypes'
    BY Zenon DEF ResetInv, RecordFails, Refuse, Goes, files, host, bounds, TypeOK, FlagTypes
  <2>3. HostTypes'
    BY ResetAssumption DEF ResetInv, RecordFails, Refuse, Goes, files, host, bounds, TypeOK,
       HostTypes, Actors
  <2>4. PlaceTypes'
    BY DEF ResetInv, RecordFails, Refuse, Goes, files, host, bounds, TypeOK, PlaceTypes,
       Actors, Recovery, Starting
  <2> QED
    BY <2>1, <2>2, <2>3, <2>4 DEF TypeOK, FileTypes, FlagTypes, HostTypes, PlaceTypes
<1>2. Places'
  BY DEF ResetInv, RecordFails, Refuse, TypeOK, Places, Goes, Actors, Starting
<1>3. Young'
  BY DEF ResetInv, RecordFails, Refuse, TypeOK, Places, Young, LockInv, Goes, Actors, Locked,
     files, host
<1>4. LockInv'
  BY DEF ResetInv, RecordFails, Refuse, TypeOK, Places, LockInv, Goes, Actors, Locked,
     Starting, host
<1>5. RecordInv'
  BY DEF ResetInv, RecordFails, Refuse, TypeOK, Places, Young, LockInv, RecordInv, Goes,
     Actors, Locked, files, host
<1>6. Progress'
  BY DEF ResetInv, RecordFails, Refuse, TypeOK, Places, Young, LockInv, RecordInv, Progress,
     NoResetUnderInstance, StoreCorrupt, OwnerCorrupt, AtSource, AtTarget, Actors, Recovery,
     Starting, Locked, files, host, bounds, Goes
<1>7. NoResetUnderInstance'
  BY DEF ResetInv, RecordFails, Refuse, TypeOK, Places, LockInv, RecordInv,
     NoResetUnderInstance, StoreCorrupt, Goes, Actors, Locked, files, host
<1> QED
  BY <1>1, <1>2, <1>3, <1>4, <1>5, <1>6, <1>7 DEF ResetInv

\* await_live_lock_release.
LEMMA AwaitReleaseStep ==
    ASSUME ResetInv, NEW a \in Actors, AwaitRelease(a)
    PROVE  ResetInv'
<1>1. TypeOK'
  BY ResetAssumption DEF ResetInv, AwaitRelease, Fails, TypeOK, Goes, Actors, Recovery,
     Starting, files, host, bounds
<1>2. Places'
  BY DEF ResetInv, AwaitRelease, Fails, TypeOK, Places, Goes, Actors, Starting
<1>3. Young'
  BY DEF ResetInv, AwaitRelease, Fails, TypeOK, Places, Young, LockInv, Goes, Actors, Locked,
     files, host
<1>4. LockInv'
  BY DEF ResetInv, AwaitRelease, Fails, TypeOK, Places, LockInv, Goes, Actors, Locked,
     Starting, host
<1>5. RecordInv'
  BY DEF ResetInv, AwaitRelease, Fails, TypeOK, Places, Young, LockInv, RecordInv, Goes,
     Actors, Locked, files, host
<1>6. Progress'
  BY DEF ResetInv, AwaitRelease, Fails, TypeOK, LockInv, Progress, AtSource, AtTarget, Goes,
     Actors, Locked, files
<1>7. NoResetUnderInstance'
  BY DEF ResetInv, AwaitRelease, Fails, TypeOK, Places, LockInv, RecordInv,
     NoResetUnderInstance, StoreCorrupt, Goes, Actors, Locked, files, host
<1> QED
  BY <1>1, <1>2, <1>3, <1>4, <1>5, <1>6, <1>7 DEF ResetInv

\* validate_reset_owner under the live lock.
LEMMA LockResetStep ==
    ASSUME ResetInv, NEW a \in Actors, LockReset(a)
    PROVE  ResetInv'
<1>1. TypeOK'
  BY ResetAssumption DEF ResetInv, LockReset, Fails, TypeOK, Goes, Actors, Recovery, Starting,
     files, host, bounds
<1>2. Places'
  BY DEF ResetInv, LockReset, Fails, TypeOK, Places, Goes, Actors, Starting
<1>3. Young'
  BY DEF ResetInv, LockReset, Fails, TypeOK, Places, Young, LockInv, Goes, Actors, Locked,
     files, host
<1>4. LockInv'
  BY DEF ResetInv, LockReset, Fails, TypeOK, Places, LockInv, Goes, Actors, Locked, Starting,
     host
<1>5. RecordInv'
  BY DEF ResetInv, LockReset, Fails, TypeOK, Places, Young, LockInv, RecordInv, Goes, Actors,
     Locked, files, host
<1>6. Progress'
  BY DEF ResetInv, LockReset, Fails, TypeOK, LockInv, Progress, AtSource, AtTarget, Goes,
     Actors, Locked, files
<1>7. NoResetUnderInstance'
  BY DEF ResetInv, LockReset, Fails, TypeOK, Places, LockInv, RecordInv, NoResetUnderInstance,
     StoreCorrupt, Goes, Actors, Locked, files, host
<1> QED
  BY <1>1, <1>2, <1>3, <1>4, <1>5, <1>6, <1>7 DEF ResetInv

\* The artifacts go to the trash.
LEMMA MoveArtifactsStep ==
    ASSUME ResetInv, NEW a \in Actors, MoveArtifacts(a)
    PROVE  ResetInv'
<1>1. TypeOK'
  <2>1. FileTypes'
    BY DEF ResetInv, MoveArtifacts, Fails, Goes, files, host, bounds, TypeOK, FileTypes
  <2>2. FlagTypes'
    BY Zenon DEF ResetInv, MoveArtifacts, Fails, Goes, files, host, bounds, TypeOK, FlagTypes
  <2>3. HostTypes'
    BY ResetAssumption DEF ResetInv, MoveArtifacts, Fails, Goes, files, host, bounds, TypeOK,
       HostTypes, Actors
  <2>4. PlaceTypes'
    BY DEF ResetInv, MoveArtifacts, Fails, Goes, files, host, bounds, TypeOK, PlaceTypes,
       Actors, Recovery, Starting
  <2> QED
    BY <2>1, <2>2, <2>3, <2>4 DEF TypeOK, FileTypes, FlagTypes, HostTypes, PlaceTypes
<1>2. Places'
  BY DEF ResetInv, MoveArtifacts, Fails, TypeOK, Places, Goes, Actors, Starting
<1>3. Young'
  BY DEF ResetInv, MoveArtifacts, Fails, TypeOK, Places, Young, LockInv, Goes, Actors, Locked,
     files, host
<1>4. LockInv'
  BY DEF ResetInv, MoveArtifacts, Fails, TypeOK, Places, LockInv, Goes, Actors, Locked,
     Starting, host
<1>5. RecordInv'
  BY DEF ResetInv, MoveArtifacts, Fails, TypeOK, Places, Young, LockInv, RecordInv, Progress,
     NoResetUnderInstance, StoreCorrupt, OwnerCorrupt, AtSource, AtTarget, Actors, Recovery,
     Starting, Locked, files, host, bounds, Goes
<1>6. Progress'
  BY DEF ResetInv, MoveArtifacts, Fails, TypeOK, LockInv, Progress, AtSource, AtTarget, Goes,
     Actors, Locked, files
<1>7. NoResetUnderInstance'
  BY DEF ResetInv, MoveArtifacts, Fails, TypeOK, Places, LockInv, RecordInv,
     NoResetUnderInstance, StoreCorrupt, Goes, Actors, Locked, files, host
<1> QED
  BY <1>1, <1>2, <1>3, <1>4, <1>5, <1>6, <1>7 DEF ResetInv

\* The empty state is written.
LEMMA EmptyStateStep ==
    ASSUME ResetInv, NEW a \in Actors, EmptyState(a)
    PROVE  ResetInv'
<1>1. TypeOK'
  BY ResetAssumption DEF ResetInv, EmptyState, TypeOK, Goes, Actors, Recovery, Starting,
     files, host, bounds
<1>2. Places'
  BY DEF ResetInv, EmptyState, TypeOK, Places, Goes, Actors, Starting
<1>3. Young'
  BY DEF ResetInv, EmptyState, TypeOK, Places, Young, LockInv, Goes, Actors, Locked, files, host
<1>4. LockInv'
  BY DEF ResetInv, EmptyState, TypeOK, Places, LockInv, Goes, Actors, Locked, Starting, host
<1>5. RecordInv'
  BY DEF ResetInv, EmptyState, TypeOK, Places, Young, LockInv, RecordInv, Goes, Actors,
     Locked, files, host
<1>6. Progress'
  BY DEF ResetInv, EmptyState, TypeOK, LockInv, Progress, AtSource, AtTarget, Goes, Actors,
     Locked, files
<1>7. NoResetUnderInstance'
  BY DEF ResetInv, EmptyState, TypeOK, Places, LockInv, RecordInv, NoResetUnderInstance,
     StoreCorrupt, Goes, Actors, Locked, files, host
<1> QED
  BY <1>1, <1>2, <1>3, <1>4, <1>5, <1>6, <1>7 DEF ResetInv

\* The owner's generation advances.
LEMMA AdvanceOwnerStep ==
    ASSUME ResetInv, NEW a \in Actors, AdvanceOwner(a)
    PROVE  ResetInv'
<1>1. TypeOK'
  BY ResetAssumption DEF ResetInv, AdvanceOwner, TypeOK, Goes, Actors, Recovery, Starting,
     files, host, bounds
<1>2. Places'
  BY DEF ResetInv, AdvanceOwner, TypeOK, Places, Goes, Actors, Starting
<1>3. Young'
  BY DEF ResetInv, AdvanceOwner, TypeOK, Places, Young, LockInv, Goes, Actors, Locked, files,
     host
<1>4. LockInv'
  BY DEF ResetInv, AdvanceOwner, TypeOK, Places, LockInv, Goes, Actors, Locked, Starting, host
<1>5. RecordInv'
  BY DEF ResetInv, AdvanceOwner, TypeOK, Places, Young, LockInv, RecordInv, Goes, Actors,
     Locked, files, host
<1>6. Progress'
  BY DEF ResetInv, AdvanceOwner, TypeOK, LockInv, Progress, AtSource, AtTarget, Goes, Actors,
     Locked, files
<1>7. NoResetUnderInstance'
  BY DEF ResetInv, AdvanceOwner, TypeOK, Places, LockInv, RecordInv, NoResetUnderInstance,
     StoreCorrupt, Goes, Actors, Locked, files, host
<1> QED
  BY <1>1, <1>2, <1>3, <1>4, <1>5, <1>6, <1>7 DEF ResetInv

\* The trash is removed.
LEMMA PurgeTrashStep ==
    ASSUME ResetInv, NEW a \in Actors, PurgeTrash(a)
    PROVE  ResetInv'
<1>1. TypeOK'
  <2>1. FileTypes'
    BY DEF ResetInv, PurgeTrash, Goes, files, host, bounds, TypeOK, FileTypes
  <2>2. FlagTypes'
    BY Zenon DEF ResetInv, PurgeTrash, Goes, files, host, bounds, TypeOK, FlagTypes
  <2>3. HostTypes'
    BY ResetAssumption DEF ResetInv, PurgeTrash, Goes, files, host, bounds, TypeOK, HostTypes,
       Actors
  <2>4. PlaceTypes'
    BY DEF ResetInv, PurgeTrash, Goes, files, host, bounds, TypeOK, PlaceTypes, Actors,
       Recovery, Starting
  <2> QED
    BY <2>1, <2>2, <2>3, <2>4 DEF TypeOK, FileTypes, FlagTypes, HostTypes, PlaceTypes
<1>2. Places'
  BY DEF ResetInv, PurgeTrash, TypeOK, Places, Goes, Actors, Starting
<1>3. Young'
  BY DEF ResetInv, PurgeTrash, TypeOK, Places, Young, LockInv, Goes, Actors, Locked, files, host
<1>4. LockInv'
  BY DEF ResetInv, PurgeTrash, TypeOK, Places, LockInv, Goes, Actors, Locked, Starting, host
<1>5. RecordInv'
  BY DEF ResetInv, PurgeTrash, TypeOK, Places, Young, LockInv, RecordInv, Goes, Actors,
     Locked, files, host
<1>6. Progress'
  BY DEF ResetInv, PurgeTrash, TypeOK, LockInv, Progress, AtSource, AtTarget, Goes, Actors,
     Locked, files
<1>7. NoResetUnderInstance'
  BY DEF ResetInv, PurgeTrash, TypeOK, Places, LockInv, RecordInv, NoResetUnderInstance,
     StoreCorrupt, Goes, Actors, Locked, files, host
<1> QED
  BY <1>1, <1>2, <1>3, <1>4, <1>5, <1>6, <1>7 DEF ResetInv

\* The intent goes last.
LEMMA RemoveIntentStep ==
    ASSUME ResetInv, NEW a \in Actors, RemoveIntent(a)
    PROVE  ResetInv'
<1>1. TypeOK'
  BY ResetAssumption DEF ResetInv, RemoveIntent, TypeOK, Goes, Actors, Recovery, Starting,
     files, host, bounds
<1>2. Places'
  BY DEF ResetInv, RemoveIntent, TypeOK, Places, Goes, Actors, Starting
<1>3. Young'
  BY DEF ResetInv, RemoveIntent, TypeOK, Places, Young, LockInv, Goes, Actors, Locked, files,
     host
<1>4. LockInv'
  BY DEF ResetInv, RemoveIntent, TypeOK, Places, LockInv, Goes, Actors, Locked, Starting, host
<1>5. RecordInv'
  BY DEF ResetInv, RemoveIntent, TypeOK, Places, Young, LockInv, RecordInv, Progress,
     NoResetUnderInstance, StoreCorrupt, OwnerCorrupt, AtSource, AtTarget, Actors, Recovery,
     Starting, Locked, files, host, bounds, Goes
<1>6. Progress'
  BY DEF ResetInv, RemoveIntent, TypeOK, LockInv, Progress, AtSource, AtTarget, Goes, Actors,
     Locked, files
<1>7. NoResetUnderInstance'
  BY DEF ResetInv, RemoveIntent, TypeOK, Places, LockInv, RecordInv, NoResetUnderInstance,
     StoreCorrupt, Goes, Actors, Locked, files, host
<1> QED
  BY <1>1, <1>2, <1>3, <1>4, <1>5, <1>6, <1>7 DEF ResetInv

\* A file operation of a recovery fails.
LEMMA StepFailsStep ==
    ASSUME ResetInv, NEW a \in Actors, StepFails(a)
    PROVE  ResetInv'
<1>1. TypeOK'
  BY ResetAssumption DEF ResetInv, StepFails, Fails, TypeOK, Goes, Actors, Recovery, Starting,
     files, host, bounds
<1>2. Places'
  BY DEF ResetInv, StepFails, Fails, TypeOK, Places, Goes, Actors, Starting
<1>3. Young'
  BY DEF ResetInv, StepFails, Fails, TypeOK, Places, Young, LockInv, Goes, Actors, Locked,
     files, host
<1>4. LockInv'
  BY DEF ResetInv, StepFails, Fails, TypeOK, Places, LockInv, Goes, Actors, Locked, Starting,
     host
<1>5. RecordInv'
  BY DEF ResetInv, StepFails, Fails, TypeOK, Places, Young, LockInv, RecordInv, Goes, Actors,
     Locked, files, host
<1>6. Progress'
  BY DEF ResetInv, StepFails, Fails, TypeOK, LockInv, Progress, AtSource, AtTarget, Goes,
     Actors, Locked, files
<1>7. NoResetUnderInstance'
  BY DEF ResetInv, StepFails, Fails, TypeOK, Places, LockInv, RecordInv, NoResetUnderInstance,
     StoreCorrupt, Goes, Actors, Locked, files, host
<1> QED
  BY <1>1, <1>2, <1>3, <1>4, <1>5, <1>6, <1>7 DEF ResetInv

\* Initialize fails in the middle of a file.
LEMMA InitializeFailsStep ==
    ASSUME ResetInv, InitializeFails
    PROVE  ResetInv'
<1>1. TypeOK'
  BY ResetAssumption DEF ResetInv, InitializeFails, TypeOK, Goes, Actors, Recovery, Starting,
     files, host, bounds
<1>2. Places'
  BY DEF ResetInv, InitializeFails, TypeOK, Places, Goes, Actors, Starting
<1>3. Young'
  BY DEF ResetInv, InitializeFails, TypeOK, Places, Young, LockInv, Goes, Actors, Locked,
     files, host
<1>4. LockInv'
  BY DEF ResetInv, InitializeFails, TypeOK, Places, LockInv, Goes, Actors, Locked, Starting,
     host
<1>5. RecordInv'
  BY DEF ResetInv, InitializeFails, TypeOK, Places, Young, LockInv, RecordInv, Goes, Actors,
     Locked, files, host
<1>6. Progress'
  BY DEF ResetInv, InitializeFails, TypeOK, Places, Young, LockInv, RecordInv, Progress,
     NoResetUnderInstance, StoreCorrupt, OwnerCorrupt, AtSource, AtTarget, Actors, Recovery,
     Starting, Locked, files, host, bounds, Goes
<1>7. NoResetUnderInstance'
  BY DEF ResetInv, InitializeFails, TypeOK, Places, Young, LockInv, RecordInv, Progress,
     NoResetUnderInstance, StoreCorrupt, OwnerCorrupt, AtSource, AtTarget, Actors, Recovery,
     Starting, Locked, files, host, bounds, Goes
<1> QED
  BY <1>1, <1>2, <1>3, <1>4, <1>5, <1>6, <1>7 DEF ResetInv

\* The process dies between any two steps.
LEMMA CrashStep ==
    ASSUME ResetInv, Crash
    PROVE  ResetInv'
<1>1. TypeOK'
  <2>1. FileTypes'
    BY DEF ResetInv, Crash, Goes, files, host, bounds, TypeOK, FileTypes
  <2>2. FlagTypes'
    BY Zenon DEF ResetInv, Crash, Goes, files, host, bounds, TypeOK, FlagTypes
  <2>3. HostTypes'
    BY ResetAssumption DEF ResetInv, Crash, Goes, files, host, bounds, TypeOK, HostTypes, Actors
  <2>4. PlaceTypes'
    BY DEF ResetInv, Crash, Goes, files, host, bounds, TypeOK, PlaceTypes, Actors, Recovery,
       Starting
  <2> QED
    BY <2>1, <2>2, <2>3, <2>4 DEF TypeOK, FileTypes, FlagTypes, HostTypes, PlaceTypes
<1>2. Places'
  BY DEF ResetInv, Crash, TypeOK, Places, Goes, Actors, Starting
<1>3. Young'
  BY DEF ResetInv, Crash, TypeOK, Places, Young, LockInv, Goes, Actors, Locked, files, host
<1>4. LockInv'
  BY DEF ResetInv, Crash, TypeOK, Places, LockInv, Goes, Actors, Locked, Starting, host
<1>5. RecordInv'
  BY DEF ResetInv, Crash, TypeOK, Places, Young, LockInv, RecordInv, Goes, Actors, Locked,
     files, host
<1>6. Progress'
  BY DEF ResetInv, Crash, TypeOK, LockInv, Progress, AtSource, AtTarget, Goes, Actors, Locked,
     files
<1>7. NoResetUnderInstance'
  BY DEF ResetInv, Crash, TypeOK, Places, LockInv, RecordInv, NoResetUnderInstance,
     StoreCorrupt, Goes, Actors, Locked, files, host
<1> QED
  BY <1>1, <1>2, <1>3, <1>4, <1>5, <1>6, <1>7 DEF ResetInv

-----------------------------------------------------------------------------
\* The invariant holds before the first start.
LEMMA InitHolds == Init => ResetInv
<1> SUFFICES ASSUME Init PROVE ResetInv
  OBVIOUS
<1>1. TypeOK
  <2>1. FileTypes /\ HostTypes
    BY ResetAssumption DEF Init, FileTypes, HostTypes, Actors
  <2>2. FlagTypes
    BY Zenon DEF Init, FlagTypes
  <2>3. PlaceTypes
    BY DEF Init, PlaceTypes
  <2> QED
    BY <2>1, <2>2, <2>3 DEF TypeOK, FileTypes, FlagTypes, HostTypes, PlaceTypes
<1>2. Places /\ Young
  BY DEF Init, Places, Young, Actors, Starting
<1>3. LockInv /\ RecordInv /\ Progress
  BY DEF Init, LockInv, RecordInv, Progress, Actors, Locked
<1>4. NoResetUnderInstance
  BY DEF Init, NoResetUnderInstance
<1> QED
  BY <1>1, <1>2, <1>3, <1>4 DEF ResetInv

\* Every step of Next, and a step that changes nothing, preserves it.
LEMMA NextHolds == ASSUME ResetInv, [Next]_vars PROVE ResetInv'
<1>1. CASE BeginStart
  BY <1>1, BeginStartStep
<1>2. CASE StartStep
  BY <1>2, InitializeOwnerStep, InitializeStateStep, ReadOwnerStep, AcquireLifetimeStep,
     ActivateStep DEF StartStep
<1>3. CASE AdmitWork \/ SettleWork \/ DropLease
  BY <1>3, AdmitWorkStep, SettleWorkStep, DropLeaseStep
<1>4. CASE BeginReset
  BY <1>4, BeginResetStep
<1>5. CASE RecordStep \/ RecordFails
  BY <1>5, ProveIdleStep, RecordIntentStep, ReleaseHostStep, RecordFailsStep DEF RecordStep
<1>6. ASSUME NEW a \in Actors, RecoverStep(a) PROVE ResetInv'
  BY <1>6, AwaitReleaseStep, LockResetStep, MoveArtifactsStep, EmptyStateStep,
     AdvanceOwnerStep, PurgeTrashStep, RemoveIntentStep DEF RecoverStep
<1>7. ASSUME NEW a \in Actors, StepFails(a) PROVE ResetInv'
  BY <1>7, StepFailsStep
<1>8. CASE InitializeFails \/ Crash
  BY <1>8, InitializeFailsStep, CrashStep
<1>9. CASE UNCHANGED vars
  BY <1>9 DEF vars, ResetInv, TypeOK, Places, Young, LockInv, RecordInv, Progress,
     NoResetUnderInstance, StoreCorrupt, AtSource, AtTarget
<1> QED
  BY <1>1, <1>2, <1>3, <1>4, <1>5, <1>6, <1>7, <1>8, <1>9 DEF Next

\* The inductive invariant of start and reset (activate_app_host, record_reset_intent and
\* recover_confirmed_reset over the files of the canonical store).
THEOREM ResetInductive == Spec => []ResetInv
BY InitHolds, NextHolds, PTL DEF Spec

\* NoResetUnderInstance for any number of generations, failures and crashes: while an
\* instance holds runtime-live.lock no step of a reset touches a file under it, and the
\* owner is the one its starter read.
THEOREM InstanceUndisturbed == Spec => []NoResetUnderInstance
<1>1. ResetInv => NoResetUnderInstance
  BY DEF ResetInv
<1> QED
  BY <1>1, ResetInductive, PTL

-----------------------------------------------------------------------------
\* A valid intent goes in one action only, the last of a recovery.
LEMMA OnlyRemoveIntent ==
    ASSUME ResetInv, [Next]_vars, intent.file = "valid", intent'.file = "absent"
    PROVE  \E a \in Actors : RemoveIntent(a)
<1>1. CASE BeginStart \/ InitializeOwner \/ InitializeState \/ ReadOwner \/ AcquireLifetime
           \/ Activate \/ AdmitWork \/ SettleWork \/ DropLease
  BY <1>1 DEF BeginStart, InitializeOwner, InitializeState, ReadOwner, AcquireLifetime,
     Activate, AdmitWork, SettleWork, DropLease, files
<1>2. CASE BeginReset \/ ProveIdle \/ ReleaseHost \/ InitializeFails
  BY <1>2 DEF BeginReset, ProveIdle, ReleaseHost, InitializeFails, files
<1>3. CASE RecordIntent \/ RecordFails
  BY <1>3 DEF RecordIntent, RecordFails, ResetInv, RecordInv
<1>4. ASSUME NEW a \in Actors, RecoverStep(a) \/ StepFails(a), ~RemoveIntent(a) PROVE FALSE
  BY <1>4 DEF RecoverStep, StepFails, AwaitRelease, LockReset, MoveArtifacts, EmptyState,
     AdvanceOwner, PurgeTrash, files
<1>5. CASE Crash
  BY <1>5 DEF Crash
<1>6. CASE UNCHANGED vars
  BY <1>6 DEF vars
<1> QED
  BY <1>1, <1>2, <1>3, <1>4, <1>5, <1>6 DEF Next, StartStep, RecordStep

\* EndsComplete for any number of crashes and attempts of both actors: the step that
\* removes the intent (the last of recover_confirmed_reset) finds the store empty, the
\* artifacts and the trash gone and the owner exactly one generation further.
THEOREM ResetEndsComplete == Spec => EndsComplete
<1>1. ASSUME ResetInv, [Next]_vars, intent.file = "valid", intent'.file = "absent"
      PROVE  /\ state' = "empty" /\ ~artifacts' /\ ~trash'
             /\ owner'.generation = intent.source + 1
  <2>1. PICK a \in Actors : RemoveIntent(a)
    BY <1>1, OnlyRemoveIntent
  <2>2. pc[a] = "remove" /\ UNCHANGED <<owner, state, artifacts, trash>>
    BY <2>1 DEF RemoveIntent
  <2>3. state = "empty" /\ ~artifacts /\ ~trash /\ AtTarget
    BY <1>1, <2>2 DEF ResetInv, Progress
  <2> QED
    BY <2>2, <2>3 DEF AtTarget
<1> QED
  BY <1>1, ResetInductive, PTL DEF Spec, EndsComplete
=============================================================================
