----------------------------- MODULE Store_proofs -----------------------------
(***************************************************************************)
(* What holds of the canonical store: of its two writers, for every set of *)
(* executions and artifacts, every limit and any number of failures, and   *)
(* of its memory of requests, for every window, limit, set of requests and *)
(* set of Tasks, when clients do not use a request id again (with ReuseIds *)
(* the run MCRequestRetention_reuse shows that NeverCorrupt fails).        *)
(***************************************************************************)
EXTENDS StateStore, RequestRetention, FiniteSetTheorems, WellFoundedInduction, TLAPS

(***************************************************************************)
(* The two writers.                                                        *)
(***************************************************************************)

\* A commit of the core whose revision is still the store's was made of the part the store
\* holds: whatever changed since then moved the revision on.
CoreInv ==
    /\ core.at <= revision
    /\ core.pc = "commit" /\ core.at = revision => core.view = execs

\* What the port has under way is answered to nobody yet, its bytes are there before its
\* record, and what it is about to delete has no record any more.
PortInv ==
    /\ answered \subseteq handed
    /\ port.ref \notin answered
    /\ port.ref # NoArtifact => port.ref \in handed
    /\ port.pc = "delete" => port.evict \cap answered = {}
    /\ port.pc \in {"write", "record", "undo"} => port.ref \in Artifacts
    /\ port.pc = "record" => port.ref \in bytes

StInv == StTypeOK /\ CoreInv /\ PortInv /\ PublishedIsReadable

Tries == 0..(CommitAttempts - 1)
CoreStates == [pc : {"idle", "commit", "reload"}, view : PartOf, candidate : PartOf,
               at : Nat, tries : Tries]
PortStates == [pc : {"idle", "evict", "delete", "write", "record", "undo"},
               exec : Execs \cup {NoExec}, ref : Artifacts \cup {NoArtifact},
               evict : SUBSET Artifacts, at : Nat, tries : Tries]
Records == [Artifacts -> [exec : Execs \cup {NoExec}, made : Nat]]

-----------------------------------------------------------------------------
\* Attempts are counted from 0, and another one is made only below the limit.
LEMMA Attempt ==
  /\ 0 \in Tries
  /\ \A n \in Tries : n + 1 < CommitAttempts => n + 1 \in Tries
BY StoreAssumption DEF Tries

\* The two writers at rest.
LEMMA Idle ==
  /\ IdleCore \in CoreStates
  /\ IdlePort \in PortStates
  /\ IdlePort.ref = NoArtifact /\ IdlePort.pc = "idle" /\ IdleCore.pc = "idle" /\ IdleCore.at = 0
BY StoreAssumption, Attempt DEF IdleCore, IdlePort, NoneYet, PartOf, CoreStates, PortStates

\* A change a handler makes is a part again.
LEMMA ChangesTyped ==
  ASSUME NEW ts \in PartOf
  PROVE  Changes(ts) \subseteq PartOf
BY DEF Changes, PartOf

\* An eviction is planned of artifacts.
LEMMA PlansTyped ==
  ASSUME StTypeOK
  PROVE  Plans \subseteq SUBSET Artifacts
<1>1. Eligible \subseteq Artifacts
  BY DEF Eligible, StTypeOK
<1>2. ASSUME NEW p \in Plans PROVE p \subseteq Artifacts
  <2>1. PICK old \in SUBSET (Eligible \cap (manifest \ expired)) :
          p = (manifest \cap expired) \cup old
    BY <1>2 DEF Plans
  <2> QED
    BY <1>1, <2>1 DEF StTypeOK
<1> QED
  BY <1>2

\* A failure is within the bound.
LEMMA FaultTyped ==
  ASSUME StTypeOK, Faulty
  PROVE  stFaults' \in 0..MaxStFaults
BY StoreAssumption DEF StTypeOK, Faulty

\* The parts of the invariant, as a step has to establish them.
LEMMA Together ==
  ASSUME StInv,
         revision' \in Nat, execs' \in PartOf, manifest' \subseteq Artifacts,
         bytes' \subseteq Artifacts, record' \in Records,
         core' \in CoreStates, port' \in PortStates, stFaults' \in 0..MaxStFaults,
         expired' \subseteq Artifacts, answered' \subseteq Artifacts, handed' \subseteq Artifacts,
         CoreInv', PortInv', PublishedIsReadable'
  PROVE  StInv'
BY DEF StInv, StTypeOK, CoreStates, PortStates, Records, Tries

-----------------------------------------------------------------------------
\* The Runtime's commits leave the port, the manifest and the bytes alone.
LEMMA CoreSteps ==
  ASSUME StInv, CoreLoad \/ CoreCommit \/ CoreReload
  PROVE  StInv'
<1> USE StoreAssumption
<1>1. /\ revision \in Nat /\ execs \in PartOf /\ core \in CoreStates
      /\ core.at <= revision
      /\ core.pc = "commit" /\ core.at = revision => core.view = execs
  BY DEF StInv, StTypeOK, CoreInv, CoreStates, Tries
<1>2. /\ port' = port /\ bytes' = bytes /\ manifest' = manifest /\ record' = record
      /\ expired' = expired /\ handed' = handed /\ answered' = answered
  BY DEF CoreLoad, CoreCommit, CoreReload, CoreStores, store
<1>3. stFaults' \in 0..MaxStFaults
  BY FaultTyped DEF StInv, StTypeOK, CoreLoad, CoreCommit, CoreReload
<1>4. revision' \in Nat /\ execs' \in PartOf /\ core' \in CoreStates /\ CoreInv'
  <2>1. CASE CoreLoad
    <3>1. PICK candidate \in Changes(execs) :
            core' = [pc |-> "commit", view |-> execs, candidate |-> candidate,
                     at |-> revision, tries |-> 0]
      BY <2>1 DEF CoreLoad
    <3>2. revision' = revision /\ execs' = execs /\ candidate \in PartOf
      BY <1>1, <2>1, ChangesTyped DEF CoreLoad, store
    <3> QED
      BY <1>1, <3>1, <3>2, Attempt DEF CoreInv, CoreStates
  <2>2. CASE CoreCommit
    <3>1. CASE core' = IdleCore
      <4>1. /\ revision' \in {revision, revision + 1}
            /\ execs' \in {execs, core.candidate}
        BY <2>2 DEF CoreCommit, CoreStores, store
      <4>2. core.candidate \in PartOf
        BY <1>1 DEF CoreStates
      <4> QED
        BY <1>1, <3>1, <4>1, <4>2, Idle DEF CoreInv
    <3>2. CASE core' = [core EXCEPT !.pc = "reload"] /\ UNCHANGED store
      BY <1>1, <3>2 DEF CoreInv, CoreStates, store
    <3> QED
      BY <2>2, <3>1, <3>2 DEF CoreCommit, CoreDone
  <2>3. CASE CoreReload
    <3>1. revision' = revision /\ execs' = execs
      BY <2>3 DEF CoreReload, store
    <3>2. CASE core' = IdleCore
      BY <1>1, <3>1, <3>2, Idle DEF CoreInv
    <3>3. CASE /\ execs = core.view /\ core.tries + 1 < CommitAttempts
               /\ core' = [core EXCEPT !.pc = "commit", !.at = revision, !.tries = @ + 1]
      <4>1. core.tries + 1 \in Tries
        BY <1>1, <3>3, Attempt DEF CoreStates
      <4>2. core' \in CoreStates
        BY <1>1, <3>3, <4>1 DEF CoreStates
      <4> QED
        BY <1>1, <3>1, <3>3, <4>2 DEF CoreInv, CoreStates
    <3> QED
      BY <2>3, <3>2, <3>3 DEF CoreReload, CoreDone
  <2> QED
    BY <2>1, <2>2, <2>3
<1>5. PortInv' /\ PublishedIsReadable'
  BY <1>2 DEF StInv, PortInv, PublishedIsReadable
<1> QED
  BY <1>2, <1>3, <1>4, <1>5, Together DEF StInv, StTypeOK, Records, PortStates, Tries

\* What the port does to the core: its commits move the revision on, and nothing else.
LEMMA PortLeavesCore ==
  ASSUME StInv, core' = core, execs' = execs, revision' \in {revision, revision + 1}
  PROVE  revision' \in Nat /\ execs' \in PartOf /\ core' \in CoreStates /\ CoreInv'
<1>1. revision \in Nat /\ core.at \in Nat /\ core \in CoreStates
  BY DEF StInv, StTypeOK, CoreStates, Tries
<1> QED
  BY <1>1 DEF StInv, StTypeOK, CoreInv, CoreStates

-----------------------------------------------------------------------------
\* A publication plans what it evicts.
LEMMA BeginPublishStep ==
  ASSUME StInv, NEW e \in Execs \cup {NoExec}, NEW a \in Artifacts, BeginPublish(e, a)
  PROVE  StInv'
<1> USE StoreAssumption
<1>1. PICK evict \in Plans :
        port' = [pc |-> IF evict = {} THEN "write" ELSE "evict", exec |-> e, ref |-> a,
                 evict |-> evict, at |-> revision, tries |-> 0]
  BY DEF BeginPublish
<1>2. evict \subseteq Artifacts
  BY PlansTyped DEF StInv
<1>3. port' \in PortStates
  BY <1>1, <1>2, Attempt DEF PortStates, StInv, StTypeOK
<1>4. /\ handed' = handed \cup {a} /\ a \notin handed /\ bytes' = bytes /\ answered' = answered
      /\ core' = core /\ UNCHANGED store /\ stFaults' = stFaults /\ expired' = expired
  BY DEF BeginPublish
<1>5. PortInv' /\ PublishedIsReadable'
  BY <1>1, <1>4 DEF StInv, PortInv, PublishedIsReadable
<1> QED
  BY <1>3, <1>4, <1>5, PortLeavesCore, Together DEF StInv, StTypeOK, Records, store

\* A deletion is an eviction of one.
LEMMA BeginDeleteStep ==
  ASSUME StInv, NEW a \in Artifacts, BeginDelete(a)
  PROVE  StInv'
<1> USE StoreAssumption
<1>1. port' = [IdlePort EXCEPT !.pc = "evict", !.evict = {a}, !.at = revision]
  BY DEF BeginDelete
<1>2. port' \in PortStates /\ port'.ref = NoArtifact /\ port'.pc = "evict"
  BY <1>1, Attempt DEF IdlePort, PortStates, StInv, StTypeOK
<1>3. /\ handed' = handed /\ bytes' = bytes /\ answered' = answered
      /\ core' = core /\ UNCHANGED store /\ stFaults' = stFaults /\ expired' = expired
  BY DEF BeginDelete
<1>4. PortInv' /\ PublishedIsReadable'
  BY <1>2, <1>3 DEF StInv, StTypeOK, PortInv, PublishedIsReadable
<1> QED
  BY <1>2, <1>3, <1>4, PortLeavesCore, Together DEF StInv, StTypeOK, Records, store

\* After a lost race the port makes the same plan again or ends.
LEMMA RetriesTyped ==
  ASSUME StInv, NEW ended \in PortStates, Retries(ended)
  PROVE  /\ port' \in PortStates
         /\ \/ port' = ended
            \/ port'.pc = port.pc /\ port'.ref = port.ref /\ port'.evict = port.evict
<1>1. port \in PortStates /\ revision \in Nat
  BY DEF StInv, StTypeOK, PortStates, Tries
<1>2. CASE port.tries + 1 < CommitAttempts
  <2>1. port.tries + 1 \in Tries
    BY <1>1, <1>2, Attempt DEF PortStates
  <2>2. port' = [port EXCEPT !.at = revision, !.tries = @ + 1]
    BY <1>2 DEF Retries
  <2> QED
    BY <1>1, <2>1, <2>2 DEF PortStates
<1>3. CASE ~(port.tries + 1 < CommitAttempts)
  BY <1>3 DEF Retries
<1> QED
  BY <1>2, <1>3

\* The commit that takes the planned records out.
LEMMA CommitEvictionStep ==
  ASSUME StInv, CommitEviction
  PROVE  StInv'
<1> USE StoreAssumption
<1>0. /\ port \in PortStates /\ revision \in Nat /\ record \in Records
      /\ manifest \subseteq Artifacts /\ expired \subseteq Artifacts /\ answered \subseteq Artifacts
      /\ port.pc = "evict" /\ NoArtifact \notin answered
  BY DEF StInv, StTypeOK, PortStates, Records, Tries, CommitEviction
<1>1. /\ execs' = execs /\ bytes' = bytes /\ core' = core /\ handed' = handed
      /\ revision' \in {revision, revision + 1}
  BY DEF CommitEviction, store
<1>2. stFaults' \in 0..MaxStFaults
  BY FaultTyped DEF StInv, StTypeOK, CommitEviction
<1>3. /\ manifest' \subseteq Artifacts /\ expired' \subseteq Artifacts
      /\ answered' \subseteq answered /\ record' \in Records
  <2>1. CASE UNCHANGED <<store, expired, answered>>
    BY <1>0, <2>1 DEF store
  <2>2. CASE /\ manifest' = manifest \ port.evict
             /\ record' = [a \in Artifacts |-> IF a \in port.evict THEN NoRecord ELSE record[a]]
             /\ expired' = expired \ port.evict
             /\ answered' = answered \ port.evict
    BY <1>0, <2>2 DEF NoRecord, Records
  <2> QED
    BY <2>1, <2>2 DEF CommitEviction
<1>4. /\ port' \in PortStates
      /\ \/ port' = IdlePort
         \/ port' = [port EXCEPT !.pc = "delete"] /\ answered' = answered \ port.evict
         \/ port'.pc = "evict" /\ port'.ref = port.ref
  BY <1>0, Idle, RetriesTyped DEF CommitEviction, PortStates
<1>5. PortInv'
  <2>1. CASE port' = IdlePort
    BY <1>0, <1>1, <1>3, <2>1, Idle DEF StInv, PortInv
  <2>2. CASE port' = [port EXCEPT !.pc = "delete"] /\ answered' = answered \ port.evict
    <3>1. port'.pc = "delete" /\ port'.evict = port.evict /\ port'.ref = port.ref
      BY <1>0, <2>2 DEF PortStates
    <3> QED
      BY <1>0, <1>1, <1>3, <2>2, <3>1 DEF StInv, PortInv
  <2>3. CASE port'.pc = "evict" /\ port'.ref = port.ref
    BY <1>0, <1>1, <1>3, <2>3 DEF StInv, PortInv
  <2> QED
    BY <1>4, <2>1, <2>2, <2>3
<1>6. PublishedIsReadable'
  BY <1>1, <1>3 DEF StInv, PublishedIsReadable
<1>7. bytes' \subseteq Artifacts /\ handed' \subseteq Artifacts /\ answered' \subseteq Artifacts
  BY <1>0, <1>1, <1>3 DEF StInv, StTypeOK
<1> QED
  BY <1>1, <1>2, <1>3, <1>4, <1>5, <1>6, <1>7, PortLeavesCore, Together

\* The bytes of what was evicted go after their records.
LEMMA DeleteEvictedStep ==
  ASSUME StInv, DeleteEvicted
  PROVE  StInv'
<1> USE StoreAssumption
<1>0. /\ port \in PortStates /\ revision \in Nat /\ port.pc = "delete"
      /\ NoArtifact \notin answered /\ bytes \subseteq Artifacts
      /\ port.evict \cap answered = {} /\ answered \subseteq bytes
      /\ answered \subseteq handed /\ port.ref \notin answered
      /\ port.ref # NoArtifact => port.ref \in handed
  BY DEF StInv, StTypeOK, PortStates, Tries, PortInv, PublishedIsReadable, DeleteEvicted
<1>1. /\ UNCHANGED store /\ core' = core /\ handed' = handed /\ expired' = expired
      /\ answered' = answered
  BY DEF DeleteEvicted
<1>2. stFaults' \in 0..MaxStFaults
  BY FaultTyped DEF StInv, StTypeOK, DeleteEvicted
<1>3. PICK gone \in SUBSET port.evict : bytes' = bytes \ gone
  BY DEF DeleteEvicted
<1>4. PublishedIsReadable' /\ bytes' \subseteq Artifacts
  BY <1>0, <1>1, <1>3 DEF PublishedIsReadable
<1>5. \/ port' = IdlePort
      \/ port.ref # NoArtifact /\ port' = [port EXCEPT !.pc = "write", !.at = revision, !.tries = 0]
  BY DEF DeleteEvicted
<1>6. port' \in PortStates /\ PortInv'
  <2>1. CASE port' = IdlePort
    BY <1>0, <1>1, <2>1, Idle DEF PortInv
  <2>2. CASE port.ref # NoArtifact /\ port' = [port EXCEPT !.pc = "write", !.at = revision, !.tries = 0]
    <3>1. port' \in PortStates /\ port'.pc = "write" /\ port'.ref = port.ref /\ port.ref \in Artifacts
      BY <1>0, <2>2, Attempt DEF PortStates
    <3> QED
      BY <1>0, <1>1, <3>1 DEF PortInv
  <2> QED
    BY <1>5, <2>1, <2>2
<1> QED
  BY <1>1, <1>2, <1>4, <1>6, PortLeavesCore, Together DEF StInv, StTypeOK, Records, store

\* The bytes are there before the record is.
LEMMA WriteBytesStep ==
  ASSUME StInv, WriteBytes
  PROVE  StInv'
<1> USE StoreAssumption
<1>0. /\ port \in PortStates /\ port.pc = "write" /\ port.ref \in Artifacts
      /\ NoArtifact \notin answered /\ bytes \subseteq Artifacts /\ answered \subseteq bytes
      /\ answered \subseteq handed /\ port.ref \notin answered
      /\ port.ref # NoArtifact => port.ref \in handed
  BY DEF StInv, StTypeOK, PortStates, Tries, PortInv, PublishedIsReadable, WriteBytes
<1>1. /\ UNCHANGED store /\ core' = core /\ handed' = handed /\ expired' = expired
      /\ answered' = answered
  BY DEF WriteBytes
<1>2. stFaults' \in 0..MaxStFaults
  BY FaultTyped DEF StInv, StTypeOK, WriteBytes
<1>3. PublishedIsReadable' /\ bytes' \subseteq Artifacts
  BY <1>0, <1>1 DEF WriteBytes, PublishedIsReadable
<1>4. CASE port' = IdlePort
  <2>1. port' \in PortStates /\ PortInv'
    BY <1>0, <1>1, <1>4, Idle DEF PortInv
  <2> QED
    BY <1>1, <1>2, <1>3, <2>1, PortLeavesCore, Together DEF StInv, StTypeOK, Records, store
<1>5. CASE bytes' = bytes \cup {port.ref} /\ port' = [port EXCEPT !.pc = "record"]
  <2>1. port' \in PortStates /\ port'.pc = "record" /\ port'.ref = port.ref
    BY <1>0, <1>5 DEF PortStates
  <2>2. PortInv'
    BY <1>0, <1>1, <1>5, <2>1 DEF PortInv
  <2> QED
    BY <1>1, <1>2, <1>3, <2>1, <2>2, PortLeavesCore, Together DEF StInv, StTypeOK, Records, store
<1> QED
  BY <1>4, <1>5 DEF WriteBytes

\* The commit of the record: only now is the publisher told.
LEMMA CommitRecordStep ==
  ASSUME StInv, CommitRecord
  PROVE  StInv'
<1> USE StoreAssumption
<1>0. /\ port \in PortStates /\ port.pc = "record" /\ port.ref \in Artifacts /\ port.ref \in bytes
      /\ revision \in Nat /\ record \in Records /\ manifest \subseteq Artifacts
      /\ NoArtifact \notin answered /\ NoArtifact \notin Artifacts /\ answered \subseteq bytes
      /\ answered \subseteq handed /\ port.ref \notin answered
      /\ port.ref # NoArtifact => port.ref \in handed /\ bytes \subseteq Artifacts
  BY DEF StInv, StTypeOK, PortStates, Records, Tries, PortInv, PublishedIsReadable, CommitRecord
<1>1. /\ bytes' = bytes /\ core' = core /\ handed' = handed /\ expired' = expired /\ execs' = execs
      /\ revision' \in {revision, revision + 1}
  BY DEF CommitRecord, RecordStored, store
<1>2. stFaults' \in 0..MaxStFaults
  BY FaultTyped DEF StInv, StTypeOK, CommitRecord
<1>3. manifest' \subseteq Artifacts /\ record' \in Records
  <2>1. CASE UNCHANGED store
    BY <1>0, <2>1 DEF store
  <2>2. CASE RecordStored
    BY <1>0, <2>2 DEF RecordStored, Records, PortStates
  <2> QED
    BY <2>1, <2>2 DEF CommitRecord
<1>4. CASE port' = IdlePort /\ answered' = answered \cup {port.ref}
  <2>1. /\ answered' \subseteq bytes /\ answered' \subseteq Artifacts
        /\ NoArtifact \notin answered'
    BY <1>0, <1>4
  <2>2. port.ref \in handed => answered' \subseteq handed'
    BY <1>0, <1>1, <1>4
  <2>3. port.ref \in handed
    BY <1>0
  <2>4. port' \in PortStates /\ PortInv' /\ PublishedIsReadable'
    BY <1>1, <1>4, <2>1, <2>2, <2>3, Idle DEF PortInv, PublishedIsReadable
  <2> QED
    BY <1>1, <1>2, <1>3, <2>1, <2>4, PortLeavesCore, Together DEF StInv, StTypeOK
<1>5. CASE answered' = answered /\ port' \in PortStates /\ port'.ref = port.ref
           /\ port'.pc \in {"record", "undo"}
  <2>1. PortInv' /\ PublishedIsReadable'
    BY <1>0, <1>1, <1>5 DEF PortInv, PublishedIsReadable
  <2> QED
    BY <1>1, <1>2, <1>3, <1>5, <2>1, PortLeavesCore, Together DEF StInv, StTypeOK
<1>6. /\ [port EXCEPT !.pc = "undo"] \in PortStates
      /\ [port EXCEPT !.pc = "undo"].ref = port.ref /\ [port EXCEPT !.pc = "undo"].pc = "undo"
  BY <1>0 DEF PortStates
<1> QED
  BY <1>0, <1>4, <1>5, <1>6, RetriesTyped DEF CommitRecord

\* The undoing of bytes, the clock, a crash, and a step that changes nothing.
LEMMA RestSteps ==
  ASSUME StInv, UndoBytes \/ (\E a \in Artifacts : Expires(a)) \/ Crash \/ UNCHANGED stVars
  PROVE  StInv'
<1> USE StoreAssumption
<1>0. /\ port \in PortStates /\ NoArtifact \notin answered /\ core \in CoreStates
      /\ revision \in Nat /\ bytes \subseteq Artifacts
  BY DEF StInv, StTypeOK, PortStates, Tries, CoreStates
<1>1. CASE UndoBytes
  <2>1. bytes' \subseteq Artifacts /\ PublishedIsReadable'
    BY <1>0, <1>1 DEF UndoBytes, StInv, PortInv, PublishedIsReadable
  <2>2. port' \in PortStates /\ PortInv'
    BY <1>0, <1>1, Idle DEF UndoBytes, StInv, PortInv
  <2> QED
    BY <1>1, <2>1, <2>2, PortLeavesCore, Together DEF UndoBytes, StInv, StTypeOK, Records, store
<1>2. CASE \E a \in Artifacts : Expires(a)
  <2>1. expired' \subseteq Artifacts /\ UNCHANGED <<store, bytes, core, port, stFaults, handed, answered>>
    BY <1>2 DEF Expires, StInv, StTypeOK
  <2>2. port' \in PortStates /\ PortInv' /\ PublishedIsReadable'
    BY <1>0, <2>1 DEF StInv, PortInv, PublishedIsReadable
  <2> QED
    BY <2>1, <2>2, PortLeavesCore, Together DEF StInv, StTypeOK, Records, store
<1>3. CASE Crash
  <2>1. port' \in PortStates /\ PortInv' /\ PublishedIsReadable'
    BY <1>0, <1>3, Idle DEF Crash, StInv, PortInv, PublishedIsReadable
  <2>2. core' \in CoreStates /\ CoreInv'
    BY <1>0, <1>3, Idle DEF Crash, CoreInv, store
  <2> QED
    BY <1>3, <2>1, <2>2, Together DEF Crash, StInv, StTypeOK, Records, store
<1>4. CASE UNCHANGED stVars
  BY <1>4 DEF stVars, StInv, StTypeOK, CoreInv, PortInv, PublishedIsReadable
<1> QED
  BY <1>1, <1>2, <1>3, <1>4

-----------------------------------------------------------------------------
\* The invariant of the store: StInv holds at the start, and every step of the core, of the
\* port, of the clock and every crash keeps it.
THEOREM StoreInductive == StSpec => []StInv
<1>1. StInit => StInv
  <2> SUFFICES ASSUME StInit PROVE StInv
    OBVIOUS
  <2>1. core \in CoreStates /\ port \in PortStates /\ CoreInv /\ PortInv
    BY Idle, StoreAssumption DEF StInit, CoreInv, PortInv
  <2>2. PublishedIsReadable /\ record \in Records
    BY DEF StInit, PublishedIsReadable, NoRecord, Records
  <2> QED
    BY <2>1, <2>2, StoreAssumption DEF StInit, StInv, StTypeOK, CoreStates, PortStates, Records,
       PartOf, Tries
<1>2. StInv /\ [StNext]_stVars => StInv'
  BY CoreSteps, BeginPublishStep, BeginDeleteStep, CommitEvictionStep, DeleteEvictedStep,
     WriteBytesStep, CommitRecordStep, RestSteps DEF StNext
<1> QED
  BY <1>1, <1>2, PTL DEF StSpec

\* An artifact its publisher was told of can be read as long as it has a record, for any
\* number of artifacts, evictions, failures and crashes (artifact.rs publish_kind, delete).
THEOREM Readable == StSpec => []PublishedIsReadable
<1>1. StInv => PublishedIsReadable
  BY DEF StInv
<1> QED
  BY <1>1, StoreInductive, PTL

\* Neither writer overwrites an update of the other: what the core stores was made of the
\* part that is there, and a record goes only by the eviction that planned it, for any
\* limits and any number of attempts (the rebase of runtime_port.rs, commit_manifest).
THEOREM NothingLost == StSpec => NoLostUpdate
<1> DEFINE Kept == /\ execs' # execs => execs = core.view /\ execs' = core.candidate
                   /\ manifest \ manifest' \subseteq port.evict
                   /\ revision' \in {revision, revision + 1}
<1>1. StInv /\ [StNext]_stVars => [Kept]_stVars
  <2> SUFFICES ASSUME StInv, StNext PROVE Kept
    OBVIOUS
  <2>1. CASE CoreCommit
    BY <2>1 DEF CoreCommit, CoreStores, store, StInv, CoreInv
  <2>2. CASE CommitEviction
    BY <2>2 DEF CommitEviction, store
  <2>3. CASE CommitRecord
    BY <2>3 DEF CommitRecord, RecordStored, store
  <2>4. CASE UNCHANGED store
    BY <2>4 DEF store
  <2> QED
    BY <2>1, <2>2, <2>3, <2>4 DEF StNext, CoreLoad, CoreReload, BeginPublish, BeginDelete,
       DeleteEvicted, WriteBytes, UndoBytes, Expires, Crash
<1>2. StSpec => [][Kept]_stVars
  BY <1>1, StoreInductive, PTL DEF StSpec
<1> QED
  BY <1>2 DEF NoLostUpdate

-----------------------------------------------------------------------------
(***************************************************************************)
(* The memory of requests.  What every handler must find is that a request *)
(* is in the store at most once and in one shape, that the shape agrees    *)
(* with its dedup entry, and that what a live entry stands for is there.   *)
(* A prune with an earlier clock than the store's keeps more, never less.  *)
(***************************************************************************)

DedupStates == [Requests -> [held : BOOLEAN, settled : BOOLEAN, expiry : Nat]]
TaskStates  == [TaskIds -> [state : {"absent", "open", "terminal"},
                            request : Requests \cup {NoRequest}, created : Nat, ended : Nat]]
SyncStates  == [Requests -> [state : {"absent", "open", "terminal"}, at : Nat]]

\* A candidate of a commit: what the four parts of the store hold.
Typed(ds, ts, ys, ms) ==
    ds \in DedupStates /\ ts \in TaskStates /\ ys \in SyncStates /\ ms \in SUBSET Requests

\* A request has at most one result.
Single(ts, ys, ms) ==
    \A r \in Requests :
        /\ \A i, j \in Owned(ts, r) : i = j
        /\ Owned(ts, r) # {} => ys[r].state = "absent" /\ r \notin ms
        /\ ys[r].state # "absent" => r \notin ms

\* A result agrees with the dedup entry of its request; an open one keeps its entry.
TasksMatch(ds, ts) ==
    \A i \in TaskIds : ts[i].state # "absent" =>
        /\ ts[i].request \in Requests
        /\ ts[i].state = "open" => ds[ts[i].request].held /\ ~ds[ts[i].request].settled
        /\ ts[i].state = "terminal" /\ ds[ts[i].request].held => ds[ts[i].request].settled
SyncsMatch(ds, ys) ==
    \A r \in Requests : ys[r].state # "absent" =>
        /\ ds[r].held
        /\ ys[r].state = "terminal" <=> ds[r].settled
MutationsMatch(ds, ms) == \A r \in ms : ds[r].held /\ ds[r].settled

\* What a live entry stands for is there.
Found(ds, ts, ys, ms, now) ==
    \A r \in Requests : Live(ds[r], now) =>
        Owned(ts, r) # {} \/ ys[r].state # "absent" \/ r \in ms

Sound(ds, ts, ys, ms, now) ==
    /\ Typed(ds, ts, ys, ms)
    /\ Single(ts, ys, ms)
    /\ TasksMatch(ds, ts) /\ SyncsMatch(ds, ys) /\ MutationsMatch(ds, ms)
    /\ Found(ds, ts, ys, ms, now)

\* Everything the store knows of a request or a Task was sent, or given out, before.
Known(ds, ts, ys, ms) ==
    /\ \A i \in TaskIds : ts[i].state # "absent" =>
          i \in given /\ ts[i].request \in sent /\ ts[i].created <= clock
    /\ \A r \in Requests : ds[r].held \/ ys[r].state # "absent" \/ r \in ms => r \in sent

\* The Tasks whose request the index holds, all of which some clock may find pinned.
Holding(ds, ts) == {i \in TaskIds : ts[i].state # "absent" /\ ds[ts[i].request].held}
RoomInv == Cardinality(Holding(dedup, history)) <= MaxTerminal

RrInv ==
    /\ RrTypeOK
    /\ Sound(dedup, history, syncs, mutations, clock)
    /\ Known(dedup, history, syncs, mutations)
    /\ RoomInv
    /\ NeverCorrupt

-----------------------------------------------------------------------------
(* Sets of naturals and finite sets.                                       *)

\* A set of naturals has a least element.
LEMMA LeastNat ==
  ASSUME NEW T \in SUBSET Nat, T # {}
  PROVE  \E m \in T : \A n \in T : m <= n
<1>1. PICK m \in T : \A n \in T : ~(<<n, m>> \in OpToRel(<, Nat))
  BY WFMin, NatLessThanWellFounded
<1>2. \A n \in T : ~(n < m)
  <2> SUFFICES ASSUME NEW n \in T, n < m PROVE <<n, m>> \in OpToRel(<, Nat)
    BY <1>1
  <2>1. <<n, m>> \in Nat \X Nat
    BY SMT
  <2> QED
    BY <2>1 DEF OpToRel
<1> QED
  BY <1>2

\* Of a finite set whose members have a creation time, the k oldest can be taken for every
\* k up to its size.
LEMMA OldestExist ==
  ASSUME NEW S, IsFiniteSet(S), NEW born, \A x \in S : born[x] \in Nat,
         NEW k \in Nat, k <= Cardinality(S)
  PROVE  \E s \in SUBSET S : /\ Cardinality(s) = k
                             /\ \A x \in s, y \in S \ s : born[x] <= born[y]
<1> DEFINE Takes(s, n) == /\ Cardinality(s) = n
                          /\ \A x \in s, y \in S \ s : born[x] <= born[y]
           Bad == {n \in Nat : n <= Cardinality(S) /\ ~(\E s \in SUBSET S : Takes(s, n))}
<1>1. SUFFICES ASSUME Bad # {} PROVE FALSE
  BY DEF Takes
<1>2. PICK n \in Bad : \A m \in Bad : n <= m
  BY <1>1, LeastNat
<1>3. n # 0
  <2>1. {} \in SUBSET S /\ Takes({}, 0)
    BY FS_EmptySet
  <2> QED
    BY <1>2, <2>1
<1>4. n - 1 \in Nat /\ n - 1 <= Cardinality(S) /\ n - 1 \notin Bad
  BY <1>2, <1>3, FS_CardinalityType
<1>5. PICK s \in SUBSET S : Takes(s, n - 1)
  BY <1>4
<1>6. IsFiniteSet(s) /\ S \ s # {}
  <2>1. s # S
    BY <1>2, <1>5, FS_CardinalityType
  <2> QED
    BY <2>1, FS_Subset
<1>7. PICK x \in S \ s : \A y \in S \ s : born[x] <= born[y]
  <2>1. PICK m \in {born[y] : y \in S \ s} : \A l \in {born[y] : y \in S \ s} : m <= l
    <3>1. {born[y] : y \in S \ s} \in SUBSET Nat /\ {born[y] : y \in S \ s} # {}
      BY <1>6
    <3> QED
      BY <3>1, LeastNat
  <2> QED
    BY <2>1
<1>8. s \cup {x} \in SUBSET S /\ Takes(s \cup {x}, n)
  <2>1. Cardinality(s \cup {x}) = n
    <3>1. Cardinality(s) = n - 1 /\ x \notin s /\ n \in Nat
      BY <1>2, <1>5, <1>7
    <3>2. Cardinality(s \cup {x}) = Cardinality(s) + 1
      BY <1>6, <3>1, FS_AddElement
    <3> QED
      BY <3>1, <3>2
  <2>2. \A u \in s \cup {x}, y \in S \ (s \cup {x}) : born[u] <= born[y]
    BY <1>5, <1>7
  <2> QED
    BY <2>1, <2>2
<1> QED
  BY <1>2, <1>8

-----------------------------------------------------------------------------
(* What a candidate that is Sound says to the store.                       *)

\* A request has one result or none.
LEMMA ResultsCount ==
  ASSUME NEW ts, NEW ys, NEW ms, Single(ts, ys, ms), NEW r \in Requests
  PROVE  Results(ts, ys, ms, r) =
           IF Owned(ts, r) # {} \/ ys[r].state # "absent" \/ r \in ms THEN 1 ELSE 0
<1>1. CASE Owned(ts, r) = {}
  BY <1>1, FS_EmptySet DEF Single, Results
<1>2. CASE Owned(ts, r) # {}
  <2>1. PICK i \in Owned(ts, r) : TRUE
    BY <1>2
  <2>2. Owned(ts, r) = {i}
    BY <2>1 DEF Single
  <2>3. Cardinality(Owned(ts, r)) = 1
    BY <2>2, FS_Singleton
  <2>4. ys[r].state = "absent" /\ r \notin ms
    BY <1>2 DEF Single
  <2> QED
    BY <1>2, <2>3, <2>4 DEF Results
<1> QED
  BY <1>1, <1>2

\* The store accepts it, and a live entry finds its one result.
LEMMA SoundCanonical ==
  ASSUME NEW ds, NEW ts, NEW ys, NEW ms, NEW now, Sound(ds, ts, ys, ms, now)
  PROVE  /\ Canonical(ds, ts, ys, ms)
         /\ \A r \in Requests : Live(ds[r], now) => Results(ts, ys, ms, r) = 1
<1>1. \A r \in Requests : Results(ts, ys, ms, r) <= 1
  BY ResultsCount DEF Sound
<1>2. \A r \in Requests : Live(ds[r], now) => Results(ts, ys, ms, r) = 1
  BY ResultsCount DEF Sound, Found
<1>3. ASSUME NEW r \in Requests, ds[r].held, NEW i \in Owned(ts, r)
      PROVE  (ts[i].state = "terminal") = ds[r].settled
  BY <1>3 DEF Sound, Typed, TasksMatch, Owned, TaskStates, DedupStates
<1>4. ASSUME NEW r \in Requests, ys[r].state # "absent"
      PROVE  ds[r].held /\ (ys[r].state = "terminal") = ds[r].settled
  BY <1>4 DEF Sound, Typed, SyncsMatch, DedupStates
<1>5. \A r \in ms : ds[r].held /\ ds[r].settled
  BY DEF Sound, MutationsMatch
<1> QED
  BY <1>1, <1>2, <1>3, <1>4, <1>5 DEF Canonical

\* Such a commit takes the candidate as it is.
LEMMA CommitTakes ==
  ASSUME NEW ds, NEW ts, NEW ys, NEW ms, NEW now,
         Sound(ds, ts, ys, ms, now), Commit(ds, ts, ys, ms)
  PROVE  dedup' = ds /\ history' = ts /\ syncs' = ys /\ mutations' = ms /\ corrupt' = corrupt
BY SoundCanonical DEF Commit

\* What prune_task_history removes is terminal, and its request is not live.
LEMMA PrunableIs ==
  ASSUME NEW ts, NEW ds, NEW now, NEW removed \in Prunable(ts, ds, now)
  PROVE  \A i \in removed : /\ i \in TaskIds /\ ts[i].state = "terminal"
                            /\ ~Live(ds[ts[i].request], now)
<1> DEFINE aged   == Aged(ts, ds, now)
           kept   == TerminalIds(ts) \ aged
           free   == {i \in kept : ~Pinned(ts, ds, i, now)}
<1>1. PICK old \in SUBSET free : removed = aged \cup old
  BY DEF Prunable
<1>2. \A i \in aged : i \in TerminalIds(ts) /\ ~Pinned(ts, ds, i, now)
  BY DEF Aged
<1>3. \A i \in old : i \in TerminalIds(ts) /\ ~Pinned(ts, ds, i, now)
  BY <1>1
<1> QED
  BY <1>1, <1>2, <1>3 DEF TerminalIds, Pinned

\* An entry that was dead at an earlier time is dead.
LEMMA DeadStaysDead ==
  ASSUME NEW entry, entry.expiry \in Nat, NEW now \in Nat, NEW at \in Nat, now <= at,
         ~Live(entry, now)
  PROVE  ~Live(entry, at)
BY DEF Live

\* The results without what a prune removes.
LEMMA WithoutIs ==
  ASSUME NEW ts \in TaskStates, NEW removed
  PROVE  /\ Without(ts, removed) \in TaskStates
         /\ \A i \in TaskIds : Without(ts, removed)[i] = IF i \in removed THEN NoTask ELSE ts[i]
         /\ \A i \in TaskIds : Without(ts, removed)[i].state # "absent" =>
               i \notin removed /\ Without(ts, removed)[i] = ts[i]
         /\ \A r : Owned(Without(ts, removed), r) = Owned(ts, r) \ removed
BY DEF TaskStates, Without, NoTask, Owned

\* A prune with a clock that is not ahead of the store's takes nothing a live entry needs.
LEMMA PrunedSound ==
  ASSUME NEW ds, NEW ts, NEW ys, NEW ms, NEW at \in Nat, Sound(ds, ts, ys, ms, at),
         NEW now \in Nat, now <= at, NEW removed \in Prunable(ts, ds, now)
  PROVE  Sound(ds, Without(ts, removed), ys, ms, at)
<1> DEFINE us == Without(ts, removed)
<1> HIDE DEF us
<1>1. /\ us \in TaskStates
      /\ \A i \in TaskIds : us[i].state # "absent" => i \notin removed /\ us[i] = ts[i]
      /\ \A r : Owned(us, r) = Owned(ts, r) \ removed
  BY WithoutIs DEF us, Sound, Typed
<1>2. Typed(ds, us, ys, ms)
  BY <1>1 DEF Sound, Typed
<1>3. Single(us, ys, ms)
  BY <1>1 DEF Sound, Single
<1>4. TasksMatch(ds, us)
  BY <1>1 DEF Sound, TasksMatch
<1>5. Found(ds, us, ys, ms, at)
  <2>1. ASSUME NEW r \in Requests, Live(ds[r], at), Owned(ts, r) # {}
        PROVE  Owned(us, r) # {}
    <3>1. PICK i \in Owned(ts, r) : TRUE
      BY <2>1
    <3>2. i \notin removed
      <4>1. ds[r].expiry \in Nat
        BY DEF Sound, Typed, DedupStates
      <4> QED
        BY <2>1, <3>1, <4>1, PrunableIs, DeadStaysDead DEF Owned
    <3> QED
      BY <1>1, <3>1, <3>2
  <2> QED
    BY <2>1 DEF Sound, Found
<1> QED
  BY <1>2, <1>3, <1>4, <1>5 DEF Sound, us

-----------------------------------------------------------------------------
(* The parts of the invariant that every handler restores the same way.    *)

\* A request id that is sent for the first time has left nothing in the store.
LEMMA FreshRequest ==
  ASSUME ~ReuseIds, RrInv, NEW r \in Requests, Sends(r)
  PROVE  /\ ~dedup[r].held /\ Owned(history, r) = {}
         /\ syncs[r].state = "absent" /\ r \notin mutations
         /\ sent' = sent \cup {r}
BY DEF Sends, RrInv, Known, Owned

\* What an admission leaves of the index, the synchronous results and the mutations:
\* the entries that expired, and their results.
LEMMA DropSound ==
  ASSUME RrInv
  PROVE  LET ds == DropExpired(dedup, clock)
         IN  /\ Sound(ds, history, PruneSyncs(syncs, dedup, clock),
                      PruneMutations(mutations, dedup, clock), clock)
             /\ \A r \in Requests : ds[r].held <=> Live(dedup[r], clock)
             /\ \A r \in Requests : ds[r].held => Live(ds[r], clock)
             /\ \A r \in Requests : ds[r].held => dedup[r].held
<1> DEFINE ds == DropExpired(dedup, clock)
           ys == PruneSyncs(syncs, dedup, clock)
           ms == PruneMutations(mutations, dedup, clock)
<1> USE DEF RrInv, Sound
<1>0. /\ \A r \in Requests : ds[r] = IF Live(dedup[r], clock) THEN dedup[r] ELSE Unretained
      /\ \A r \in Requests : ys[r] = IF syncs[r].state = "terminal" /\ ~Live(dedup[r], clock)
                                     THEN NoSync ELSE syncs[r]
      /\ ms = {r \in mutations : Live(dedup[r], clock)}
  BY DEF DropExpired, PruneSyncs, PruneMutations
<1>1. Typed(ds, history, ys, ms)
  BY DEF Typed, DedupStates, SyncStates, DropExpired, PruneSyncs, PruneMutations, Unretained, NoSync
<1> HIDE DEF ds, ys, ms
<1>2. Single(history, ys, ms)
  BY <1>0 DEF Single, NoSync
<1>3. TasksMatch(ds, history)
  BY <1>0 DEF TasksMatch, Live, Unretained
<1>4. SyncsMatch(ds, ys)
  BY <1>0 DEF SyncsMatch, Live, Typed, SyncStates, NoSync
<1>5. MutationsMatch(ds, ms)
  BY <1>0 DEF MutationsMatch, Typed
<1>6. Found(ds, history, ys, ms, clock)
  BY <1>0 DEF Found, Live, Unretained
<1>7. \A r \in Requests : /\ ds[r].held <=> Live(dedup[r], clock)
                          /\ ds[r].held => Live(ds[r], clock) /\ dedup[r].held
  BY <1>0 DEF Live, Unretained
<1> QED
  BY <1>1, <1>2, <1>3, <1>4, <1>5, <1>6, <1>7 DEF ds, ys, ms

\* A handler that gives out nothing new, and takes no entry into the index.
LEMMA KeepsKnown ==
  ASSUME RrInv, sent' = sent, given' = given, clock' = clock,
         \A i \in TaskIds : history'[i].state # "absent" =>
            /\ history[i].state # "absent"
            /\ history'[i].request = history[i].request /\ history'[i].created = history[i].created,
         \A r \in Requests : /\ dedup'[r].held => dedup[r].held
                             /\ syncs'[r].state # "absent" => syncs[r].state # "absent"
                             /\ r \in mutations' => r \in mutations
  PROVE  Known(dedup, history, syncs, mutations)'
BY DEF RrInv, Known

\* Room is kept when no Task joins those whose request is held.
LEMMA KeepsRoom ==
  ASSUME RrInv, Holding(dedup', history') \subseteq Holding(dedup, history)
  PROVE  RoomInv'
<1>1. IsFiniteSet(Holding(dedup, history))
  BY RetentionAssumption, FS_Subset DEF Holding
<1>2. Cardinality(Holding(dedup', history')) <= Cardinality(Holding(dedup, history))
  BY <1>1, FS_Subset
<1>3. /\ Cardinality(Holding(dedup', history')) \in Nat
      /\ Cardinality(Holding(dedup, history)) \in Nat
  BY <1>1, FS_Subset, FS_CardinalityType
<1> QED
  BY <1>2, <1>3, RetentionAssumption DEF RrInv, RoomInv

\* The type invariant follows from a candidate's types.
LEMMA TypeFollows ==
  ASSUME Typed(dedup, history, syncs, mutations)', clock' \in 0..MaxClock,
         given' \subseteq TaskIds, sent' \subseteq Requests, corrupt' \in BOOLEAN
  PROVE  RrTypeOK'
BY DEF Typed, DedupStates, TaskStates, SyncStates, RrTypeOK

-----------------------------------------------------------------------------
(* One lemma per handler.                                                  *)

\* admit_task: a Task for a new request, with its place in the history.
LEMMA AdmitTaskStep ==
  ASSUME ~ReuseIds, RrInv, NEW r \in Requests, NEW i \in TaskIds, AdmitTask(r, i)
  PROVE  RrInv'
<1> DEFINE es == DropExpired(dedup, clock)
           ds == Reserve(dedup, r, clock)
           ys == PruneSyncs(syncs, dedup, clock)
           ms == PruneMutations(mutations, dedup, clock)
           new == [state |-> "open", request |-> r, created |-> clock, ended |-> 0]
<1>1. /\ i \notin given /\ Sends(r) /\ given' = given \cup {i} /\ clock' = clock
      /\ \E removed \in Prunable(history, ds, clock) :
            /\ Cardinality({j \in TaskIds : Pinned(Without(history, removed), ds, j, clock)})
                 < MaxTerminal
            /\ Commit(ds, [Without(history, removed) EXCEPT ![i] = new], ys, ms)
  BY DEF AdmitTask
<1>2. PICK removed \in Prunable(history, ds, clock) :
            /\ Cardinality({j \in TaskIds : Pinned(Without(history, removed), ds, j, clock)})
                 < MaxTerminal
            /\ Commit(ds, [Without(history, removed) EXCEPT ![i] = new], ys, ms)
  BY <1>1
<1> DEFINE kept == Without(history, removed)
           ts == [kept EXCEPT ![i] = new]
<1>3. clock \in Nat /\ history \in TaskStates /\ dedup \in DedupStates
  BY DEF RrInv, RrTypeOK, Sound, Typed
<1>4. /\ Sound(es, history, ys, ms, clock)
      /\ \A q \in Requests : es[q].held => Live(es[q], clock) /\ dedup[q].held
  BY DropSound
<1>5. /\ ~dedup[r].held /\ Owned(history, r) = {} /\ syncs[r].state = "absent"
      /\ r \notin mutations /\ sent' = sent \cup {r}
  BY <1>1, FreshRequest
<1>6. history[i].state = "absent"
  BY <1>1 DEF RrInv, Known
<1>7. /\ ds \in [Requests -> [held : BOOLEAN, settled : BOOLEAN, expiry : Nat]]
      /\ ds[r] = [held |-> TRUE, settled |-> FALSE, expiry |-> 0]
      /\ \A q \in Requests \ {r} : ds[q] = es[q]
  BY <1>4 DEF Reserve, Sound, Typed, DedupStates
<1>8. ys[r].state = "absent" /\ r \notin ms
  BY <1>5 DEF PruneSyncs, PruneMutations, NoSync
<1>9. /\ kept \in TaskStates
      /\ \A j \in TaskIds : kept[j].state # "absent" => j \notin removed /\ kept[j] = history[j]
      /\ \A q : Owned(kept, q) = Owned(history, q) \ removed
  BY <1>3, WithoutIs
<1>10. kept[i].state = "absent"
  BY <1>6, <1>9
<1>11. /\ ts \in TaskStates /\ ts[i] = new /\ \A j \in TaskIds \ {i} : ts[j] = kept[j]
       /\ Owned(ts, r) = {i} /\ \A q \in Requests \ {r} : Owned(ts, q) = Owned(kept, q)
  <2>1. new \in [state : {"absent", "open", "terminal"}, request : Requests \cup {NoRequest},
                 created : Nat, ended : Nat]
    BY <1>3
  <2>2. ts \in TaskStates /\ ts[i] = new /\ \A j \in TaskIds \ {i} : ts[j] = kept[j]
    BY <1>9, <2>1 DEF TaskStates
  <2>3. Owned(kept, r) = {}
    BY <1>5, <1>9
  <2> QED
    BY <1>10, <2>2, <2>3 DEF Owned
<1> HIDE DEF es, ds, ys, ms, kept, ts
<1>12. Sound(ds, ts, ys, ms, clock)
  <2>1. Typed(ds, ts, ys, ms)
    BY <1>4, <1>7, <1>11 DEF Sound, Typed, DedupStates
  <2>2. Single(ts, ys, ms)
    BY <1>4, <1>8, <1>9, <1>11 DEF Sound, Single
  <2>3. TasksMatch(ds, ts)
    <3>1. ASSUME NEW j \in TaskIds, j # i, ts[j].state # "absent"
          PROVE  ts[j] = history[j] /\ history[j].request # r
      BY <1>5, <1>9, <1>11, <3>1 DEF Owned
    <3> QED
      BY <1>4, <1>7, <1>11, <3>1 DEF Sound, TasksMatch
  <2>4. SyncsMatch(ds, ys)
    BY <1>4, <1>7, <1>8 DEF Sound, SyncsMatch
  <2>5. MutationsMatch(ds, ms)
    BY <1>4, <1>7, <1>8 DEF Sound, MutationsMatch, Typed
  <2>6. Found(ds, ts, ys, ms, clock)
    <3>1. ASSUME NEW q \in Requests, q # r, Live(ds[q], clock), Owned(history, q) # {}
          PROVE  Owned(ts, q) # {}
      BY <1>7, <1>9, <1>11, <3>1, PrunableIs DEF Owned
    <3> QED
      BY <1>4, <1>7, <1>11, <3>1 DEF Sound, Found
  <2> QED
    BY <2>1, <2>2, <2>3, <2>4, <2>5, <2>6 DEF Sound
<1>13. dedup' = ds /\ history' = ts /\ syncs' = ys /\ mutations' = ms /\ corrupt' = corrupt
  <2>1. Commit(ds, ts, ys, ms)
    BY <1>2 DEF ts, kept
  <2> QED
    BY <1>12, <2>1, CommitTakes
<1>14. Known(dedup, history, syncs, mutations)'
  <2>1. \A q \in Requests : ys[q].state # "absent" => syncs[q].state # "absent"
    BY DEF ys, PruneSyncs, NoSync
  <2>2. \A q \in Requests : q \in ms => q \in mutations
    BY DEF ms, PruneMutations
  <2> QED
    BY <1>1, <1>3, <1>4, <1>5, <1>7, <1>9, <1>11, <1>13, <2>1, <2>2 DEF RrInv, Known
<1>15. RoomInv'
  <2>1. {j \in TaskIds : Pinned(kept, ds, j, clock)} = Holding(ds, kept)
    BY <1>4, <1>5, <1>7, <1>9 DEF Pinned, Holding, Live, RrInv, Sound, TasksMatch
  <2>2. Holding(ds, ts) = Holding(ds, kept) \cup {i}
    BY <1>7, <1>10, <1>11 DEF Holding
  <2>3. IsFiniteSet(Holding(ds, kept))
    BY RetentionAssumption, FS_Subset DEF Holding
  <2>4. Cardinality(Holding(ds, kept)) < MaxTerminal
    BY <1>2, <2>1 DEF kept
  <2>5. Cardinality(Holding(ds, ts)) = Cardinality(Holding(ds, kept)) + 1
    <3>1. i \notin Holding(ds, kept)
      BY <1>10 DEF Holding
    <3> QED
      BY <2>2, <2>3, <3>1, FS_AddElement
  <2>6. Cardinality(Holding(ds, kept)) \in Nat /\ Cardinality(Holding(ds, ts)) \in Nat
    BY <2>2, <2>3, FS_AddElement, FS_CardinalityType
  <2> QED
    BY <1>13, <2>4, <2>5, <2>6, RetentionAssumption DEF RoomInv
<1>16. RrTypeOK'
  BY <1>1, <1>5, <1>12, <1>13, TypeFollows DEF RrInv, RrTypeOK, Sound
<1> QED
  BY <1>1, <1>12, <1>13, <1>14, <1>15, <1>16 DEF RrInv, NeverCorrupt

\* The settlement of an open Task, with a clock that is not ahead of the store's.
LEMMA SettleTaskStep ==
  ASSUME RrInv, NEW i \in TaskIds, NEW now \in Nat, now <= clock, SettleTask(i, now)
  PROVE  RrInv'
<1> DEFINE r  == history[i].request
           ds == SettledDedup(i, now)
           ss == SettledTasks(i)
<1>1. /\ history[i].state = "open" /\ dedup[r].held
      /\ \E removed \in Prunable(ss, ds, now) : Commit(ds, Without(ss, removed), syncs, mutations)
      /\ UNCHANGED <<clock, given, sent>>
  BY DEF SettleTask
<1>2. PICK removed \in Prunable(ss, ds, now) : Commit(ds, Without(ss, removed), syncs, mutations)
  BY <1>1
<1>3. /\ clock \in Nat /\ history \in TaskStates /\ dedup \in DedupStates
      /\ r \in Requests /\ ~dedup[r].settled
  BY <1>1 DEF RrInv, RrTypeOK, Sound, Typed, TasksMatch
<1>4. /\ ds \in DedupStates /\ ds[r].held /\ ds[r].settled
      /\ \A q \in Requests \ {r} : ds[q] = dedup[q]
  <2>1. Expire(dedup[r], now) = [held |-> TRUE, settled |-> TRUE, expiry |-> now + Window]
    BY <1>3 DEF Expire
  <2>2. now + Window \in Nat
    BY RetentionAssumption
  <2> QED
    BY <1>3, <2>1, <2>2 DEF SettledDedup, DedupStates
<1>5. /\ ss \in TaskStates /\ ss[i].state = "terminal" /\ ss[i].request = r
      /\ ss[i].created = history[i].created
      /\ \A j \in TaskIds \ {i} : ss[j] = history[j]
  BY <1>3 DEF SettledTasks, TaskStates
<1>6. \A q : Owned(ss, q) = Owned(history, q)
  BY <1>1, <1>5 DEF Owned
<1> HIDE DEF ds, ss
<1>7. Sound(ds, ss, syncs, mutations, clock)
  <2>0. Single(history, syncs, mutations) /\ i \in Owned(history, r)
    BY <1>1 DEF RrInv, Sound, Owned
  <2>1. Typed(ds, ss, syncs, mutations)
    BY <1>4, <1>5 DEF RrInv, Sound, Typed
  <2>2. Single(ss, syncs, mutations)
    BY <1>6 DEF RrInv, Sound, Single
  <2>3. TasksMatch(ds, ss)
    <3>1. ASSUME NEW j \in TaskIds, j # i, history[j].state # "absent"
          PROVE  history[j].request # r
      BY <1>3, <2>0, <3>1 DEF Single, Owned
    <3> QED
      BY <1>3, <1>4, <1>5, <3>1 DEF RrInv, Sound, TasksMatch
  <2>4. SyncsMatch(ds, syncs)
    BY <1>3, <1>4, <2>0 DEF RrInv, Sound, SyncsMatch, Single
  <2>5. MutationsMatch(ds, mutations)
    BY <1>3, <1>4, <2>0 DEF RrInv, Sound, MutationsMatch, Typed
  <2>6. Found(ds, ss, syncs, mutations, clock)
    BY <1>3, <1>4, <1>6, <2>0 DEF RrInv, Sound, Found
  <2> QED
    BY <2>1, <2>2, <2>3, <2>4, <2>5, <2>6 DEF Sound
<1>8. Sound(ds, Without(ss, removed), syncs, mutations, clock)
  BY <1>2, <1>3, <1>7, PrunedSound
<1>9. /\ dedup' = ds /\ history' = Without(ss, removed)
      /\ syncs' = syncs /\ mutations' = mutations /\ corrupt' = corrupt
  BY <1>2, <1>8, CommitTakes
<1>10. \A j \in TaskIds : history'[j].state # "absent" => history'[j] = ss[j]
  BY <1>5, <1>9, WithoutIs
<1>11. Known(dedup, history, syncs, mutations)'
  BY <1>1, <1>4, <1>5, <1>9, <1>10, KeepsKnown
<1>12. RoomInv'
  BY <1>1, <1>3, <1>4, <1>5, <1>9, <1>10, KeepsRoom DEF Holding, RrInv, Sound, TasksMatch
<1>13. RrTypeOK'
  BY <1>1, <1>8, <1>9, TypeFollows DEF RrInv, RrTypeOK, Sound
<1> QED
  BY <1>1, <1>8, <1>9, <1>11, <1>12, <1>13 DEF RrInv, NeverCorrupt

\* get_task and list_tasks, which commit what they prune.
LEMMA ReadTasksStep ==
  ASSUME RrInv, ReadTasks
  PROVE  RrInv'
<1>1. PICK removed \in Prunable(history, dedup, clock) :
         Commit(dedup, Without(history, removed), syncs, mutations)
  BY DEF ReadTasks
<1>2. UNCHANGED <<clock, given, sent>>
  BY DEF ReadTasks
<1>3. clock \in Nat /\ history \in TaskStates
  BY DEF RrInv, RrTypeOK, Sound, Typed
<1>4. Sound(dedup, Without(history, removed), syncs, mutations, clock)
  BY <1>1, <1>3, PrunedSound DEF RrInv
<1>5. /\ dedup' = dedup /\ history' = Without(history, removed)
      /\ syncs' = syncs /\ mutations' = mutations /\ corrupt' = corrupt
  BY <1>1, <1>4, CommitTakes
<1>6. \A j \in TaskIds : history'[j].state # "absent" => history'[j] = history[j]
  BY <1>3, <1>5, WithoutIs
<1>7. Known(dedup, history, syncs, mutations)'
  BY <1>2, <1>5, <1>6, KeepsKnown
<1>8. RoomInv'
  BY <1>5, <1>6, KeepsRoom DEF Holding
<1>9. RrTypeOK'
  BY <1>2, <1>4, <1>5, TypeFollows DEF RrInv, RrTypeOK, Sound
<1> QED
  BY <1>2, <1>4, <1>5, <1>7, <1>8, <1>9 DEF RrInv, NeverCorrupt

\* What an admission without a Task makes of the store: one more entry and one more result
\* in the place it is for.
LEMMA AdmittedSound ==
  ASSUME ~ReuseIds, RrInv, NEW r \in Requests, Sends(r), UNCHANGED <<clock, given>>,
         NEW ds \in DedupStates, ds[r].held,
         \A q \in Requests \ {r} : ds[q] = DropExpired(dedup, clock)[q],
         NEW ys \in SyncStates, NEW ms \in SUBSET Requests,
         \A q \in Requests \ {r} : /\ ys[q] = PruneSyncs(syncs, dedup, clock)[q]
                                   /\ q \in ms <=> q \in PruneMutations(mutations, dedup, clock),
         \/ ~ds[r].settled /\ ys[r].state = "open" /\ r \notin ms
         \/ ds[r].settled /\ ys[r].state = "absent" /\ r \in ms,
         Commit(ds, history, ys, ms)
  PROVE  RrInv'
<1> DEFINE es == DropExpired(dedup, clock)
           zs == PruneSyncs(syncs, dedup, clock)
           ns == PruneMutations(mutations, dedup, clock)
<1> HIDE DEF es, zs, ns
<1>1. /\ Sound(es, history, zs, ns, clock)
      /\ \A q \in Requests : es[q].held => Live(es[q], clock) /\ dedup[q].held
  BY DropSound DEF es, zs, ns
<1>2. /\ ~dedup[r].held /\ Owned(history, r) = {} /\ sent' = sent \cup {r}
  BY FreshRequest
<1>3. \A q \in Requests \ {r} : ds[q] = es[q] /\ ys[q] = zs[q] /\ (q \in ms <=> q \in ns)
  BY DEF es, zs, ns
<1>4. \A i \in TaskIds : history[i].state # "absent" => history[i].request # r
  BY <1>2 DEF Owned
<1>5. Sound(ds, history, ys, ms, clock)
  <2>1. Typed(ds, history, ys, ms)
    BY <1>1 DEF Sound, Typed
  <2>2. Single(history, ys, ms)
    BY <1>1, <1>2, <1>3 DEF Sound, Single
  <2>3. TasksMatch(ds, history)
    BY <1>1, <1>3, <1>4 DEF Sound, TasksMatch
  <2>4. SyncsMatch(ds, ys)
    BY <1>1, <1>3 DEF Sound, SyncsMatch
  <2>5. MutationsMatch(ds, ms)
    BY <1>1, <1>3 DEF Sound, MutationsMatch
  <2>6. Found(ds, history, ys, ms, clock)
    BY <1>1, <1>3 DEF Sound, Found
  <2> QED
    BY <2>1, <2>2, <2>3, <2>4, <2>5, <2>6 DEF Sound
<1>6. dedup' = ds /\ history' = history /\ syncs' = ys /\ mutations' = ms /\ corrupt' = corrupt
  BY <1>5, CommitTakes
<1>7. Known(dedup, history, syncs, mutations)'
  <2>1. \A q \in Requests : zs[q].state # "absent" => syncs[q].state # "absent"
    BY DEF zs, PruneSyncs, NoSync
  <2>2. \A q \in Requests : q \in ns => q \in mutations
    BY DEF ns, PruneMutations
  <2> QED
    BY <1>1, <1>2, <1>3, <1>6, <2>1, <2>2 DEF RrInv, Known
<1>8. RoomInv'
  <2>1. Holding(dedup', history') \subseteq Holding(dedup, history)
    BY <1>1, <1>3, <1>4, <1>6 DEF Holding, Sound, TasksMatch
  <2> QED
    BY <2>1, KeepsRoom
<1>9. RrTypeOK'
  BY <1>2, <1>5, <1>6, TypeFollows DEF RrInv, RrTypeOK, Sound
<1> QED
  BY <1>5, <1>6, <1>7, <1>8, <1>9 DEF RrInv, NeverCorrupt

\* What Reserve and the two prunes return.
LEMMA ReserveIs ==
  ASSUME RrInv, NEW r \in Requests
  PROVE  /\ Reserve(dedup, r, clock) \in DedupStates
         /\ Reserve(dedup, r, clock)[r] = [held |-> TRUE, settled |-> FALSE, expiry |-> 0]
         /\ \A q \in Requests \ {r} : Reserve(dedup, r, clock)[q] = DropExpired(dedup, clock)[q]
         /\ PruneSyncs(syncs, dedup, clock) \in SyncStates
         /\ PruneMutations(mutations, dedup, clock) \in SUBSET Requests
<1>1. /\ DropExpired(dedup, clock) \in DedupStates
      /\ PruneSyncs(syncs, dedup, clock) \in SyncStates
      /\ PruneMutations(mutations, dedup, clock) \in SUBSET Requests
  BY DropSound DEF Sound, Typed
<1> QED
  BY <1>1 DEF Reserve, DedupStates

\* run_synchronous up to its admission.
LEMMA AdmitSyncStep ==
  ASSUME ~ReuseIds, RrInv, NEW r \in Requests, AdmitSync(r)
  PROVE  RrInv'
<1> DEFINE ds == Reserve(dedup, r, clock)
           zs == PruneSyncs(syncs, dedup, clock)
           ms == PruneMutations(mutations, dedup, clock)
           ys == [zs EXCEPT ![r] = [state |-> "open", at |-> clock]]
<1>1. Sends(r) /\ UNCHANGED <<clock, given>> /\ Commit(ds, history, ys, ms)
  BY DEF AdmitSync
<1>2. clock \in Nat
  BY DEF RrInv, RrTypeOK
<1>3. /\ ds \in DedupStates /\ ds[r].held /\ ~ds[r].settled
      /\ \A q \in Requests \ {r} : ds[q] = DropExpired(dedup, clock)[q]
      /\ ms \in SUBSET Requests
  BY ReserveIs
<1>4. /\ ys \in SyncStates /\ ys[r].state = "open"
      /\ \A q \in Requests \ {r} : ys[q] = PruneSyncs(syncs, dedup, clock)[q]
  BY <1>2, ReserveIs DEF SyncStates
<1>5. r \notin ms
  BY <1>1, FreshRequest DEF PruneMutations
<1> HIDE DEF ds, ys
<1> QED
  BY <1>1, <1>3, <1>4, <1>5, AdmittedSound

\* retained_mutation: the entry is settled with its result.
LEMMA RetainMutationStep ==
  ASSUME ~ReuseIds, RrInv, NEW r \in Requests, RetainMutation(r)
  PROVE  RrInv'
<1> DEFINE rs == Reserve(dedup, r, clock)
           ds == [rs EXCEPT ![r] = Expire(@, clock)]
           ys == PruneSyncs(syncs, dedup, clock)
           ns == PruneMutations(mutations, dedup, clock)
           ms == ns \cup {r}
<1>1. Sends(r) /\ UNCHANGED <<clock, given>> /\ Commit(ds, history, ys, ms)
  BY DEF RetainMutation
<1>2. clock + Window \in Nat
  BY RetentionAssumption DEF RrInv, RrTypeOK
<1>3. Expire(rs[r], clock) = [held |-> TRUE, settled |-> TRUE, expiry |-> clock + Window]
  BY ReserveIs DEF Expire
<1>4. /\ ds \in DedupStates /\ ds[r].held /\ ds[r].settled
      /\ \A q \in Requests \ {r} : ds[q] = DropExpired(dedup, clock)[q]
  BY <1>2, <1>3, ReserveIs DEF DedupStates
<1>5. /\ ys \in SyncStates /\ ms \in SUBSET Requests
      /\ \A q \in Requests \ {r} : q \in ms <=> q \in ns
  BY ReserveIs
<1>6. ys[r].state = "absent"
  BY <1>1, FreshRequest DEF PruneSyncs, NoSync
<1> HIDE DEF ds, ys, ns
<1> QED
  BY <1>1, <1>4, <1>5, <1>6, AdmittedSound DEF ys, ns

\* settle_synchronous, with the clock of its admission.
LEMMA SettleSyncStep ==
  ASSUME RrInv, NEW r \in Requests, SettleSync(r)
  PROVE  RrInv'
<1> DEFINE ds == [dedup EXCEPT ![r] = Expire(@, syncs[r].at)]
           ys == [syncs EXCEPT ![r].state = "terminal"]
<1>1. /\ syncs[r].state = "open" /\ dedup[r].held /\ Commit(ds, history, ys, mutations)
      /\ UNCHANGED <<clock, given, sent>>
  BY DEF SettleSync
<1>2. /\ dedup \in DedupStates /\ syncs \in SyncStates /\ ~dedup[r].settled
      /\ syncs[r].at + Window \in Nat
  BY <1>1, RetentionAssumption DEF RrInv, Sound, Typed, SyncsMatch, SyncStates
<1>3. /\ ds \in DedupStates /\ ds[r].held /\ ds[r].settled
      /\ \A q \in Requests \ {r} : ds[q] = dedup[q]
  <2>1. Expire(dedup[r], syncs[r].at)
          = [held |-> TRUE, settled |-> TRUE, expiry |-> syncs[r].at + Window]
    BY <1>2 DEF Expire
  <2> QED
    BY <1>2, <2>1 DEF DedupStates
<1>4. /\ ys \in SyncStates /\ ys[r].state = "terminal"
      /\ \A q \in Requests \ {r} : ys[q] = syncs[q]
  BY <1>2 DEF SyncStates
<1> HIDE DEF ds, ys
<1>5. Owned(history, r) = {} /\ r \notin mutations
  BY <1>1 DEF RrInv, Sound, Single
<1>6. Sound(ds, history, ys, mutations, clock)
  <2>1. Typed(ds, history, ys, mutations)
    BY <1>3, <1>4 DEF RrInv, Sound, Typed
  <2>2. Single(history, ys, mutations)
    BY <1>4, <1>5 DEF RrInv, Sound, Single
  <2>3. TasksMatch(ds, history)
    BY <1>3, <1>5 DEF RrInv, Sound, TasksMatch, Owned
  <2>4. SyncsMatch(ds, ys)
    BY <1>3, <1>4 DEF RrInv, Sound, SyncsMatch
  <2>5. MutationsMatch(ds, mutations)
    BY <1>3, <1>5 DEF RrInv, Sound, MutationsMatch, Typed
  <2>6. Found(ds, history, ys, mutations, clock)
    BY <1>3, <1>4 DEF RrInv, Sound, Found
  <2> QED
    BY <2>1, <2>2, <2>3, <2>4, <2>5, <2>6 DEF Sound
<1>7. /\ dedup' = ds /\ history' = history /\ syncs' = ys /\ mutations' = mutations
      /\ corrupt' = corrupt
  BY <1>1, <1>6, CommitTakes
<1>8. Known(dedup, history, syncs, mutations)'
  BY <1>1, <1>3, <1>4, <1>7, KeepsKnown
<1>9. RoomInv'
  BY <1>1, <1>3, <1>7, KeepsRoom DEF Holding, RrInv, Sound, TasksMatch
<1>10. RrTypeOK'
  BY <1>1, <1>6, <1>7, TypeFollows DEF RrInv, RrTypeOK, Sound
<1> QED
  BY <1>1, <1>6, <1>7, <1>8, <1>9, <1>10 DEF RrInv, NeverCorrupt

\* recover_old_instance settles everything at once.
LEMMA RecoverStep ==
  ASSUME RrInv, Recover
  PROVE  RrInv'
<1>0. /\ clock \in Nat /\ clock + Window \in Nat
      /\ dedup \in DedupStates /\ history \in TaskStates /\ syncs \in SyncStates
  <2>1. clock \in Nat
    BY DEF RrInv, RrTypeOK
  <2>2. clock + Window \in Nat
    BY <2>1, RetentionAssumption
  <2> QED
    BY <2>1, <2>2 DEF RrInv, Sound, Typed
<1> DEFINE lost(r) == syncs[r].state = "open"
                        \/ \E i \in Owned(history, r) : history[i].state = "open"
           ds == [r \in Requests |-> IF lost(r) /\ dedup[r].held THEN Expire(dedup[r], clock)
                                                                 ELSE dedup[r]]
           ss == [i \in TaskIds |-> IF history[i].state = "open"
                                      THEN [history[i] EXCEPT !.state = "terminal", !.ended = clock]
                                      ELSE history[i]]
           zs == [r \in Requests |-> IF syncs[r].state = "open"
                                       THEN [syncs[r] EXCEPT !.state = "terminal"] ELSE syncs[r]]
           ys == PruneSyncs(zs, ds, clock)
<1>1. /\ \E removed \in Prunable(ss, ds, clock) : Commit(ds, Without(ss, removed), ys, mutations)
      /\ UNCHANGED <<clock, given, sent>>
  BY DEF Recover
<1>2. PICK removed \in Prunable(ss, ds, clock) : Commit(ds, Without(ss, removed), ys, mutations)
  BY <1>1
<1>4. \A r \in Requests : lost(r) => dedup[r].held /\ ~dedup[r].settled
  BY DEF RrInv, Sound, SyncsMatch, TasksMatch, Owned
<1>5. /\ ds \in DedupStates
      /\ \A r \in Requests : ds[r] = IF lost(r)
             THEN [held |-> TRUE, settled |-> TRUE, expiry |-> clock + Window] ELSE dedup[r]
  <2>1. \A r \in Requests : lost(r) => Expire(dedup[r], clock)
              = [held |-> TRUE, settled |-> TRUE, expiry |-> clock + Window]
    BY <1>4 DEF Expire
  <2>2. \A r \in Requests : ds[r] = IF lost(r)
             THEN [held |-> TRUE, settled |-> TRUE, expiry |-> clock + Window] ELSE dedup[r]
    BY <1>4, <2>1
  <2>3. ASSUME NEW r \in Requests
        PROVE  ds[r] \in [held : BOOLEAN, settled : BOOLEAN, expiry : Nat]
    <3>1. dedup[r] \in [held : BOOLEAN, settled : BOOLEAN, expiry : Nat]
      BY <1>0 DEF DedupStates
    <3>2. [held |-> TRUE, settled |-> TRUE, expiry |-> clock + Window]
            \in [held : BOOLEAN, settled : BOOLEAN, expiry : Nat]
      BY <1>0
    <3> QED
      BY <2>2, <3>1, <3>2, Zenon
  <2> QED
    BY <2>2, <2>3 DEF DedupStates
<1>6. /\ ss \in TaskStates
      /\ \A i \in TaskIds : /\ ss[i].request = history[i].request
                            /\ ss[i].created = history[i].created
                            /\ ss[i].state = IF history[i].state = "absent" THEN "absent"
                                                                            ELSE "terminal"
  BY <1>0 DEF TaskStates
<1>7. /\ zs \in SyncStates
      /\ \A r \in Requests : zs[r].state = IF syncs[r].state = "absent" THEN "absent" ELSE "terminal"
  BY <1>0 DEF SyncStates
<1> HIDE DEF ds, ss, zs
<1>8. /\ ys \in SyncStates
      /\ \A r \in Requests : ys[r].state = IF zs[r].state = "terminal" /\ ~Live(ds[r], clock)
                                           THEN "absent" ELSE zs[r].state
  BY <1>7 DEF SyncStates, PruneSyncs, NoSync
<1> HIDE DEF ys
<1>9. \A q : Owned(ss, q) = Owned(history, q)
  BY <1>6 DEF Owned
<1>10. \A r \in Requests : ds[r].held <=> dedup[r].held
  BY <1>4, <1>5
<1>11. Sound(ds, ss, ys, mutations, clock)
  <2>1. Typed(ds, ss, ys, mutations)
    BY <1>5, <1>6, <1>8 DEF RrInv, Sound, Typed
  <2>2. Single(ss, ys, mutations)
    BY <1>7, <1>8, <1>9 DEF RrInv, Sound, Single
  <2>3. TasksMatch(ds, ss)
    <3>1. ASSUME NEW i \in TaskIds, history[i].state = "open"
          PROVE  lost(history[i].request)
      BY <3>1 DEF Owned
    <3> QED
      BY <1>0, <1>5, <1>6, <1>10, <3>1 DEF RrInv, Sound, TasksMatch, TaskStates
  <2>4. SyncsMatch(ds, ys)
    BY <1>0, <1>5, <1>7, <1>8, <1>10 DEF RrInv, Sound, SyncsMatch, SyncStates
  <2>5. MutationsMatch(ds, mutations)
    BY <1>5, <1>10 DEF RrInv, Sound, MutationsMatch, Typed
  <2>6. Found(ds, ss, ys, mutations, clock)
    <3>1. ASSUME NEW r \in Requests, Live(ds[r], clock)
          PROVE  Owned(history, r) # {} \/ syncs[r].state # "absent" \/ r \in mutations
      BY <1>5, <3>1 DEF RrInv, Sound, Found
    <3> QED
      BY <1>7, <1>8, <1>9, <3>1 DEF Found
  <2> QED
    BY <2>1, <2>2, <2>3, <2>4, <2>5, <2>6 DEF Sound
<1>12. Sound(ds, Without(ss, removed), ys, mutations, clock)
  BY <1>2, <1>0, <1>11, PrunedSound
<1>13. /\ dedup' = ds /\ history' = Without(ss, removed) /\ syncs' = ys
       /\ mutations' = mutations /\ corrupt' = corrupt
  BY <1>2, <1>12, CommitTakes
<1>14. \A j \in TaskIds : history'[j].state # "absent" => history'[j] = ss[j]
  BY <1>6, <1>13, WithoutIs
<1>15. Known(dedup, history, syncs, mutations)'
  BY <1>1, <1>6, <1>7, <1>8, <1>10, <1>13, <1>14, KeepsKnown
<1>16. RoomInv'
  BY <1>6, <1>10, <1>13, <1>14, KeepsRoom DEF Holding, RrInv, Sound, TasksMatch
<1>17. RrTypeOK'
  BY <1>1, <1>12, <1>13, TypeFollows DEF RrInv, RrTypeOK, Sound
<1> QED
  BY <1>1, <1>12, <1>13, <1>15, <1>16, <1>17 DEF RrInv, NeverCorrupt

\* Time passes: what was dead stays dead.
LEMMA TickStep ==
  ASSUME RrInv, Tick
  PROVE  RrInv'
<1>1. clock \in Nat /\ clock' \in 0..MaxClock /\ clock <= clock' /\ clock' \in Nat
  BY RetentionAssumption DEF Tick, RrInv, RrTypeOK
<1>2. UNCHANGED <<dedup, history, syncs, mutations, given, sent, corrupt>>
  BY DEF Tick
<1>3. Found(dedup, history, syncs, mutations, clock')
  BY <1>1, DeadStaysDead DEF RrInv, Sound, Found, Typed, DedupStates
<1>4. Known(dedup, history, syncs, mutations)'
  BY <1>1, <1>2 DEF RrInv, Known, RrTypeOK
<1>5. Sound(dedup, history, syncs, mutations, clock)'
  BY <1>2, <1>3 DEF RrInv, Sound
<1> QED
  BY <1>1, <1>2, <1>4, <1>5 DEF RrInv, RoomInv, Holding, NeverCorrupt, RrTypeOK

-----------------------------------------------------------------------------
(* The theorems.                                                           *)

\* The inductive invariant of the store's memory of its requests.
THEOREM RetentionInductive == ~ReuseIds => (RrSpec => []RrInv)
<1> SUFFICES ASSUME ~ReuseIds PROVE RrSpec => []RrInv
  OBVIOUS
<1>1. RrInit => RrInv
  <2> SUFFICES ASSUME RrInit PROVE RrInv
    OBVIOUS
  <2>1. Typed(dedup, history, syncs, mutations) /\ RrTypeOK
    <3>1. dedup \in DedupStates
      BY DEF RrInit, DedupStates, Unretained
    <3>2. history \in TaskStates
      BY DEF RrInit, TaskStates, NoTask
    <3>3. syncs \in SyncStates /\ mutations = {}
      BY DEF RrInit, SyncStates, NoSync
    <3>4. clock \in 0..MaxClock
      BY RetentionAssumption DEF RrInit
    <3>5. given = {} /\ sent = {} /\ corrupt \in BOOLEAN
      BY Zenon DEF RrInit
    <3> QED
      BY <3>1, <3>2, <3>3, <3>4, <3>5 DEF Typed, RrTypeOK, DedupStates, TaskStates, SyncStates
  <2>2. \A i \in TaskIds : history[i].state = "absent"
    BY DEF RrInit, NoTask
  <2>3. \A r \in Requests : ~dedup[r].held /\ syncs[r].state = "absent" /\ r \notin mutations
    BY DEF RrInit, Unretained, NoSync
  <2>4. Sound(dedup, history, syncs, mutations, clock)
    BY <2>1, <2>2, <2>3 DEF Sound, Single, TasksMatch, SyncsMatch, MutationsMatch, Found, Owned,
       Live, Typed
  <2>5. Known(dedup, history, syncs, mutations)
    BY <2>2, <2>3 DEF Known
  <2>6. RoomInv
    <3>1. Holding(dedup, history) = {}
      BY <2>2 DEF Holding
    <3> QED
      BY <3>1, FS_EmptySet, RetentionAssumption DEF RoomInv
  <2> QED
    BY <2>1, <2>4, <2>5, <2>6 DEF RrInv, RrInit, NeverCorrupt
<1>2. RrInv /\ [RrNext]_rrVars => RrInv'
  <2> SUFFICES ASSUME RrInv, [RrNext]_rrVars PROVE RrInv'
    OBVIOUS
  <2>1. CASE UNCHANGED rrVars
    BY <2>1 DEF rrVars, RrInv, RrTypeOK, Sound, Typed, Single, TasksMatch, SyncsMatch,
       MutationsMatch, Found, Known, RoomInv, Holding, NeverCorrupt, Owned
  <2>2. ASSUME NEW i \in TaskIds, SettleByDriver(i) \/ SettleByCanceller(i) PROVE RrInv'
    <3>1. clock \in Nat /\ history[i].created \in Nat
      BY DEF RrInv, RrTypeOK
    <3>2. history[i].state = "open" => history[i].created <= clock
      BY DEF RrInv, Known
    <3>3. history[i].state = "open"
      BY <2>2 DEF SettleByDriver, SettleByCanceller, SettleTask
    <3> QED
      BY <2>2, <3>1, <3>2, <3>3, SettleTaskStep DEF SettleByDriver, SettleByCanceller
  <2> QED
    BY <2>1, <2>2, AdmitTaskStep, ReadTasksStep, AdmitSyncStep, SettleSyncStep,
       RetainMutationStep, RecoverStep, TickStep DEF RrNext
<1> QED
  BY <1>1, <1>2, PTL DEF RrSpec

\* For every window and limit: no handler builds a candidate that the store would refuse
\* as corrupt, so long as clients send a request id once (validate_state).
THEOREM CandidatesCanonical == ~ReuseIds => (RrSpec => []NeverCorrupt)
<1>1. RrInv => NeverCorrupt
  BY DEF RrInv
<1> QED
  BY <1>1, RetentionInductive, PTL

\* For every window and limit: while a dedup entry is live, the one result it stands for
\* is in the store (decide_and_reserve's replays).
THEOREM ReplaysFound == ~ReuseIds => (RrSpec => []ReplayFindsItsResult)
<1>1. RrInv => ReplayFindsItsResult
  BY SoundCanonical DEF RrInv, ReplayFindsItsResult
<1> QED
  BY <1>1, RetentionInductive, PTL

\* For every limit and either clock: an open Task can be settled, because the Tasks that
\* any clock finds pinned fit into the history with it (prune_task_history).
THEOREM SettlementsFit == ~ReuseIds => (RrSpec => []SettlementHasRoom)
<1>1. RrInv => SettlementHasRoom
  <2> SUFFICES ASSUME RrInv, NEW i \in TaskIds, history[i].state = "open",
                      NEW now \in {history[i].created, clock}
               PROVE  /\ dedup[history[i].request].held
                      /\ Prunable(SettledTasks(i), SettledDedup(i, now), now) # {}
    BY DEF SettlementHasRoom
  <2> DEFINE r == history[i].request
             ts == SettledTasks(i)
             ds == SettledDedup(i, now)
             aged == Aged(ts, ds, now)
             kept == TerminalIds(ts) \ aged
             free == {j \in kept : ~Pinned(ts, ds, j, now)}
             excess == IF Cardinality(kept) > MaxTerminal
                       THEN Cardinality(kept) - MaxTerminal ELSE 0
             born == [j \in TaskIds |-> ts[j].created]
  <2>1. /\ dedup[r].held /\ r \in Requests /\ history \in TaskStates /\ dedup \in DedupStates
    BY DEF RrInv, Sound, Typed, TasksMatch
  <2>2. /\ \A j \in TaskIds : /\ ts[j].request = history[j].request
                              /\ ts[j].created \in Nat
                              /\ ts[j].state # "absent" => history[j].state # "absent"
    BY <2>1 DEF SettledTasks, TaskStates
  <2>3. \A q \in Requests : ds[q].held => dedup[q].held
    BY <2>1 DEF SettledDedup, DedupStates
  <2> HIDE DEF ts, ds
  <2>4. {j \in kept : Pinned(ts, ds, j, now)} \subseteq Holding(dedup, history)
    BY <2>2, <2>3 DEF TerminalIds, Pinned, Live, Holding, RrInv, Sound, TasksMatch
  <2>5. /\ IsFiniteSet(Holding(dedup, history)) /\ IsFiniteSet(kept) /\ IsFiniteSet(free)
        /\ IsFiniteSet({j \in kept : Pinned(ts, ds, j, now)})
    <3>1. kept \in SUBSET TaskIds /\ Holding(dedup, history) \in SUBSET TaskIds
      BY DEF TerminalIds, Holding
    <3>2. free \in SUBSET TaskIds /\ {j \in kept : Pinned(ts, ds, j, now)} \in SUBSET TaskIds
      BY <3>1
    <3> QED
      BY <3>1, <3>2, FS_Subset, RetentionAssumption
  <2> HIDE DEF kept
  <2>6. Cardinality(kept) = Cardinality(free) + Cardinality({j \in kept : Pinned(ts, ds, j, now)})
    <3>1. kept \ free = {j \in kept : Pinned(ts, ds, j, now)} /\ kept \cap free = free
      OBVIOUS
    <3>2. Cardinality(kept \ free) = Cardinality(kept) - Cardinality(kept \cap free)
      BY <2>5, FS_Difference
    <3>3. Cardinality({j \in kept : Pinned(ts, ds, j, now)}) = Cardinality(kept) - Cardinality(free)
      BY <3>1, <3>2, Zenon
    <3>4. Cardinality(kept) \in Nat /\ Cardinality(free) \in Nat
      BY <2>5, FS_CardinalityType
    <3> HIDE DEF free
    <3> QED
      BY <3>3, <3>4
  <2>7. Cardinality({j \in kept : Pinned(ts, ds, j, now)}) <= MaxTerminal
    <3>1. Cardinality({j \in kept : Pinned(ts, ds, j, now)}) <= Cardinality(Holding(dedup, history))
      BY <2>4, <2>5, FS_Subset
    <3>2. /\ Cardinality({j \in kept : Pinned(ts, ds, j, now)}) \in Nat
          /\ Cardinality(Holding(dedup, history)) \in Nat
      BY <2>5, FS_CardinalityType
    <3>3. Cardinality(Holding(dedup, history)) <= MaxTerminal
      BY DEF RrInv, RoomInv
    <3> QED
      BY <3>1, <3>2, <3>3, RetentionAssumption
  <2>8. excess \in Nat /\ excess <= Cardinality(free)
    BY <2>5, <2>6, <2>7, FS_CardinalityType, RetentionAssumption
  <2>9. \A j \in free : born[j] \in Nat /\ born[j] = ts[j].created
    BY <2>2 DEF kept, TerminalIds
  <2> HIDE DEF free, excess, born
  <2>10. PICK s \in SUBSET free : /\ Cardinality(s) = excess
                                  /\ \A x \in s, y \in free \ s : born[x] <= born[y]
    BY <2>5, <2>8, <2>9, OldestExist
  <2>11. \A x \in s, y \in free \ s : ts[x].created <= ts[y].created
    BY <2>9, <2>10
  <2>12. aged \cup s \in Prunable(ts, ds, now)
    BY <2>10, <2>11 DEF Prunable, kept, free, excess
  <2> QED
    BY <2>1, <2>12 DEF ts, ds
<1> QED
  BY <1>1, RetentionInductive, PTL
=============================================================================
