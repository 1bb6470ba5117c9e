----------------------------- MODULE StateStore -----------------------------
(***************************************************************************)
(* Two writers of one canonical state: the Runtime core, which loads and   *)
(* commits its own part under its mutation lock and rebases across         *)
(* artifact publications (persistence/src/runtime_port.rs), and the        *)
(* artifact port, which commits the manifest under its own lock and writes *)
(* and deletes the artifacts' bytes around it (persistence/src/            *)
(* artifact.rs).  Each commit is one compare-and-commit on the store's     *)
(* revision under the state lock: it lands whole or not at all, and it may *)
(* be reported as failed although it landed (the directory sync after the  *)
(* rename of atomic.rs).                                                   *)
(*                                                                         *)
(* The Runtime's part is reduced to the executions that may own an         *)
(* artifact: a Task or synchronous execution is admitted, becomes          *)
(* terminal and is pruned.  An artifact has size one, so that the record   *)
(* limit stands for the byte limit as well.  Publications are made one at  *)
(* a time, so the revision a record was committed as orders the records    *)
(* the way created_at does.                                                *)
(***************************************************************************)
EXTENDS Naturals, FiniteSets

CONSTANTS
    Execs,          \* the executions that publish
    Tasks,          \* those of them that are Tasks; the others are synchronous
    NoExec,         \* the owner of a publication without an execution
    Artifacts,      \* the references handed out, each once
    NoArtifact,     \* the reference of a deletion's own publication: none
    MaxRecords,     \* MAX_ARTIFACT_RECORDS
    CommitAttempts,       \* REBASE_ATTEMPTS and MANIFEST_COMMIT_ATTEMPTS
    MaxStFaults,      \* bound: how many file operations fail
    MaxRevision     \* bound: the last revision the Runtime commits on

ASSUME StoreAssumption ==
    /\ IsFiniteSet(Execs) /\ Tasks \subseteq Execs /\ IsFiniteSet(Artifacts)
    /\ NoExec \notin Execs /\ NoArtifact \notin Artifacts
    /\ MaxRecords \in Nat \ {0} /\ CommitAttempts \in Nat \ {0}
    /\ MaxStFaults \in Nat /\ MaxRevision \in Nat

VARIABLES
    \* durable
    revision,       \* store_revision
    execs,          \* the Runtime-owned part
    manifest,       \* the references with a record
    record,         \* what each record says: its owner and when it was made
    bytes,          \* the artifacts whose file is there
    \* memory
    core,           \* the Runtime commit under way
    port,           \* the artifact operation under way
    \* environment and history
    stFaults,
    expired,        \* the records past their time to live
    handed,           \* the references handed out
    answered        \* the records whose publisher was told of them

store == <<revision, execs, manifest, record>>
stVars  == <<revision, execs, manifest, record, bytes, core, port, stFaults, expired, handed, answered>>

NoneYet  == [e \in Execs |-> "absent"]
IdleCore == [pc |-> "idle", view |-> NoneYet, candidate |-> NoneYet, at |-> 0, tries |-> 0]
IdlePort == [pc |-> "idle", exec |-> NoExec, ref |-> NoArtifact, evict |-> {}, at |-> 0,
             tries |-> 0]

NoRecord == [exec |-> NoExec, made |-> 0]

Faulty == stFaults < MaxStFaults /\ stFaults' = stFaults + 1

HasExec(ts, e) == ts[e] \in {"open", "terminal"}

-----------------------------------------------------------------------------
(* The Runtime's commits.                                                  *)

\* A handler's change to one execution.
Changes(ts) == {[ts EXCEPT ![e] = "open"] : e \in {d \in Execs : ts[d] = "absent"}}
          \cup {[ts EXCEPT ![e] = "terminal"] : e \in {d \in Execs : ts[d] = "open"}}
          \cup {[ts EXCEPT ![e] = "pruned"] : e \in {d \in Execs : ts[d] = "terminal"}}

\* load, and the candidate the handler makes of it.
CoreLoad ==
    /\ core.pc = "idle" /\ revision < MaxRevision
    /\ \E candidate \in Changes(execs) :
          core' = [pc |-> "commit", view |-> execs, candidate |-> candidate,
                   at |-> revision, tries |-> 0]
    /\ UNCHANGED <<store, bytes, port, stFaults, expired, handed, answered>>

CoreDone == core' = IdleCore

\* Mutant: the attempt is committed as it was converted, which is without a manifest.
CoreStores_Converted ==
    /\ revision' = revision + 1
    /\ execs' = core.candidate
    /\ manifest' = {}
    /\ record' = [a \in Artifacts |-> NoRecord]

\* The attempt takes the manifest of the state it is committed on.
CoreStores ==
    /\ revision' = revision + 1
    /\ execs' = core.candidate
    /\ UNCHANGED <<manifest, record>>

CoreCommit ==
    /\ core.pc = "commit"
    /\ \/ /\ revision = core.at
          /\ CoreStores /\ CoreDone
          /\ UNCHANGED stFaults
       \/ /\ Faulty /\ CoreDone
          /\ \/ revision = core.at /\ CoreStores
             \/ UNCHANGED store
       \/ /\ revision # core.at
          /\ core' = [core EXCEPT !.pc = "reload"]
          /\ UNCHANGED <<store, stFaults>>
    /\ UNCHANGED <<bytes, port, expired, handed, answered>>

\* A conflict: only when nothing of the Runtime's own has changed is the commit tried
\* again, on the revision the store holds now.
CoreReload ==
    /\ core.pc = "reload"
    /\ IF execs = core.view /\ core.tries + 1 < CommitAttempts
         THEN core' = [core EXCEPT !.pc = "commit", !.at = revision, !.tries = @ + 1]
         ELSE CoreDone
    /\ UNCHANGED <<store, bytes, port, stFaults, expired, handed, answered>>

-----------------------------------------------------------------------------
(* The artifact port.                                                      *)

\* eligible_terminal_refs
Eligible == {a \in manifest : record[a].exec \in Tasks /\ execs[record[a].exec] = "terminal"}

\* plan_artifact_admission: what has expired goes, and of what may go as many of the
\* oldest as are in the way of one more record.  No plan at all is a refusal.
Plans ==
    LET kept   == manifest \ expired
        count  == Cardinality(kept) + 1
        excess == IF count > MaxRecords THEN count - MaxRecords ELSE 0
    IN {(manifest \cap expired) \cup old : old \in {s \in SUBSET (Eligible \cap kept) :
            /\ Cardinality(s) = excess
            /\ \A a \in s, b \in (Eligible \cap kept) \ s : record[a].made <= record[b].made}}

\* publish_kind up to its plan, under the port's lock.
BeginPublish(e, a) ==
    /\ port.pc = "idle"
    /\ a \notin handed
    /\ e \in Execs => HasExec(execs, e)
    /\ \E evict \in Plans :
          port' = [pc |-> IF evict = {} THEN "write" ELSE "evict", exec |-> e, ref |-> a,
                   evict |-> evict, at |-> revision, tries |-> 0]
    /\ handed' = handed \cup {a}
    /\ UNCHANGED <<store, bytes, core, stFaults, expired, answered>>

\* ArtifactPort::delete
BeginDelete(a) ==
    /\ port.pc = "idle"
    /\ a \in manifest
    /\ port' = [IdlePort EXCEPT !.pc = "evict", !.evict = {a}, !.at = revision]
    /\ UNCHANGED <<store, bytes, core, stFaults, expired, handed, answered>>

\* commit_manifest on a conflict: again on the revision the store holds now, or the
\* error the operation ends with.
Retries(ended) ==
    /\ revision # port.at
    /\ port' = IF port.tries + 1 < CommitAttempts
                 THEN [port EXCEPT !.at = revision, !.tries = @ + 1]
                 ELSE ended

\* The records go before their bytes.
CommitEviction ==
    /\ port.pc = "evict"
    /\ \/ /\ revision = port.at
          /\ manifest' = manifest \ port.evict
          /\ record' = [a \in Artifacts |-> IF a \in port.evict THEN NoRecord ELSE record[a]]
          /\ expired' = expired \ port.evict
          /\ answered' = answered \ port.evict
          /\ revision' = revision + 1
          /\ \/ port' = [port EXCEPT !.pc = "delete"] /\ UNCHANGED stFaults
             \/ Faulty /\ port' = IdlePort
       \/ Faulty /\ port' = IdlePort /\ UNCHANGED <<store, expired, answered>>
       \/ Retries(IdlePort) /\ UNCHANGED <<store, expired, answered, stFaults>>
    /\ UNCHANGED <<execs, bytes, core, handed>>

\* The bytes of the evicted records go; a publication then loads the state and its owner
\* again.  A file that cannot be deleted ends the operation.
DeleteEvicted ==
    /\ port.pc = "delete"
    /\ \/ /\ bytes' = bytes \ port.evict
          /\ port' = IF port.ref # NoArtifact /\ (port.exec \in Execs => HasExec(execs, port.exec))
                       THEN [port EXCEPT !.pc = "write", !.at = revision, !.tries = 0]
                       ELSE IdlePort
          /\ UNCHANGED stFaults
       \/ /\ Faulty
          /\ \E gone \in SUBSET port.evict : bytes' = bytes \ gone
          /\ port' = IdlePort
    /\ UNCHANGED <<store, core, expired, handed, answered>>

\* ArtifactStore::publish: a temporary file, and its rename.  Failing, it may leave the
\* renamed file behind.
WriteBytes ==
    /\ port.pc = "write"
    /\ \/ bytes' = bytes \cup {port.ref} /\ port' = [port EXCEPT !.pc = "record"] /\ UNCHANGED stFaults
       \/ Faulty /\ bytes' \in {bytes, bytes \cup {port.ref}} /\ port' = IdlePort
    /\ UNCHANGED <<store, core, expired, handed, answered>>

\* The owner the publication was planned for, resolved inside the store's lock.
StillOwned == port.exec \in Execs => HasExec(execs, port.exec)

RecordStored ==
    /\ revision' = revision + 1
    /\ manifest' = manifest \cup {port.ref}
    /\ record' = [record EXCEPT ![port.ref] = [exec |-> port.exec, made |-> revision + 1]]
    /\ UNCHANGED execs

CommitRecord ==
    /\ port.pc = "record"
    /\ \/ /\ revision = port.at /\ StillOwned
          /\ RecordStored
          /\ port' = IdlePort
          /\ answered' = answered \cup {port.ref}
          /\ UNCHANGED stFaults
       \/ /\ Faulty
          /\ \/ revision = port.at /\ StillOwned /\ RecordStored
             \/ UNCHANGED store
          /\ port' = [port EXCEPT !.pc = "undo"]
          /\ UNCHANGED answered
       \/ /\ revision = port.at /\ ~StillOwned
          /\ port' = [port EXCEPT !.pc = "undo"]
          /\ UNCHANGED <<store, answered, stFaults>>
       \/ Retries([port EXCEPT !.pc = "undo"]) /\ UNCHANGED <<store, answered, stFaults>>
    /\ UNCHANGED <<bytes, core, expired, handed>>

\* Mutant: the bytes that are removed again are those of every record of the execution.
UndoBytes_Execution ==
    /\ port.pc = "undo"
    /\ bytes' = {a \in bytes : a # port.ref /\ record[a].exec # port.exec}
    /\ port' = IdlePort
    /\ UNCHANGED <<store, core, stFaults, expired, handed, answered>>

\* The record was not committed, or so the port was told: the bytes go again, if they can.
UndoBytes ==
    /\ port.pc = "undo"
    /\ bytes' \in {bytes \ {port.ref}, bytes}
    /\ port' = IdlePort
    /\ UNCHANGED <<store, core, stFaults, expired, handed, answered>>

-----------------------------------------------------------------------------
Expires(a) ==
    /\ a \in manifest \ expired
    /\ expired' = expired \cup {a}
    /\ UNCHANGED <<store, bytes, core, port, stFaults, handed, answered>>

\* The process dies between any two steps; what is durable stays.
Crash ==
    /\ core.pc # "idle" \/ port.pc # "idle"
    /\ core' = IdleCore
    /\ port' = IdlePort
    /\ UNCHANGED <<store, bytes, stFaults, expired, handed, answered>>

StInit ==
    /\ revision = 0
    /\ execs = [e \in Execs |-> "absent"]
    /\ manifest = {} /\ bytes = {}
    /\ record = [a \in Artifacts |-> NoRecord]
    /\ core = IdleCore /\ port = IdlePort
    /\ stFaults = 0 /\ expired = {} /\ handed = {} /\ answered = {}

StNext ==
    \/ CoreLoad \/ CoreCommit \/ CoreReload
    \/ \E a \in Artifacts : (\E e \in Execs \cup {NoExec} : BeginPublish(e, a)) \/ BeginDelete(a)
    \/ CommitEviction \/ DeleteEvicted \/ WriteBytes \/ CommitRecord \/ UndoBytes
    \/ \E a \in Artifacts : Expires(a)
    \/ Crash

StSpec == StInit /\ [][StNext]_stVars

-----------------------------------------------------------------------------
(* Properties.                                                             *)

PartOf == [Execs -> {"absent", "open", "terminal", "pruned"}]

\* Every variable has its type, and no commit is tried more often than the limits of
\* runtime_port.rs and artifact.rs say.
StTypeOK ==
    /\ revision \in Nat /\ execs \in PartOf
    /\ manifest \subseteq Artifacts /\ bytes \subseteq Artifacts
    /\ record \in [Artifacts -> [exec : Execs \cup {NoExec}, made : Nat]]
    /\ core \in [pc : {"idle", "commit", "reload"}, view : PartOf, candidate : PartOf,
                 at : Nat, tries : 0..(CommitAttempts - 1)]
    /\ port \in [pc : {"idle", "evict", "delete", "write", "record", "undo"},
                 exec : Execs \cup {NoExec}, ref : Artifacts \cup {NoArtifact},
                 evict : SUBSET Artifacts, at : Nat, tries : 0..(CommitAttempts - 1)]
    /\ stFaults \in 0..MaxStFaults
    /\ expired \subseteq Artifacts /\ answered \subseteq Artifacts /\ handed \subseteq Artifacts

\* An artifact its publisher was told of can be read as long as it has a record, over
\* evictions, deletions, crashes and commits that land although they are reported as
\* failed: bytes are there before their record, and records go before their bytes
\* (artifact.rs publish_kind and delete).
PublishedIsReadable == answered \subseteq bytes

\* No writer overwrites the other: what changes of the Runtime's part is the candidate the
\* core made of exactly the part that is there, and a record disappears only by the
\* eviction or deletion that planned it (the rebase of runtime_port.rs, commit_manifest).
NoLostUpdate ==
    [][/\ execs' # execs => execs = core.view /\ execs' = core.candidate
       /\ manifest \ manifest' \subseteq port.evict
       /\ revision' \in {revision, revision + 1}]_stVars

=============================================================================
