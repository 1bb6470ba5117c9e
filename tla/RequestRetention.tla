-------------------------- MODULE RequestRetention --------------------------
(***************************************************************************)
(* What the canonical store remembers of its requests, and for how long:   *)
(* the dedup index (domain/src/dedup.rs), the Task history, synchronous    *)
(* results and retained mutation results that every Runtime handler prunes *)
(* with its own clock (runtime/src/core.rs), and the rules the store checks *)
(* on every candidate before it writes it (persistence/src/model.rs and    *)
(* validate_state in atomic.rs).                                           *)
(*                                                                         *)
(* Every handler is one commit under the mutation lock, so it is one step. *)
(* A Task's driver settles it with the clock of its admission: the caller  *)
(* passes its own now_ms to the run_task it spawns.  What happens between  *)
(* the commits is module TaskRuntime; here the disk always takes writes,   *)
(* so the only I/O error is a candidate the store finds corrupt.           *)
(***************************************************************************)
EXTENDS Naturals, FiniteSets

CONSTANTS
    Requests,       \* request ids
    NoRequest,      \* the request of no Task
    TaskIds,        \* the Task ids handed out, each once
    Window,         \* REQUEST_RETENTION_MS
    History,        \* TASK_HISTORY_RETENTION_MS
    MaxTerminal,    \* MAX_TERMINAL_TASKS
    MaxRetained,    \* MAX_RETAINED_REQUESTS
    MaxClock,       \* bound: the last instant
    ReuseIds        \* whether clients use a request id again after its window

ASSUME RetentionAssumption ==
    /\ IsFiniteSet(Requests) /\ IsFiniteSet(TaskIds) /\ NoRequest \notin Requests
    /\ Window \in Nat \ {0} /\ History \in Nat
    /\ MaxTerminal \in Nat \ {0} /\ MaxRetained \in Nat \ {0}
    /\ MaxClock \in Nat
    /\ ReuseIds \in BOOLEAN

VARIABLES
    clock,
    dedup,          \* [Requests -> the retained request]
    history,          \* [TaskIds -> the canonical Task]
    syncs,          \* [Requests -> the request's synchronous execution]
    mutations,      \* the requests with a retained mutation result
    given,          \* history: the Task ids already handed out
    sent,           \* history: the request ids ever admitted
    corrupt         \* history: a handler built a candidate the store finds corrupt

rrVars == <<clock, dedup, history, syncs, mutations, given, sent, corrupt>>

Unretained == [held |-> FALSE, settled |-> FALSE, expiry |-> 0]
NoTask  == [state |-> "absent", request |-> NoRequest, created |-> 0, ended |-> 0]
NoSync  == [state |-> "absent", at |-> 0]

-----------------------------------------------------------------------------
(* DedupIndex                                                              *)

\* An entry that has not expired; an unsettled one never does.
Live(entry, now) == entry.held /\ (entry.settled => entry.expiry > now)

\* decide_and_reserve: expired entries are dropped before the decision.
DropExpired(ds, now) == [r \in Requests |-> IF Live(ds[r], now) THEN ds[r] ELSE Unretained]

\* decide_and_reserve answers Admit.
MayReserve(ds, r, now) ==
    /\ ~Live(ds[r], now)
    /\ Cardinality({q \in Requests : Live(ds[q], now)}) < MaxRetained

Reserve(ds, r, now) ==
    [DropExpired(ds, now) EXCEPT ![r] = [held |-> TRUE, settled |-> FALSE, expiry |-> 0]]

\* settle: the expiry is set once.
Expire(entry, at) ==
    IF entry.settled THEN entry
                     ELSE [held |-> TRUE, settled |-> TRUE, expiry |-> at + Window]

-----------------------------------------------------------------------------
(* Pruning                                                                 *)

TerminalIds(ts) == {i \in TaskIds : ts[i].state = "terminal"}

\* Mutant: only a request that is not settled pins its Task.
Pinned_Unsettled(ts, ds, i, now) ==
    /\ ts[i].state # "absent"
    /\ ds[ts[i].request].held /\ ~ds[ts[i].request].settled

Pinned(ts, ds, i, now) == ts[i].state # "absent" /\ Live(ds[ts[i].request], now)

\* The terminal Tasks older than the history retention that no request pins.
Aged(ts, ds, now) ==
    {i \in TerminalIds(ts) : /\ ~Pinned(ts, ds, i, now)
                             /\ ts[i].ended <= (IF now >= History THEN now - History ELSE 0)}

\* The sets prune_task_history may remove: the aged Tasks, and of the rest as many
\* unpinned ones as exceed the limit, the oldest first.  No set at all is the error
\* "Task history is pinned by replay retention".
Prunable(ts, ds, now) ==
    LET aged   == Aged(ts, ds, now)
        kept   == TerminalIds(ts) \ aged
        free   == {i \in kept : ~Pinned(ts, ds, i, now)}
        excess == IF Cardinality(kept) > MaxTerminal THEN Cardinality(kept) - MaxTerminal ELSE 0
    IN {aged \cup old : old \in {s \in SUBSET free :
            /\ Cardinality(s) = excess
            /\ \A i \in s, j \in free \ s : ts[i].created <= ts[j].created}}

Without(ts, removed) == [i \in TaskIds |-> IF i \in removed THEN NoTask ELSE ts[i]]

\* Mutant: synchronous results are never pruned.
PruneSyncs_Never(ys, ds, now) == ys

\* prune_synchronous_history and prune_retained_mutations.
PruneSyncs(ys, ds, now) ==
    [r \in Requests |-> IF ys[r].state = "terminal" /\ ~Live(ds[r], now) THEN NoSync ELSE ys[r]]
PruneMutations(ms, ds, now) == {r \in ms : Live(ds[r], now)}

-----------------------------------------------------------------------------
(***************************************************************************)
(* The commit.  A candidate with two results for one retained request, a   *)
(* result without its request, or a request whose expiry does not match    *)
(* its result is corrupt: an I/O error, for which the core withdraws       *)
(* readiness.  One with too many terminal Tasks is refused as a limit.     *)
(***************************************************************************)
Owned(ts, r) == {i \in TaskIds : ts[i].state # "absent" /\ ts[i].request = r}

Results(ts, ys, ms, r) ==
    Cardinality(Owned(ts, r)) + (IF ys[r].state # "absent" THEN 1 ELSE 0)
                              + (IF r \in ms THEN 1 ELSE 0)

Canonical(ds, ts, ys, ms) ==
    \A r \in Requests :
        /\ ds[r].held => Results(ts, ys, ms, r) <= 1
        /\ (ys[r].state # "absent" \/ r \in ms) => ds[r].held
        /\ ds[r].held =>
              /\ \A i \in Owned(ts, r) : (ts[i].state = "terminal") = ds[r].settled
              /\ ys[r].state # "absent" => (ys[r].state = "terminal") = ds[r].settled
              /\ r \in ms => ds[r].settled

Commit(ds, ts, ys, ms) ==
    /\ Cardinality(TerminalIds(ts)) <= MaxTerminal
    /\ IF Canonical(ds, ts, ys, ms)
         THEN /\ dedup' = ds /\ history' = ts /\ syncs' = ys /\ mutations' = ms
              /\ UNCHANGED corrupt
         ELSE /\ corrupt' = TRUE
              /\ UNCHANGED <<dedup, history, syncs, mutations>>

-----------------------------------------------------------------------------
(* The handlers.                                                           *)

\* Whether a client sends r as a new request now.
Sends(r) == (r \in sent => ReuseIds) /\ sent' = sent \cup {r}

\* Mutant: no place in the history is kept for the Task's settlement.
AdmitTask_Unreserved(r, i) ==
    LET ds == Reserve(dedup, r, clock) IN
    /\ i \notin given
    /\ Sends(r)
    /\ MayReserve(dedup, r, clock)
    /\ \E removed \in Prunable(history, ds, clock) :
          Commit(ds, [Without(history, removed) EXCEPT ![i] =
                        [state |-> "open", request |-> r, created |-> clock, ended |-> 0]],
                 PruneSyncs(syncs, dedup, clock), PruneMutations(mutations, dedup, clock))
    /\ given' = given \cup {i}
    /\ UNCHANGED clock

\* admit_task
AdmitTask(r, i) ==
    LET ds == Reserve(dedup, r, clock) IN
    /\ i \notin given
    /\ Sends(r)
    /\ MayReserve(dedup, r, clock)
    /\ \E removed \in Prunable(history, ds, clock) :
         LET kept == Without(history, removed)
             ts   == [kept EXCEPT ![i] = [state |-> "open", request |-> r,
                                          created |-> clock, ended |-> 0]]
         IN /\ Cardinality({j \in TaskIds : Pinned(kept, ds, j, clock)}) < MaxTerminal
            /\ Commit(ds, ts, PruneSyncs(syncs, dedup, clock),
                              PruneMutations(mutations, dedup, clock))
    /\ given' = given \cup {i}
    /\ UNCHANGED clock

\* The settlement of an open Task with the caller's clock: settle_once with the clock
\* of the admission, cancel_task with that of the cancel call.
SettledDedup(i, now) == [dedup EXCEPT ![history[i].request] = Expire(@, now)]
SettledTasks(i)      == [history EXCEPT ![i].state = "terminal", ![i].ended = clock]

SettleTask(i, now) ==
    /\ history[i].state = "open" /\ dedup[history[i].request].held
    /\ \E removed \in Prunable(SettledTasks(i), SettledDedup(i, now), now) :
          Commit(SettledDedup(i, now), Without(SettledTasks(i), removed), syncs, mutations)
    /\ UNCHANGED <<clock, given, sent>>

SettleByDriver(i)    == SettleTask(i, history[i].created)
SettleByCanceller(i) == SettleTask(i, clock)

\* get_task, list_tasks and a cancel_task that finds nothing to do: all they change is
\* what they pruned, and without anything to prune they only read.
ReadTasks ==
    /\ \E removed \in Prunable(history, dedup, clock) :
          Commit(dedup, Without(history, removed), syncs, mutations)
    /\ UNCHANGED <<clock, given, sent>>

\* run_synchronous up to its admission
AdmitSync(r) ==
    /\ Sends(r)
    /\ MayReserve(dedup, r, clock)
    /\ Commit(Reserve(dedup, r, clock), history,
              [PruneSyncs(syncs, dedup, clock) EXCEPT ![r] = [state |-> "open", at |-> clock]],
              PruneMutations(mutations, dedup, clock))
    /\ UNCHANGED <<clock, given>>

\* settle_synchronous, with the clock of the admission
SettleSync(r) ==
    /\ syncs[r].state = "open" /\ dedup[r].held
    /\ Commit([dedup EXCEPT ![r] = Expire(@, syncs[r].at)], history,
              [syncs EXCEPT ![r].state = "terminal"], mutations)
    /\ UNCHANGED <<clock, given, sent>>

\* retained_mutation
RetainMutation(r) ==
    /\ Sends(r)
    /\ MayReserve(dedup, r, clock)
    /\ Commit([Reserve(dedup, r, clock) EXCEPT ![r] = Expire(@, clock)], history,
              PruneSyncs(syncs, dedup, clock),
              PruneMutations(mutations, dedup, clock) \cup {r})
    /\ UNCHANGED <<clock, given>>

\* A restart: recover_old_instance settles all that the dead instance left open.
Recover ==
    LET lost(r) == syncs[r].state = "open" \/ \E i \in Owned(history, r) : history[i].state = "open"
        ds == [r \in Requests |-> IF lost(r) /\ dedup[r].held THEN Expire(dedup[r], clock)
                                                              ELSE dedup[r]]
        ts == [i \in TaskIds |-> IF history[i].state = "open"
                                   THEN [history[i] EXCEPT !.state = "terminal", !.ended = clock]
                                   ELSE history[i]]
        ys == [r \in Requests |-> IF syncs[r].state = "open"
                                    THEN [syncs[r] EXCEPT !.state = "terminal"] ELSE syncs[r]]
    IN /\ \E r \in Requests : lost(r)
       /\ \E removed \in Prunable(ts, ds, clock) :
             Commit(ds, Without(ts, removed), PruneSyncs(ys, ds, clock), mutations)
       /\ UNCHANGED <<clock, given, sent>>

Tick == /\ clock < MaxClock
        /\ clock' = clock + 1
        /\ UNCHANGED <<dedup, history, syncs, mutations, given, sent, corrupt>>

RrInit ==
    /\ clock = 0
    /\ dedup = [r \in Requests |-> Unretained]
    /\ history = [i \in TaskIds |-> NoTask]
    /\ syncs = [r \in Requests |-> NoSync]
    /\ mutations = {}
    /\ given = {} /\ sent = {}
    /\ corrupt = FALSE

RrNext ==
    \/ \E r \in Requests, i \in TaskIds : AdmitTask(r, i)
    \/ \E i \in TaskIds : SettleByDriver(i) \/ SettleByCanceller(i)
    \/ ReadTasks
    \/ \E r \in Requests : AdmitSync(r) \/ SettleSync(r) \/ RetainMutation(r)
    \/ Recover
    \/ Tick

RrSpec == RrInit /\ [][RrNext]_rrVars

-----------------------------------------------------------------------------
(* Properties.                                                             *)

\* Every variable has its type.
RrTypeOK ==
    /\ clock \in 0..MaxClock
    /\ dedup \in [Requests -> [held : BOOLEAN, settled : BOOLEAN, expiry : Nat]]
    /\ history \in [TaskIds -> [state : {"absent", "open", "terminal"},
                             request : Requests \cup {NoRequest},
                             created : Nat, ended : Nat]]
    /\ syncs \in [Requests -> [state : {"absent", "open", "terminal"}, at : Nat]]
    /\ mutations \subseteq Requests
    /\ given \subseteq TaskIds /\ sent \subseteq Requests
    /\ corrupt \in BOOLEAN

\* No handler ever builds a candidate the store refuses as corrupt, which would take a
\* healthy Runtime out of ready.  The comment on prune_expired_requests (core.rs:1604)
\* promises it of every admission path, and so does CHANGELOG.md:210.
NeverCorrupt == ~corrupt

\* A replay finds the result of its request: while a dedup entry is live, no prune by
\* any handler has taken the Task, synchronous execution or mutation it stands for (the
\* InternalError answers of admit_task, run_synchronous and retained_mutation).
ReplayFindsItsResult ==
    \A r \in Requests : Live(dedup[r], clock) => Results(history, syncs, mutations, r) = 1

\* An admitted Task can always be settled: its dedup entry is there, and the history
\* never holds so many pinned Tasks that its settlement cannot be pruned into the limit,
\* whichever clock the settling path brings (core.rs:540-551 and prune_task_history).
SettlementHasRoom ==
    \A i \in TaskIds : history[i].state = "open" =>
        /\ dedup[history[i].request].held
        /\ \A now \in {history[i].created, clock} :
              Prunable(SettledTasks(i), SettledDedup(i, now), now) # {}

=============================================================================
