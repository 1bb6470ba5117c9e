--------------------------- MODULE Automation_proofs ---------------------------
(***************************************************************************)
(* What holds of Automations for any number of them and of executions, for *)
(* every interval and limit, and however often writes fail and processes   *)
(* die.                                                                    *)
(*                                                                         *)
(* OneOwner and ServedOnce are about the store alone, and every commit is  *)
(* a transformation of it: the proofs show what each transformation keeps, *)
(* and then that the tool, the scheduler, the drivers and the recovery     *)
(* commit nothing else.  That a child is followed by a driver that waits   *)
(* for it needs what the drivers know of the store: none drives an         *)
(* execution that is not there, and none twice.                            *)
(*                                                                         *)
(* The last sections show that Automation implements AutomationContract:   *)
(* one lemma for each kind of step the contract has, then one for each     *)
(* action, from WorkInv, which adds what drivers and cancellers have read, *)
(* and from the count of failures, which only grows.                       *)
(***************************************************************************)
EXTENDS Automation, FiniteSetTheorems, TLAPS

AutoStates == [st : {"unborn", "visible", "deleted", "gone"}, enabled : BOOLEAN,
               trigger : {"at", "interval", "runtime.ready", "network.default_changed"},
               due : Nat, requested : BOOLEAN, active : Nat]
ExecStates == [state : {"absent", "queued", "running"} \cup Terminal,
               owner : Autos \cup {"none"}, at : Nat, by : {"none", "request", "due", "event"}]
TaskStates == [state : TaskState, cancel : BOOLEAN]
Stores == [auto : [Autos -> AutoStates], exec : [Execs -> ExecStates], task : [Execs -> TaskStates]]
DriverStates == [pc : {"none", "start", "run", "child", "settle"},
                 out : {"none"} \cup Terminal, visits : Nat]
ChildStates == {"none", "active", "asked", "settled", "left"}

\* An execution and its container Task agree, and its Automation names it while it is not
\* over (the first half of OneOwner).
ExecOK(s, e) ==
    /\ s.task[e].state \in Live => s.exec[e].state = s.task[e].state
    /\ s.exec[e].state \in Live => /\ s.task[e].state = s.exec[e].state
                                   /\ s.exec[e].owner \in Autos
                                   /\ s.auto[s.exec[e].owner].active = e
    /\ s.exec[e].state \in Terminal => s.task[e].state = s.exec[e].state

\* The execution an Automation names is its own and not over (the second half).
AutoOK(s, a) ==
    /\ s.auto[a].active # None => /\ s.auto[a].active \in Execs
                                  /\ s.exec[s.auto[a].active].state \in Live
                                  /\ s.exec[s.auto[a].active].owner = a
    /\ s.auto[a].st = "deleted" => s.auto[a].active # None
    /\ s.auto[a].st \in {"unborn", "gone"} => \A e \in Execs : s.exec[e].owner # a

\* The occurrences served lie before the clock and before their Automation's due, each at
\* its own instant.
DueOK(s, t) ==
    /\ \A e \in Execs : s.exec[e].by = "due" =>
          s.exec[e].owner \in Autos /\ s.exec[e].at <= t /\ s.auto[s.exec[e].owner].due > s.exec[e].at
    /\ \A e, f \in Execs : /\ e # f /\ s.exec[e].by = "due" /\ s.exec[f].by = "due"
                           /\ s.exec[e].owner = s.exec[f].owner
                           => s.exec[f].at # s.exec[e].at

StoreOK(s, t) ==
    /\ s \in Stores
    /\ \A e \in Execs : ExecOK(s, e)
    /\ \A a \in Autos : AutoOK(s, a)
    /\ DueOK(s, t)

\* A driver has an execution, one that was admitted and waits to be started has no driver
\* yet, and a driver that settles knows the outcome.
DriversOK ==
    /\ \A e \in Execs : /\ drv[e].pc # "none" => store.task[e].state # "absent"
                        /\ drv[e].pc = "settle" => drv[e].out \in Terminal
    /\ \A e \in sched.held : drv[e].pc = "none" /\ store.task[e].state # "absent"

Passes == [pc : {"down", "ready", "recover", "requested", "due", "wait", "event", "paused",
                 "ended"},
           todo : SUBSET Autos, at : Nat, blocked : SUBSET Autos, held : SUBSET Execs]

\* A child that is followed has a driver that waits for it.
ChildAwaited == \A e \in Execs : child[e] \in Followed => drv[e].pc = "child"

SchedTypeOK ==
    /\ drv \in [Execs -> DriverStates]
    /\ child \in [Execs -> ChildStates]
    /\ now \in 0..MaxNow
    /\ sched \in Passes
    /\ sched.at <= now

AutoInv == StoreOK(store, now) /\ SchedTypeOK /\ DriversOK /\ ChildAwaited

-----------------------------------------------------------------------------
(* Numbers, instants and lifecycles.                                       *)

\* The constants are numbers.
LEMMA Bounds ==
  /\ MaxExecutions \in Nat \ {0} /\ Every \in Nat \ {0} /\ MaxNow \in Nat
  /\ NoDue \in Nat /\ NoDue > MaxNow
  /\ Execs \subseteq Nat \ {0} /\ None = 0
  /\ "none" \notin Autos
BY AutomationAssumption DEF NoDue, Execs, None

\* The next execution is the first that was never used.
LEMMA MinUnused ==
  ASSUME NEW s, Unused(s) # {}
  PROVE  Min(Unused(s)) \in Unused(s)
<1>1. Unused(s) \subseteq Nat
  BY Bounds DEF Unused
<1>2. PICK m \in Unused(s) : \A n \in Unused(s) : ~(<<n, m>> \in OpToRel(<, Nat))
  BY <1>1, WFMin, NatLessThanWellFounded
<1>3. \A n \in Unused(s) : ~(n < m)
  <2> SUFFICES ASSUME NEW n \in Unused(s), n < m PROVE <<n, m>> \in OpToRel(<, Nat)
    BY <1>2
  <2>1. <<n, m>> \in Nat \X Nat
    BY <1>1
  <2> QED
    BY <2>1 DEF OpToRel
<1>4. \A n \in Unused(s) : m <= n
  BY <1>1, <1>3
<1> QED
  BY <1>4 DEF Min

\* A new schedule is the old one, or lies after the clock.
LEMMA ScheduledIs ==
  ASSUME now \in 0..MaxNow, NEW old \in AutoStates, NEW trigger, NEW enabled
  PROVE  /\ ScheduledDue(old, trigger, enabled) \in Nat
         /\ ScheduledDue(old, trigger, enabled) = old.due \/ ScheduledDue(old, trigger, enabled) > now
<1>1. now \in Nat /\ NoDue \in Nat /\ NoDue > now /\ Every \in Nat \ {0}
  BY Bounds
<1>2. InitialDue(trigger) \in Nat /\ InitialDue(trigger) > now
  BY <1>1 DEF InitialDue
<1> QED
  BY <1>1, <1>2 DEF ScheduledDue, AutoStates

\* The due after an admission lies after the one that was admitted.
LEMMA NextDueIs ==
  ASSUME NEW due \in Nat, NEW t \in Nat, due <= t, t <= MaxNow, NEW trigger
  PROVE  NextDue(trigger, due, t) \in Nat /\ NextDue(trigger, due, t) > due
<1>1. Every \in Nat /\ Every > 0 /\ t - due \in Nat /\ NoDue \in Nat /\ NoDue > due
  BY Bounds
<1>2. (t - due) \div Every \in Nat
  BY <1>1
<1> DEFINE k == (t - due) \div Every
<1>3. k + 1 \in Nat /\ k + 1 >= 1
  BY <1>2
<1> HIDE DEF k
<1>4. (k + 1) * Every \in Nat /\ (k + 1) * Every > 0
  BY <1>1, <1>3
<1> DEFINE step == (k + 1) * Every
<1> HIDE DEF step
<1>5. due + step \in Nat /\ due + step > due
  BY <1>4 DEF step
<1> QED
  BY <1>1, <1>5 DEF NextDue, k, step

\* What the events of this module make of a Task.
LEMMA TaskAfter ==
  ASSUME NEW lc \in TaskStates
  PROVE  /\ After(NewLifecycle, Event("Queue")) \in TaskStates
         /\ After(NewLifecycle, Event("Queue")).state = "queued"
         /\ After(lc, Event("Start")) \in TaskStates /\ After(lc, Event("Start")).state = "running"
         /\ After(lc, Event("RequestCancel")) \in TaskStates
         /\ After(lc, Event("RequestCancel")).state = lc.state
         /\ \A how \in Terminal : /\ SettledTask(lc, how) \in TaskStates
                                  /\ SettledTask(lc, how).state = how
<1>1. /\ After(NewLifecycle, Event("Queue")) \in TaskStates
      /\ After(NewLifecycle, Event("Queue")).state = "queued"
  BY DEF After, NewLifecycle, Event, Selects, TaskStates, TaskState
<1>2. After(lc, Event("Start")) \in TaskStates /\ After(lc, Event("Start")).state = "running"
  BY DEF After, Event, Selects, TaskStates, TaskState
<1>3. ASSUME NEW l \in TaskStates
      PROVE  /\ After(l, Event("RequestCancel")) \in TaskStates
             /\ After(l, Event("RequestCancel")).state = l.state
  BY DEF After, Event, TaskStates
<1>4. ASSUME NEW l \in TaskStates, NEW how \in Terminal
      PROVE  /\ After(l, SettleEvent(how)) \in TaskStates
             /\ After(l, SettleEvent(how)).state = how
  BY DEF After, SettleEvent, Event, Selects, TaskStates, TaskState, Terminal
<1>5. ASSUME NEW how \in Terminal
      PROVE  SettledTask(lc, how) \in TaskStates /\ SettledTask(lc, how).state = how
  BY <1>3, <1>4 DEF SettledTask
<1> QED
  BY <1>1, <1>2, <1>3, <1>5

-----------------------------------------------------------------------------
(* What each transformation of the store keeps.                            *)

\* A record of an Automation that keeps its execution, and does not go back in time.
LEMMA RecordOK ==
  ASSUME NEW s, NEW t \in Nat, StoreOK(s, t), NEW a \in Autos, NEW r \in AutoStates,
         r.active = s.auto[a].active,
         r.due >= s.auto[a].due \/ r.due > t,
         \/ r.st \in {"visible", s.auto[a].st}
         \/ r.st = "deleted" /\ r.active # None
  PROVE  StoreOK([s EXCEPT !.auto[a] = r], t)
<1> DEFINE u == [s EXCEPT !.auto[a] = r]
<1>1. /\ u \in Stores /\ u.exec = s.exec /\ u.task = s.task /\ u.auto[a] = r
      /\ \A b \in Autos \ {a} : u.auto[b] = s.auto[b]
  BY DEF StoreOK, Stores
<1> HIDE DEF u
<1>2. ASSUME NEW e \in Execs PROVE ExecOK(u, e)
  BY <1>1 DEF StoreOK, ExecOK
<1>3. ASSUME NEW b \in Autos PROVE AutoOK(u, b)
  BY <1>1 DEF StoreOK, AutoOK
<1>4. DueOK(u, t)
  BY <1>1 DEF StoreOK, DueOK, Stores, AutoStates, ExecStates
<1> QED
  BY <1>1, <1>2, <1>3, <1>4 DEF StoreOK, u

\* Without(s, gone) has the executions of s but those.
LEMMA WithoutIs ==
  ASSUME NEW s \in Stores, NEW gone
  PROVE  /\ Without(s, gone) \in Stores
         /\ Without(s, gone).auto = s.auto /\ Without(s, gone).task = s.task
         /\ \A e \in Execs : Without(s, gone).exec[e] = IF e \in gone THEN NoExecution ELSE s.exec[e]
<1>1. NoExecution \in ExecStates
  BY DEF NoExecution, ExecStates
<1>2. [e \in Execs |-> IF e \in gone THEN NoExecution ELSE s.exec[e]] \in [Execs -> ExecStates]
  BY <1>1 DEF Stores
<1> QED
  BY <1>2 DEF Without, Stores

\* Executions that are over may leave the history.
LEMMA EndedOK ==
  ASSUME NEW s, NEW t \in Nat, StoreOK(s, t), NEW gone, gone \subseteq Ended(s)
  PROVE  StoreOK(Without(s, gone), t)
<1> DEFINE u == Without(s, gone)
<1>1. /\ u \in Stores /\ u.auto = s.auto /\ u.task = s.task
      /\ \A e \in Execs : u.exec[e] = IF e \in gone THEN NoExecution ELSE s.exec[e]
  BY WithoutIs DEF StoreOK
<1> HIDE DEF u
<1>2. \A e \in gone : e \in Execs /\ s.exec[e].state \in Terminal
  BY DEF Ended
<1>3. ASSUME NEW e \in Execs PROVE ExecOK(u, e)
  BY <1>1, <1>2 DEF StoreOK, ExecOK, NoExecution, Live, Terminal
<1>4. ASSUME NEW a \in Autos PROVE AutoOK(u, a)
  <2>1. AutoOK(s, a)
    BY DEF StoreOK
  <2>2. ASSUME u.auto[a].active # None
        PROVE  /\ u.auto[a].active \in Execs /\ u.exec[u.auto[a].active].state \in Live
               /\ u.exec[u.auto[a].active].owner = a
    <3>1. s.auto[a].active \in Execs /\ s.auto[a].active \notin gone
      BY <1>1, <1>2, <2>1, <2>2 DEF AutoOK, Live, Terminal
    <3> QED
      BY <1>1, <2>1, <2>2, <3>1 DEF AutoOK
  <2>3. \A e \in Execs : u.exec[e].owner = a => s.exec[e].owner = a
    BY <1>1, Bounds DEF NoExecution
  <2> QED
    BY <1>1, <2>1, <2>2, <2>3 DEF AutoOK
<1>5. DueOK(u, t)
  BY <1>1 DEF StoreOK, DueOK, NoExecution
<1> QED
  BY <1>1, <1>3, <1>4, <1>5 DEF StoreOK, u

\* prune_execution_history takes only executions that are over.
LEMMA PrunedOK ==
  ASSUME NEW s, NEW t \in Nat, StoreOK(s, t), NEW a
  PROVE  StoreOK(Pruned(s, a), t)
<1> DEFINE g == Excess(s.exec, OwnedBy(s, a) \cap Ended(s), MaxHistory)
           one == Without(s, g)
           h == Excess(one.exec, Ended(one), MaxHistoryAll)
<1>1. g \subseteq Ended(s)
  BY DEF Excess
<1> HIDE DEF g
<1>2. StoreOK(one, t)
  BY <1>1, EndedOK
<1>3. h \subseteq Ended(one)
  BY DEF Excess
<1> HIDE DEF one, h
<1>4. StoreOK(Without(one, h), t)
  BY <1>2, <1>3, EndedOK
<1> QED
  BY <1>4 DEF Pruned, one, h, g

\* A store in which the Automation a has no execution that is not over; only what a itself
\* says of its execution may be out of date.
Quiesced(s, t, a) ==
    /\ s \in Stores
    /\ \A e \in Execs : ExecOK(s, e)
    /\ \A b \in Autos \ {a} : AutoOK(s, b)
    /\ \A e \in Execs : s.exec[e].owner = a => s.exec[e].state \notin Live
    /\ DueOK(s, t)

\* Such an Automation can be removed with its history.
LEMMA GoneOK ==
  ASSUME NEW s, NEW t \in Nat, NEW a \in Autos, Quiesced(s, t, a)
  PROVE  StoreOK([Without(s, OwnedBy(s, a)) EXCEPT !.auto[a] = Removed("gone")], t)
<1> DEFINE w == Without(s, OwnedBy(s, a))
           u == [w EXCEPT !.auto[a] = Removed("gone")]
<1>1. /\ w \in Stores /\ w.auto = s.auto /\ w.task = s.task
      /\ \A e \in Execs : w.exec[e] = IF e \in OwnedBy(s, a) THEN NoExecution ELSE s.exec[e]
  BY WithoutIs DEF Quiesced
<1>2. Removed("gone") \in AutoStates /\ Removed("gone").active = None /\ Removed("gone").st = "gone"
  BY Bounds DEF Removed, NoAutomation, AutoStates
<1> HIDE DEF w
<1>3. /\ u \in Stores /\ u.task = s.task /\ u.exec = w.exec
      /\ u.auto[a] = Removed("gone") /\ \A b \in Autos \ {a} : u.auto[b] = s.auto[b]
  BY <1>1, <1>2 DEF Stores
<1> HIDE DEF u
<1>4. \A e \in Execs : u.exec[e] = IF s.exec[e].owner = a THEN NoExecution ELSE s.exec[e]
  BY <1>1, <1>3 DEF OwnedBy
<1>5. ASSUME NEW e \in Execs PROVE ExecOK(u, e)
  BY <1>3, <1>4 DEF Quiesced, ExecOK, NoExecution, Live, Terminal
<1>6. ASSUME NEW b \in Autos PROVE AutoOK(u, b)
  <2>1. CASE b = a
    BY <1>2, <1>3, <1>4, <2>1, Bounds DEF AutoOK, NoExecution
  <2>2. CASE b # a
    <3>1. AutoOK(s, b) /\ u.auto[b] = s.auto[b]
      BY <1>3, <2>2 DEF Quiesced
    <3>2. \A e \in Execs : s.exec[e].owner = b => u.exec[e] = s.exec[e]
      BY <1>4, <2>2
    <3>3. \A e \in Execs : u.exec[e].owner = b => s.exec[e].owner = b
      BY <1>4, Bounds DEF NoExecution
    <3> QED
      BY <3>1, <3>2, <3>3 DEF AutoOK
  <2> QED
    BY <2>1, <2>2
<1>7. DueOK(u, t)
  BY <1>3, <1>4, Bounds DEF Quiesced, DueOK, NoExecution
<1> QED
  BY <1>3, <1>5, <1>6, <1>7 DEF StoreOK, u, w

\* One that stays is no longer busy.
LEMMA FreedOK ==
  ASSUME NEW s, NEW t \in Nat, NEW a \in Autos, Quiesced(s, t, a),
         s.auto[a].st = "visible"
  PROVE  StoreOK([s EXCEPT !.auto[a].active = None], t)
<1> DEFINE u == [s EXCEPT !.auto[a].active = None]
<1>1. /\ u \in Stores /\ u.exec = s.exec /\ u.task = s.task
      /\ u.auto[a].active = None /\ u.auto[a].st = "visible" /\ u.auto[a].due = s.auto[a].due
      /\ \A b \in Autos \ {a} : u.auto[b] = s.auto[b]
  BY Bounds DEF Quiesced, Stores, AutoStates
<1> HIDE DEF u
<1>2. ASSUME NEW e \in Execs PROVE ExecOK(u, e)
  BY <1>1 DEF Quiesced, ExecOK
<1>3. ASSUME NEW b \in Autos PROVE AutoOK(u, b)
  BY <1>1 DEF Quiesced, AutoOK
<1>4. DueOK(u, t)
  BY <1>1 DEF Quiesced, DueOK
<1> QED
  BY <1>1, <1>2, <1>3, <1>4 DEF StoreOK, u

\* The settled execution's Automation has none left.
LEMMA DoneQuiesced ==
  ASSUME NEW s, NEW t \in Nat, StoreOK(s, t), NEW e \in Execs, MaySettle(s, e),
         NEW how \in Terminal
  PROVE  /\ s.exec[e].owner \in Autos /\ s.auto[s.exec[e].owner].st \in {"visible", "deleted"}
         /\ Quiesced([s EXCEPT !.task[e] = SettledTask(@, how), !.exec[e].state = how], t,
                     s.exec[e].owner)
<1> DEFINE a == s.exec[e].owner
           u == [s EXCEPT !.task[e] = SettledTask(@, how), !.exec[e].state = how]
<1>1. /\ a \in Autos /\ s.auto[a].active = e /\ s.exec[e].state \in Live
      /\ s \in Stores /\ s.task[e] \in TaskStates
  BY DEF StoreOK, ExecOK, MaySettle, Stores
<1>2. SettledTask(s.task[e], how) \in TaskStates /\ SettledTask(s.task[e], how).state = how
  BY <1>1, TaskAfter
<1>3. /\ u \in Stores /\ u.auto = s.auto
      /\ u.task[e].state = how /\ \A f \in Execs \ {e} : u.task[f] = s.task[f]
      /\ u.exec[e].state = how /\ \A f \in Execs \ {e} : u.exec[f] = s.exec[f]
      /\ u.exec[e].owner = a /\ u.exec[e].by = s.exec[e].by /\ u.exec[e].at = s.exec[e].at
  BY <1>1, <1>2 DEF Stores, ExecStates
<1>4. s.auto[a].st \in {"visible", "deleted"}
  BY <1>1 DEF StoreOK, AutoOK, Stores, AutoStates
<1> HIDE DEF u
<1>5. ASSUME NEW f \in Execs PROVE ExecOK(u, f)
  BY <1>3 DEF StoreOK, ExecOK, Live, Terminal
<1>6. ASSUME NEW b \in Autos, b # a PROVE AutoOK(u, b)
  <2>1. AutoOK(s, b)
    BY DEF StoreOK
  <2>2. s.auto[b].active # e
    BY <1>1, <1>6, <2>1, Bounds DEF AutoOK
  <2>3. \A f \in Execs : u.exec[f].owner = s.exec[f].owner
    BY <1>3
  <2> QED
    BY <1>3, <2>1, <2>2, <2>3 DEF AutoOK
<1>7. ASSUME NEW f \in Execs, u.exec[f].owner = a PROVE u.exec[f].state \notin Live
  <2>1. CASE f = e
    BY <1>3, <2>1 DEF Live, Terminal
  <2>2. CASE f # e
    BY <1>1, <1>3, <1>7, <2>2 DEF StoreOK, ExecOK
  <2> QED
    BY <2>1, <2>2
<1>8. DueOK(u, t)
  BY <1>3 DEF StoreOK, DueOK
<1> QED
  BY <1>1, <1>3, <1>4, <1>5, <1>6, <1>7, <1>8 DEF Quiesced, u

\* settle_automation_in_state
LEMMA SettledOK ==
  ASSUME NEW s, NEW t \in Nat, StoreOK(s, t), NEW e \in Execs, MaySettle(s, e),
         NEW how \in Terminal
  PROVE  StoreOK(Settled(s, e, how), t)
<1> DEFINE a == s.exec[e].owner
           u == [s EXCEPT !.task[e] = SettledTask(@, how), !.exec[e].state = how]
<1>1. a \in Autos /\ s.auto[a].st \in {"visible", "deleted"} /\ Quiesced(u, t, a)
  BY DoneQuiesced
<1>2. u.auto = s.auto
  BY DEF StoreOK, Stores
<1> HIDE DEF u
<1>3. CASE s.auto[a].st = "deleted"
  <2>1. Settled(s, e, how) = [Without(u, OwnedBy(u, a)) EXCEPT !.auto[a] = Removed("gone")]
    BY <1>3 DEF Settled, u
  <2> QED
    BY <1>1, <2>1, GoneOK
<1>4. CASE s.auto[a].st = "visible"
  <2>1. Settled(s, e, how) = Pruned([u EXCEPT !.auto[a].active = None], a)
    BY <1>4 DEF Settled, u
  <2> QED
    BY <1>1, <1>2, <1>4, <2>1, FreedOK, PrunedOK
<1> QED
  BY <1>1, <1>3, <1>4

\* create_execution for an Automation that is free.
LEMMA CreatedOK ==
  ASSUME NEW s, NEW t \in Nat, StoreOK(s, t), NEW a \in Autos, Unused(s) # {},
         s.auto[a].st = "visible", s.auto[a].active = None,
         NEW at \in Nat, NEW by \in {"request", "due", "event"},
         by = "due" => /\ at <= t /\ at < s.auto[a].due
                       /\ \A f \in Execs : s.exec[f].by = "due" /\ s.exec[f].owner = a
                                           => s.exec[f].at # at
  PROVE  /\ StoreOK(Created(s, a, at, by), t)
         /\ \A f \in Execs : s.task[f].state # "absent" =>
               Created(s, a, at, by).task[f].state # "absent"
         /\ Min(Unused(s)) \in Unused(s)
         /\ Created(s, a, at, by).task[Min(Unused(s))].state # "absent"
<1> DEFINE e == Min(Unused(s))
           new == [state |-> "queued", owner |-> a, at |-> at, by |-> by]
           queued == After(NewLifecycle, Event("Queue"))
           u == Created(s, a, at, by)
<1>1. e \in Execs /\ s.task[e].state = "absent" /\ e \in Unused(s)
  BY MinUnused DEF Unused
<1>2. e \in Nat \ {0}
  BY <1>1, Bounds
<1>3. new \in ExecStates /\ s \in Stores
  BY DEF ExecStates, StoreOK
<1>4. queued \in TaskStates /\ queued.state = "queued"
  <2>1. s.task[e] \in TaskStates
    BY <1>1, <1>3 DEF Stores
  <2> QED
    BY <2>1, TaskAfter
<1> HIDE DEF e, new, queued
<1>5. u = [s EXCEPT !.auto[a].active = e, !.exec[e] = new, !.task[e] = queued]
  BY DEF Created, e, new, queued
<1>6. /\ u \in Stores
      /\ u.auto[a].active = e /\ u.auto[a].st = "visible" /\ u.auto[a].due = s.auto[a].due
      /\ \A b \in Autos \ {a} : u.auto[b] = s.auto[b]
      /\ u.exec[e] = new /\ \A f \in Execs \ {e} : u.exec[f] = s.exec[f]
      /\ u.task[e] = queued /\ \A f \in Execs \ {e} : u.task[f] = s.task[f]
  <2>1. /\ u.auto = [s.auto EXCEPT ![a].active = e] /\ u.exec = [s.exec EXCEPT ![e] = new]
        /\ u.task = [s.task EXCEPT ![e] = queued]
        /\ u = [auto |-> u.auto, exec |-> u.exec, task |-> u.task]
    BY <1>3, <1>5 DEF Stores
  <2> HIDE DEF u
  <2>2. /\ u.auto \in [Autos -> AutoStates]
        /\ u.auto[a].active = e /\ u.auto[a].st = "visible" /\ u.auto[a].due = s.auto[a].due
        /\ \A b \in Autos \ {a} : u.auto[b] = s.auto[b]
    BY <1>2, <1>3, <2>1 DEF Stores, AutoStates
  <2>3. /\ u.exec \in [Execs -> ExecStates]
        /\ u.exec[e] = new /\ \A f \in Execs \ {e} : u.exec[f] = s.exec[f]
    BY <1>1, <1>3, <2>1 DEF Stores
  <2>4. /\ u.task \in [Execs -> TaskStates]
        /\ u.task[e] = queued /\ \A f \in Execs \ {e} : u.task[f] = s.task[f]
    BY <1>1, <1>3, <1>4, <2>1 DEF Stores
  <2> QED
    BY <2>1, <2>2, <2>3, <2>4 DEF Stores
<1> HIDE DEF u
<1>7. new.state = "queued" /\ new.owner = a /\ new.at = at /\ new.by = by
  BY DEF new
<1>8. s.exec[e].state \notin Live
  BY <1>1 DEF StoreOK, ExecOK, Live
<1>9. ASSUME NEW f \in Execs PROVE ExecOK(u, f)
  <2>1. CASE f = e
    BY <1>4, <1>6, <1>7, <2>1 DEF ExecOK, Live, Terminal
  <2>2. CASE f # e
    <3>1. ExecOK(s, f)
      BY DEF StoreOK
    <3>2. s.exec[f].state \in Live => s.exec[f].owner # a
      BY <3>1, Bounds DEF ExecOK
    <3> QED
      BY <1>6, <2>2, <3>1, <3>2 DEF ExecOK
  <2> QED
    BY <2>1, <2>2
<1>10. ASSUME NEW b \in Autos PROVE AutoOK(u, b)
  <2>1. CASE b = a
    BY <1>1, <1>6, <1>7, <2>1 DEF AutoOK, Live
  <2>2. CASE b # a
    <3>1. AutoOK(s, b)
      BY DEF StoreOK
    <3>2. s.auto[b].active # e
      BY <1>2, <1>8, <3>1 DEF AutoOK, None
    <3>3. \A f \in Execs : u.exec[f].owner = b => s.exec[f].owner = b
      BY <1>6, <1>7, <2>2
    <3> QED
      BY <1>6, <2>2, <3>1, <3>2, <3>3 DEF AutoOK
  <2> QED
    BY <2>1, <2>2
<1>11. DueOK(u, t)
  <2>1. ASSUME NEW f \in Execs, u.exec[f].by = "due"
        PROVE  /\ u.exec[f].owner \in Autos /\ u.exec[f].at <= t
               /\ u.auto[u.exec[f].owner].due > u.exec[f].at
    <3>1. CASE f = e
      BY <1>3, <1>6, <1>7, <2>1, <3>1 DEF Stores, AutoStates
    <3>2. CASE f # e
      BY <1>6, <2>1, <3>2 DEF StoreOK, DueOK
    <3> QED
      BY <3>1, <3>2
  <2>2. ASSUME NEW f \in Execs, NEW g \in Execs, f # g, u.exec[f].by = "due",
               u.exec[g].by = "due", u.exec[f].owner = u.exec[g].owner
        PROVE  u.exec[g].at # u.exec[f].at
    BY <1>6, <1>7, <2>2 DEF StoreOK, DueOK
  <2> QED
    BY <2>1, <2>2 DEF DueOK
<1>12. StoreOK(u, t)
  BY <1>6, <1>9, <1>10, <1>11 DEF StoreOK
<1>13. \A f \in Execs : s.task[f].state # "absent" => u.task[f].state # "absent"
  BY <1>4, <1>6
<1> QED
  BY <1>1, <1>4, <1>6, <1>12, <1>13 DEF u, e

\* start_automation_execution
LEMMA StartedOK ==
  ASSUME NEW s, NEW t \in Nat, StoreOK(s, t), NEW e \in Execs, s.exec[e].state = "queued"
  PROVE  /\ StoreOK(Started(s, e), t)
         /\ \A f \in Execs : s.task[f].state # "absent" => Started(s, e).task[f].state # "absent"
<1> DEFINE u == Started(s, e)
           run == After(s.task[e], Event("Start"))
<1>1. s \in Stores /\ s.task[e] \in TaskStates
  BY DEF StoreOK, Stores
<1>2. run \in TaskStates /\ run.state = "running"
  BY <1>1, TaskAfter
<1> HIDE DEF run
<1>3. u = [s EXCEPT !.task[e] = run, !.exec[e].state = "running"]
  BY DEF Started, run
<1>4. /\ u \in Stores /\ u.auto = s.auto
      /\ u.task[e] = run /\ \A f \in Execs \ {e} : u.task[f] = s.task[f]
      /\ u.exec[e].state = "running" /\ \A f \in Execs \ {e} : u.exec[f] = s.exec[f]
      /\ u.exec[e].owner = s.exec[e].owner /\ u.exec[e].by = s.exec[e].by
      /\ u.exec[e].at = s.exec[e].at
  <2>1. /\ u.task = [s.task EXCEPT ![e] = run]
        /\ u.exec = [s.exec EXCEPT ![e].state = "running"] /\ u.auto = s.auto
        /\ u = [auto |-> u.auto, exec |-> u.exec, task |-> u.task]
    BY <1>1, <1>3 DEF Stores
  <2> HIDE DEF u
  <2>2. /\ u.task \in [Execs -> TaskStates]
        /\ u.task[e] = run /\ \A f \in Execs \ {e} : u.task[f] = s.task[f]
    BY <1>1, <1>2, <2>1 DEF Stores
  <2>3. /\ u.exec \in [Execs -> ExecStates]
        /\ u.exec[e].state = "running" /\ \A f \in Execs \ {e} : u.exec[f] = s.exec[f]
        /\ u.exec[e].owner = s.exec[e].owner /\ u.exec[e].by = s.exec[e].by
        /\ u.exec[e].at = s.exec[e].at
    BY <1>1, <2>1 DEF Stores, ExecStates
  <2> QED
    BY <1>1, <2>1, <2>2, <2>3 DEF Stores
<1> HIDE DEF u
<1>5. ASSUME NEW f \in Execs PROVE ExecOK(u, f)
  BY <1>2, <1>4 DEF StoreOK, ExecOK, Live, Terminal
<1>6. ASSUME NEW b \in Autos PROVE AutoOK(u, b)
  <2>1. \A f \in Execs : /\ u.exec[f].owner = s.exec[f].owner
                         /\ s.exec[f].state \in Live => u.exec[f].state \in Live
    BY <1>4 DEF Live
  <2> QED
    BY <1>4, <2>1 DEF StoreOK, AutoOK
<1>7. DueOK(u, t)
  BY <1>4 DEF StoreOK, DueOK
<1>8. \A f \in Execs : s.task[f].state # "absent" => u.task[f].state # "absent"
  BY <1>2, <1>4
<1> QED
  BY <1>4, <1>5, <1>6, <1>7, <1>8 DEF StoreOK, u

\* A cancel that is only recorded.
LEMMA AskedOK ==
  ASSUME NEW s, NEW t \in Nat, StoreOK(s, t), NEW e \in Execs
  PROVE  LET u == [s EXCEPT !.task[e] = After(@, Event("RequestCancel"))]
         IN  /\ StoreOK(u, t) /\ u.exec = s.exec /\ u.auto = s.auto
             /\ \A f \in Execs : u.task[f].state = s.task[f].state
<1> DEFINE u == [s EXCEPT !.task[e] = After(@, Event("RequestCancel"))]
<1>1. s \in Stores /\ s.task[e] \in TaskStates
  BY DEF StoreOK, Stores
<1>2. /\ u \in Stores /\ u.auto = s.auto /\ u.exec = s.exec
      /\ \A f \in Execs : u.task[f].state = s.task[f].state
  BY <1>1, TaskAfter DEF Stores
<1> HIDE DEF u
<1>3. StoreOK(u, t)
  BY <1>2 DEF StoreOK, ExecOK, AutoOK, DueOK
<1> QED
  BY <1>2, <1>3 DEF u

\* A settlement ends one Task.
LEMMA SettledEnds ==
  ASSUME NEW s \in Stores, NEW e \in Execs, NEW how \in Terminal
  PROVE  Settled(s, e, how).task = [s.task EXCEPT ![e] = SettledTask(@, how)]
<1> DEFINE a == s.exec[e].owner
           u == [s EXCEPT !.task[e] = SettledTask(@, how), !.exec[e].state = how]
           v == [u EXCEPT !.auto[a].active = None]
           ts == [s.task EXCEPT ![e] = SettledTask(@, how)]
<1>1. /\ Without(u, OwnedBy(u, a)).task = ts
      /\ [Without(u, OwnedBy(u, a)) EXCEPT !.auto[a] = Removed("gone")].task = ts
  BY DEF Without, Stores
<1>2. Pruned(v, a).task = ts
  BY DEF Pruned, Without, Stores
<1> HIDE DEF u, v, ts
<1>3. Settled(s, e, how).task = ts
  BY <1>1, <1>2 DEF Settled, u, v
<1> QED
  BY <1>3 DEF ts

\* It keeps every Task there is.
LEMMA SettledTasks ==
  ASSUME NEW s \in Stores, NEW e \in Execs, NEW how \in Terminal
  PROVE  \A f \in Execs : s.task[f].state # "absent" => Settled(s, e, how).task[f].state # "absent"
<1> DEFINE r == SettledTask(s.task[e], how)
<1>1. r.state \in Terminal
  <2>1. s.task[e] \in TaskStates
    BY DEF Stores
  <2> QED
    BY <2>1, TaskAfter
<1>2. s.task \in [Execs -> TaskStates] /\ Settled(s, e, how).task = [s.task EXCEPT ![e] = r]
  BY SettledEnds DEF Stores
<1> HIDE DEF r
<1>3. \A f \in Execs : Settled(s, e, how).task[f] = IF f = e THEN r ELSE s.task[f]
  BY <1>2
<1> QED
  BY <1>1, <1>3 DEF Terminal

\* recover_old_instance
LEMMA InterruptedOK ==
  ASSUME NEW s, NEW t \in Nat, StoreOK(s, t)
  PROVE  /\ StoreOK(Interrupted(s), t)
         /\ \A f \in Execs : s.task[f].state # "absent" => Interrupted(s).task[f].state # "absent"
         /\ \A f \in Execs : Interrupted(s).task[f] =
               IF s.task[f].state \in Live THEN SettledTask(s.task[f], "interrupted") ELSE s.task[f]
         /\ \A a \in Autos :
               /\ Interrupted(s).auto[a].active = None
               /\ Interrupted(s).auto[a].st = IF s.auto[a].st = "deleted" THEN "gone" ELSE s.auto[a].st
<1> DEFINE lost == {e \in Execs : s.task[e].state \in Live}
           dead == {a \in Autos : s.auto[a].st = "deleted" /\ s.auto[a].active \in lost}
           done == [auto |-> [a \in Autos |->
                                IF a \in dead THEN Removed("gone")
                                ELSE IF s.auto[a].active \in lost
                                       THEN [s.auto[a] EXCEPT !.active = None]
                                       ELSE s.auto[a]],
                    exec |-> [e \in Execs |->
                                IF s.exec[e].owner \in dead THEN NoExecution
                                ELSE IF e \in lost THEN [s.exec[e] EXCEPT !.state = "interrupted"]
                                ELSE s.exec[e]],
                    task |-> [e \in Execs |-> IF e \in lost THEN SettledTask(s.task[e], "interrupted")
                                                            ELSE s.task[e]]]
           over == UNION {Excess(done.exec, OwnedBy(done, a) \cap Ended(done), MaxHistory)
                            : a \in Autos}
           own == Without(done, over)
           more == Excess(own.exec, Ended(own), MaxHistoryAll)
<1>0. Interrupted(s) = Without(own, more)
  BY DEF Interrupted
<1>1. s \in Stores /\ "interrupted" \in Terminal
  BY DEF StoreOK, Terminal
<1>2. ASSUME NEW e \in Execs
      PROVE  /\ e \in lost <=> s.exec[e].state \in Live
             /\ s.exec[e].owner \in dead /\ s.exec[e].state \in Live => e \in lost
             /\ e \in lost => s.exec[e].owner \in Autos /\ s.auto[s.exec[e].owner].active = e
  BY <1>2 DEF StoreOK, ExecOK
<1>3. ASSUME NEW a \in Autos
      PROVE  s.auto[a].active \in lost <=> s.auto[a].active # None
  BY <1>2, <1>3, Bounds DEF StoreOK, AutoOK
<1>4. /\ \A a \in Autos : /\ done.auto[a] \in AutoStates /\ done.auto[a].active = None
                          /\ done.auto[a].st = IF a \in dead THEN "gone" ELSE s.auto[a].st
                          /\ a \notin dead => done.auto[a].due = s.auto[a].due
  <2>1. /\ Removed("gone") \in AutoStates /\ Removed("gone").active = None
        /\ Removed("gone").st = "gone"
    BY Bounds DEF Removed, NoAutomation, AutoStates
  <2>2. ASSUME NEW a \in Autos
        PROVE  done.auto[a] = IF a \in dead THEN Removed("gone")
                              ELSE IF s.auto[a].active \in lost
                                     THEN [s.auto[a] EXCEPT !.active = None] ELSE s.auto[a]
    OBVIOUS
  <2> HIDE DEF done, dead, lost
  <2>3. ASSUME NEW a \in Autos
        PROVE  [s.auto[a] EXCEPT !.active = None] \in AutoStates /\ s.auto[a] \in AutoStates
    BY <1>1, Bounds DEF Stores, AutoStates
  <2>4. ASSUME NEW a \in Autos
        PROVE  /\ [s.auto[a] EXCEPT !.active = None].active = None
               /\ [s.auto[a] EXCEPT !.active = None].st = s.auto[a].st
               /\ [s.auto[a] EXCEPT !.active = None].due = s.auto[a].due
    BY <1>1 DEF Stores, AutoStates
  <2> QED
    BY <1>3, <2>1, <2>2, <2>3, <2>4
<1>5. ASSUME NEW e \in Execs
      PROVE  /\ done.exec[e] \in ExecStates
             /\ s.exec[e].owner \in dead =>
                  /\ done.exec[e].state = "absent" /\ done.exec[e].owner = "none"
                  /\ done.exec[e].by = "none"
             /\ s.exec[e].owner \notin dead =>
                  /\ done.exec[e].state = IF e \in lost THEN "interrupted" ELSE s.exec[e].state
                  /\ done.exec[e].owner = s.exec[e].owner /\ done.exec[e].by = s.exec[e].by
                  /\ done.exec[e].at = s.exec[e].at
  <2>1. s.exec[e] \in ExecStates /\ NoExecution \in ExecStates
    BY <1>1 DEF Stores, NoExecution, ExecStates
  <2>2. [s.exec[e] EXCEPT !.state = "interrupted"] \in ExecStates
    BY <1>1, <2>1 DEF ExecStates
  <2>3. done.exec[e] = IF s.exec[e].owner \in dead THEN NoExecution
                       ELSE IF e \in lost THEN [s.exec[e] EXCEPT !.state = "interrupted"]
                       ELSE s.exec[e]
    OBVIOUS
  <2> HIDE DEF done, dead, lost
  <2>4. CASE s.exec[e].owner \in dead
    BY <2>1, <2>3, <2>4 DEF NoExecution
  <2>5. CASE s.exec[e].owner \notin dead /\ e \in lost
    BY <2>1, <2>2, <2>3, <2>5 DEF ExecStates
  <2>6. CASE s.exec[e].owner \notin dead /\ e \notin lost
    BY <2>1, <2>3, <2>6
  <2> QED
    BY <2>4, <2>5, <2>6
<1>6. ASSUME NEW e \in Execs
      PROVE  /\ done.task[e] \in TaskStates
             /\ done.task[e].state = IF e \in lost THEN "interrupted" ELSE s.task[e].state
             /\ done.task[e] = IF s.task[e].state \in Live THEN SettledTask(s.task[e], "interrupted")
                              ELSE s.task[e]
  <2>1. s.task[e] \in TaskStates
    BY <1>1 DEF Stores
  <2>2. /\ SettledTask(s.task[e], "interrupted") \in TaskStates
        /\ SettledTask(s.task[e], "interrupted").state = "interrupted"
    BY <1>1, <2>1, TaskAfter
  <2> QED
    BY <2>1, <2>2
<1>7. done \in Stores
  <2>1. /\ done = [auto |-> done.auto, exec |-> done.exec, task |-> done.task]
        /\ done.auto = [a \in Autos |-> done.auto[a]] /\ done.exec = [e \in Execs |-> done.exec[e]]
        /\ done.task = [e \in Execs |-> done.task[e]]
    OBVIOUS
  <2> HIDE DEF done
  <2>2. /\ done.auto \in [Autos -> AutoStates] /\ done.exec \in [Execs -> ExecStates]
        /\ done.task \in [Execs -> TaskStates]
    BY <1>4, <1>5, <1>6, <2>1
  <2> QED
    BY <2>1, <2>2 DEF Stores
<1>8. \A a \in Autos : a \in dead => s.auto[a].st = "deleted"
  OBVIOUS
<1>9. \A a \in Autos : s.auto[a].st = "deleted" => a \in dead
  BY <1>3 DEF StoreOK, AutoOK
<1> HIDE DEF done, dead, lost
<1>10. ASSUME NEW e \in Execs PROVE ExecOK(done, e)
  <2>2. e \in lost => done.exec[e].state \in {"absent", "interrupted"}
    BY <1>5
  <2>3. e \notin lost => done.exec[e].state \in {"absent", s.exec[e].state}
    BY <1>5
  <2>4. e \notin lost => s.exec[e].state \notin Live /\ s.task[e].state \notin Live
    BY <1>2 DEF lost
  <2>5. "absent" \notin Live \cup Terminal /\ "interrupted" \notin Live
    BY DEF Live, Terminal
  <2> QED
    BY <1>6, <2>2, <2>3, <2>4, <2>5 DEF StoreOK, ExecOK
<1>11. ASSUME NEW a \in Autos PROVE AutoOK(done, a)
  <2>1. \A e \in Execs : done.exec[e].owner = a => s.exec[e].owner = a /\ a \notin dead
    BY <1>5, Bounds
  <2>2. AutoOK(s, a)
    BY DEF StoreOK
  <2> QED
    BY <1>4, <1>9, <2>1, <2>2 DEF AutoOK
<1>12. DueOK(done, t)
  <2>1. ASSUME NEW e \in Execs, done.exec[e].by = "due"
        PROVE  /\ s.exec[e].by = "due" /\ s.exec[e].owner \notin dead
               /\ done.exec[e].owner = s.exec[e].owner /\ done.exec[e].at = s.exec[e].at
    BY <1>5, <2>1
  <2>2. ASSUME NEW e \in Execs, done.exec[e].by = "due"
        PROVE  /\ done.exec[e].owner \in Autos /\ done.exec[e].at <= t
               /\ done.auto[done.exec[e].owner].due > done.exec[e].at
    BY <1>4, <2>1, <2>2 DEF StoreOK, DueOK
  <2>3. ASSUME NEW e \in Execs, NEW f \in Execs, e # f, done.exec[e].by = "due",
               done.exec[f].by = "due", done.exec[e].owner = done.exec[f].owner
        PROVE  done.exec[f].at # done.exec[e].at
    BY <2>1, <2>3 DEF StoreOK, DueOK
  <2> QED
    BY <2>2, <2>3 DEF DueOK
<1>13. StoreOK(done, t)
  BY <1>7, <1>10, <1>11, <1>12 DEF StoreOK
<1>14. over \subseteq Ended(done)
  BY DEF Excess
<1> HIDE DEF over
<1>15. StoreOK(own, t)
  BY <1>13, <1>14, EndedOK
<1>16. more \subseteq Ended(own)
  BY DEF Excess
<1>17. own.task = done.task /\ own.auto = done.auto
  BY <1>7, WithoutIs
<1> HIDE DEF own, more
<1>18. StoreOK(Without(own, more), t)
  BY <1>15, <1>16, EndedOK
<1>19. Without(own, more).task = own.task /\ Without(own, more).auto = own.auto
  BY <1>15, WithoutIs DEF StoreOK
<1>20. \A f \in Execs : s.task[f].state # "absent" => done.task[f].state # "absent"
  BY <1>6
<1>21. ASSUME NEW a \in Autos
       PROVE  /\ done.auto[a].active = None
              /\ done.auto[a].st = IF s.auto[a].st = "deleted" THEN "gone" ELSE s.auto[a].st
  BY <1>4, <1>8, <1>9
<1> QED
  BY <1>0, <1>6, <1>17, <1>18, <1>19, <1>20, <1>21

-----------------------------------------------------------------------------
(* What a step of each actor has to show.                                  *)

\* s is a store that may follow this one: it is sound, and no Task has left it.
Follows(s) ==
    /\ StoreOK(s, now)
    /\ \A f \in Execs : store.task[f].state # "absent" => s.task[f].state # "absent"

\* A commit leaves the store as it is, or as the handler made it.
LEMMA CommitFollows ==
  ASSUME AutoInv, NEW s, Follows(s), NEW out, Committed(s, out)
  PROVE  Follows(store')
BY DEF AutoInv, Follows, Committed

\* Nothing was committed.
LEMMA SameFollows ==
  ASSUME AutoInv
  PROVE  Follows(store)
BY DEF AutoInv, Follows

\* A step of the tool or a canceller, which touches the store alone.
LEMMA StoreStep ==
  ASSUME AutoInv, Follows(store'), UNCHANGED <<drv, child, sched, now>>
  PROVE  AutoInv'
BY DEF AutoInv, Follows, SchedTypeOK, Passes, DriversOK, ChildAwaited

\* A step of one driver.
LEMMA DriverChange ==
  ASSUME AutoInv, Follows(store'), UNCHANGED <<sched, now>>,
         NEW e \in Execs, drv[e].pc # "none", NEW d \in DriverStates,
         drv' = [drv EXCEPT ![e] = d], d.pc = "settle" => d.out \in Terminal,
         child' \in [Execs -> ChildStates],
         \A f \in Execs \ {e} : child'[f] = child[f],
         child'[e] \in Followed => d.pc = "child"
  PROVE  AutoInv'
<1>1. drv' \in [Execs -> DriverStates] /\ drv'[e] = d /\ \A f \in Execs \ {e} : drv'[f] = drv[f]
  BY DEF AutoInv, SchedTypeOK
<1>2. e \notin sched.held /\ sched.held \subseteq Execs
  BY DEF AutoInv, DriversOK, SchedTypeOK, Passes
<1>3. StoreOK(store, now)'
  BY DEF Follows
<1>4. SchedTypeOK'
  BY <1>1 DEF AutoInv, SchedTypeOK
<1>5. DriversOK'
  BY <1>1, <1>2 DEF AutoInv, DriversOK, Follows
<1>6. ChildAwaited'
  BY <1>1 DEF AutoInv, ChildAwaited
<1> QED
  BY <1>3, <1>4, <1>5, <1>6 DEF AutoInv

\* A step of the scheduler: it starts the drivers of E and holds those of H back.
LEMMA SchedChange ==
  ASSUME AutoInv, Follows(store'), UNCHANGED <<child, now>>,
         NEW E \in SUBSET Execs, drv' = Spawn(E),
         \A e \in E : drv[e].pc = "none" /\ store'.task[e].state # "absent",
         sched' \in Passes,
         sched'.at <= now,
         \A e \in sched'.held : e \notin E /\ drv[e].pc = "none" /\ store'.task[e].state # "absent"
  PROVE  AutoInv'
<1>1. [NoDriver EXCEPT !.pc = "start"] = [pc |-> "start", out |-> "none", visits |-> 0]
  BY DEF NoDriver
<1>2. /\ drv' \in [Execs -> DriverStates]
      /\ \A e \in E : drv'[e].pc = "start"
      /\ \A e \in Execs \ E : drv'[e] = drv[e]
  BY <1>1 DEF Spawn, DriverStates, AutoInv, SchedTypeOK
<1>3. StoreOK(store, now)'
  BY DEF Follows
<1>4. SchedTypeOK'
  BY <1>2 DEF AutoInv, SchedTypeOK
<1>5. DriversOK'
  BY <1>2 DEF AutoInv, DriversOK, Follows, Passes
<1>6. ChildAwaited'
  BY <1>2 DEF AutoInv, ChildAwaited
<1> QED
  BY <1>3, <1>4, <1>5, <1>6 DEF AutoInv

\* Nobody is started.
LEMMA SpawnNone ==
  ASSUME AutoInv
  PROVE  Spawn({}) = drv
BY DEF Spawn, AutoInv, SchedTypeOK

\* A scheduler's step that starts nobody and holds nobody new back.
LEMMA PassChange ==
  ASSUME AutoInv, Follows(store'), UNCHANGED <<drv, child, now>>,
         sched' \in Passes,
         sched'.at <= now, sched'.held \subseteq sched.held
  PROVE  AutoInv'
<1>1. drv' = Spawn({})
  BY SpawnNone
<1>2. \A e \in sched'.held : drv[e].pc = "none" /\ store'.task[e].state # "absent"
  BY DEF AutoInv, DriversOK, Follows, SchedTypeOK, Passes
<1> QED
  BY <1>1, <1>2, SchedChange

-----------------------------------------------------------------------------
(* The automation tool.                                                    *)

\* save of a new Automation.
LEMMA SaveNewInv ==
  ASSUME AutoInv, NEW a \in Autos, NEW trigger \in Triggers, NEW enabled \in BOOLEAN,
         SaveNew(a, trigger, enabled)
  PROVE  AutoInv'
<1> DEFINE r == Saved(NoAutomation, trigger, enabled)
<1>1. now \in Nat /\ now \in 0..MaxNow /\ StoreOK(store, now) /\ store \in Stores
  BY DEF AutoInv, SchedTypeOK, StoreOK
<1>2. NoAutomation \in AutoStates /\ NoAutomation.active = None
  BY Bounds DEF NoAutomation, AutoStates
<1>3. ScheduledDue(NoAutomation, trigger, enabled) \in Nat
  BY <1>1, <1>2, ScheduledIs
<1>4. r \in AutoStates /\ r.active = None /\ r.st = "visible"
  BY <1>2, <1>3, AutomationAssumption DEF Saved, AutoStates, NoAutomation
<1>5. store.auto[a].active = None
  BY DEF SaveNew, AutoInv, StoreOK, AutoOK
<1>6. \A e \in Execs : store.exec[e].owner # a
  BY DEF SaveNew, AutoInv, StoreOK, AutoOK
<1> DEFINE u == [store EXCEPT !.auto[a] = r]
<1> HIDE DEF r
<1>7. /\ u \in Stores /\ u.exec = store.exec /\ u.task = store.task /\ u.auto[a] = r
      /\ \A b \in Autos \ {a} : u.auto[b] = store.auto[b]
  BY <1>1, <1>4 DEF Stores
<1>8. \E out \in Outcomes : Committed(u, out)
  BY DEF SaveNew, r
<1>9. UNCHANGED <<drv, child, sched, now>>
  BY DEF SaveNew, Calls
<1> HIDE DEF u
<1>10. Follows(u)
  <2>1. \A e \in Execs : ExecOK(u, e)
    BY <1>1, <1>6, <1>7 DEF StoreOK, ExecOK
  <2>2. \A b \in Autos : AutoOK(u, b)
    BY <1>1, <1>4, <1>7 DEF StoreOK, AutoOK
  <2>3. DueOK(u, now)
    BY <1>1, <1>6, <1>7 DEF StoreOK, DueOK
  <2> QED
    BY <1>7, <2>1, <2>2, <2>3 DEF Follows, StoreOK
<1> QED
  BY <1>8, <1>9, <1>10, CommitFollows, StoreStep

\* An update keeps the execution, and the due or one after the clock.
LEMMA SaveUpdateInv ==
  ASSUME AutoInv, NEW a \in Autos, NEW trigger \in Triggers, NEW enabled \in BOOLEAN,
         SaveUpdate(a, trigger, enabled)
  PROVE  AutoInv'
<1> DEFINE old == store.auto[a]
           r == Saved(old, trigger, enabled)
           u == [store EXCEPT !.auto[a] = r]
<1>1. now \in Nat /\ now \in 0..MaxNow /\ StoreOK(store, now) /\ store \in Stores /\ old \in AutoStates
  BY DEF AutoInv, SchedTypeOK, StoreOK, Stores
<1> HIDE DEF old
<1>3. /\ ScheduledDue(old, trigger, enabled) \in Nat
      /\ ScheduledDue(old, trigger, enabled) = old.due \/ ScheduledDue(old, trigger, enabled) > now
  BY <1>1, ScheduledIs
<1>4. /\ r \in AutoStates /\ r.active = old.active /\ r.st = "visible"
      /\ r.due = ScheduledDue(old, trigger, enabled)
  BY <1>1, <1>3, AutomationAssumption DEF Saved, AutoStates
<1>5. \E out \in Outcomes : Committed(u, out)
  BY DEF SaveUpdate, old
<1>6. UNCHANGED <<drv, child, sched, now>>
  BY DEF SaveUpdate, Calls
<1> HIDE DEF r
<1>7. u.task = store.task
  BY <1>1 DEF Stores
<1>8. r.due >= old.due \/ r.due > now
  BY <1>1, <1>3, <1>4 DEF AutoStates
<1>9. StoreOK(u, now)
  BY <1>1, <1>4, <1>8, RecordOK DEF old
<1> QED
  BY <1>5, <1>6, <1>7, <1>9, CommitFollows, StoreStep DEF Follows

\* A delete removes a free Automation, and makes a busy one a tombstone.
LEMMA DeleteInv ==
  ASSUME AutoInv, NEW a \in Autos, Delete(a)
  PROVE  AutoInv'
<1> DEFINE g == [Without(store, OwnedBy(store, a)) EXCEPT !.auto[a] = Removed("gone")]
           d == [store EXCEPT !.auto[a].st = "deleted", !.auto[a].due = NoDue]
<1>1. now \in Nat /\ StoreOK(store, now) /\ store \in Stores /\ store.auto[a] \in AutoStates /\ now < NoDue
  BY Bounds DEF AutoInv, SchedTypeOK, StoreOK, Stores
<1>2. CASE store.auto[a].active = None
  <2>1. Quiesced(store, now, a)
    BY <1>1, <1>2, Bounds DEF StoreOK, Quiesced, ExecOK
  <2>2. StoreOK(g, now)
    BY <1>1, <2>1, GoneOK
  <2>3. g.task = store.task
    BY <1>1 DEF Without, Stores
  <2>4. \E out \in Outcomes : Committed(g, out)
    BY <1>2 DEF Delete
  <2>5. UNCHANGED <<drv, child, sched, now>>
    BY DEF Delete, Calls
  <2> HIDE DEF g
  <2> QED
    BY <2>2, <2>3, <2>4, <2>5, CommitFollows, StoreStep DEF Follows
<1>3. CASE store.auto[a].active # None
  <2> DEFINE r == [store.auto[a] EXCEPT !.st = "deleted", !.due = NoDue]
  <2>1. r \in AutoStates /\ r.active = store.auto[a].active /\ r.due = NoDue /\ r.st = "deleted"
    BY <1>1, Bounds DEF AutoStates
  <2>2. d = [store EXCEPT !.auto[a] = r] /\ d.task = store.task
    BY <1>1 DEF Stores
  <2> HIDE DEF r
  <2>3. StoreOK([store EXCEPT !.auto[a] = r], now)
    BY <1>1, <1>3, <2>1, RecordOK
  <2>4. \E out \in Outcomes : Committed(d, out)
    BY <1>3 DEF Delete
  <2>5. UNCHANGED <<drv, child, sched, now>>
    BY DEF Delete, Calls
  <2> HIDE DEF d
  <2> QED
    BY <2>2, <2>3, <2>4, <2>5, CommitFollows, StoreStep DEF Follows
<1> QED
  BY <1>2, <1>3

\* Another request flag keeps the store sound.
LEMMA RequestedOK ==
  ASSUME AutoInv, NEW a \in Autos, NEW q \in BOOLEAN
  PROVE  LET u == [store EXCEPT !.auto[a].requested = q]
         IN  /\ StoreOK(u, now) /\ u.task = store.task /\ u.exec = store.exec
             /\ u.auto[a].st = store.auto[a].st /\ u.auto[a].active = store.auto[a].active
             /\ u.auto[a].due = store.auto[a].due
<1> DEFINE r == [store.auto[a] EXCEPT !.requested = q]
           u == [store EXCEPT !.auto[a].requested = q]
<1>1. /\ now \in Nat /\ StoreOK(store, now) /\ store \in Stores /\ store.auto[a] \in AutoStates
      /\ AutoOK(store, a)
  BY DEF AutoInv, SchedTypeOK, StoreOK, Stores
<1>2. /\ r \in AutoStates /\ r.active = store.auto[a].active /\ r.due = store.auto[a].due
      /\ r.st = store.auto[a].st
  BY <1>1 DEF AutoStates
<1>3. u = [store EXCEPT !.auto[a] = r] /\ u.task = store.task /\ u.exec = store.exec /\ u.auto[a] = r
  BY <1>1 DEF Stores
<1> HIDE DEF r, u
<1>4. r.due >= store.auto[a].due
  BY <1>1, <1>2 DEF AutoStates
<1>5. StoreOK([store EXCEPT !.auto[a] = r], now)
  BY <1>1, <1>2, <1>4, RecordOK DEF AutoOK
<1> QED
  BY <1>2, <1>3, <1>5 DEF u

\* A run is requested.
LEMMA RequestRunInv ==
  ASSUME AutoInv, NEW a \in Autos, RequestRun(a)
  PROVE  AutoInv'
<1> DEFINE u == [store EXCEPT !.auto[a].requested = TRUE]
<1>1. Follows(u)
  BY RequestedOK DEF RequestRun, Visible, Follows
<1>2. \E out \in Outcomes : Committed(u, out)
  BY DEF RequestRun
<1>3. UNCHANGED <<drv, child, sched, now>>
  BY DEF RequestRun, Calls
<1> HIDE DEF u
<1> QED
  BY <1>1, <1>2, <1>3, CommitFollows, StoreStep

\* cancel_task of a container Task.
LEMMA CancelContainerInv ==
  ASSUME AutoInv, NEW e \in Execs, CancelContainer(e)
  PROVE  AutoInv'
<1> DEFINE u == [store EXCEPT !.task[e] = After(@, Event("RequestCancel"))]
<1>1. now \in Nat /\ StoreOK(store, now)
  BY DEF AutoInv, SchedTypeOK
<1>2. /\ StoreOK(u, now) /\ u.exec = store.exec /\ u.auto = store.auto
      /\ \A f \in Execs : u.task[f].state = store.task[f].state
  BY <1>1, AskedOK
<1>3. \E out \in Outcomes :
         Committed(IF store.task[e].state = "queued" THEN Settled(u, e, "cancelled") ELSE u, out)
  BY DEF CancelContainer
<1>4. UNCHANGED <<drv, child, sched, now>>
  BY DEF CancelContainer, Calls
<1> HIDE DEF u
<1>5. Follows(u)
  BY <1>2 DEF Follows
<1>6. ASSUME store.task[e].state = "queued" PROVE Follows(Settled(u, e, "cancelled"))
  <2>1. MaySettle(u, e)
    BY <1>2, <1>6 DEF MaySettle, StoreOK, ExecOK, Live
  <2>2. "cancelled" \in Terminal /\ u \in Stores
    BY <1>2 DEF Terminal, StoreOK
  <2> QED
    BY <1>1, <1>2, <2>1, <2>2, SettledOK, SettledTasks DEF Follows
<1> QED
  BY <1>3, <1>4, <1>5, <1>6, CommitFollows, StoreStep

\* The canceller raises the flag of what it cancelled.
LEMMA WakeCancelledInv ==
  ASSUME AutoInv, NEW e \in Execs, WakeCancelled(e)
  PROVE  AutoInv'
<1>1. UNCHANGED <<store, drv, child, sched, now>>
  BY DEF WakeCancelled, NoCommit
<1> QED
  BY <1>1, SameFollows, StoreStep

-----------------------------------------------------------------------------
(* The scheduler.                                                          *)

\* What the scheduler knows before a step.
LEMMA PassNow ==
  ASSUME AutoInv
  PROVE  /\ sched \in Passes /\ sched.at \in Nat /\ sched.at <= now /\ now \in Nat
         /\ now <= MaxNow /\ StoreOK(store, now) /\ store \in Stores
BY Bounds DEF AutoInv, SchedTypeOK, StoreOK, Passes

\* The store is probed, and the requested runs are read.
LEMMA SchedRecoverInv ==
  ASSUME AutoInv, SchedRecover
  PROVE  AutoInv'
<1>1. Follows(store')
  BY SameFollows, CommitFollows DEF SchedRecover, NoCommit
<1>2. sched' \in Passes /\ sched'.at = sched.at /\ sched'.held = sched.held
  BY PassNow DEF SchedRecover, Passes
<1>3. UNCHANGED <<drv, child, now>>
  BY DEF SchedRecover, Env
<1> QED
  BY <1>1, <1>2, <1>3, PassNow, PassChange

\* A scheduler's step that commits nothing, and keeps its instant and what it holds back.
LEMMA PassOnly ==
  ASSUME AutoInv, UNCHANGED <<store, drv, child, now>>, sched' \in Passes,
         sched'.at \in {0, now, sched.at}, sched'.held = sched.held
  PROVE  AutoInv'
<1>1. sched'.at <= now
  BY PassNow
<1> QED
  BY <1>1, SameFollows, PassChange

\* The steps of the scheduler that commit nothing and start nobody.
LEMMA QuietSteps ==
  ASSUME AutoInv,
         \/ SchedReadDues \/ ArmAndWait \/ WakeFires \/ ChangeNotified \/ NetworkEvent
         \/ NetworkEnds \/ SchedRetries
  PROVE  AutoInv'
<1>1. sched \in Passes /\ now \in Nat
  BY PassNow
<1>2. CASE SchedReadDues
  <2>1. sched' \in Passes /\ sched'.at = now /\ sched'.held = sched.held
    BY <1>1, <1>2 DEF SchedReadDues, Passes, DueAt
  <2> QED
    BY <1>2, <2>1, PassOnly DEF SchedReadDues, NoCommit, Env
<1>3. CASE ArmAndWait
  <2>1. sched' \in Passes /\ sched'.at = 0 /\ sched'.held = sched.held
    BY <1>1, <1>3 DEF ArmAndWait, Passes
  <2> QED
    BY <1>3, <2>1, PassOnly DEF ArmAndWait, NoCommit, Env
<1>4. CASE WakeFires \/ ChangeNotified \/ NetworkEnds \/ SchedRetries
  <2>1. Goes("recover")
    BY <1>4 DEF WakeFires, ChangeNotified, NetworkEnds, SchedRetries
  <2>2. sched' \in Passes /\ sched'.at = sched.at /\ sched'.held = sched.held
    BY <1>1, <2>1 DEF Goes, Passes
  <2>3. UNCHANGED <<store, drv, child, now>>
    BY <1>4 DEF WakeFires, ChangeNotified, NetworkEnds, SchedRetries, NoCommit, Env
  <2> QED
    BY <2>2, <2>3, PassOnly
<1>5. CASE NetworkEvent
  <2>1. sched' \in Passes /\ sched'.at = sched.at /\ sched'.held = sched.held
    BY <1>1, <1>5 DEF NetworkEvent, Passes, Candidates
  <2> QED
    BY <1>5, <2>1, PassOnly DEF NetworkEvent, NoCommit, Env
<1> QED
  BY <1>2, <1>3, <1>4, <1>5

\* An execution that was never used has no driver, and nobody holds it back.
LEMMA FreshExec ==
  ASSUME AutoInv, NEW e \in Unused(store)
  PROVE  e \in Execs /\ drv[e].pc = "none" /\ e \notin sched.held
BY DEF AutoInv, DriversOK, Unused

\* A commit that admits one execution, whose driver starts if it succeeded.
LEMMA AdmitsAndStarts ==
  ASSUME AutoInv, NEW u, Follows(u), Min(Unused(store)) \in Unused(store),
         u.task[Min(Unused(store))].state # "absent",
         NEW out, Committed(u, out), UNCHANGED <<child, now>>,
         drv' = IF out = "ok" THEN Spawn({Min(Unused(store))}) ELSE drv,
         sched' \in Passes, sched'.at = sched.at, sched'.held = sched.held
  PROVE  AutoInv'
<1> DEFINE e == Min(Unused(store))
<1>1. e \in Execs /\ drv[e].pc = "none" /\ e \notin sched.held
  BY FreshExec
<1> HIDE DEF e
<1>2. Follows(store') /\ sched'.at <= now
  BY CommitFollows, PassNow
<1>3. CASE out = "ok"
  <2>1. store' = u /\ drv' = Spawn({e})
    BY <1>3 DEF Committed, e
  <2>2. store'.task[e].state # "absent"
    BY <2>1 DEF e
  <2>3. \A f \in sched'.held : drv[f].pc = "none" /\ store'.task[f].state # "absent" /\ f \notin {e}
    BY <1>1, <2>1, PassNow DEF AutoInv, DriversOK, Follows, Passes
  <2>4. {e} \in SUBSET Execs /\ \A f \in {e} : drv[f].pc = "none" /\ store'.task[f].state # "absent"
    BY <1>1, <2>2
  <2> QED
    BY <1>2, <2>1, <2>3, <2>4, SchedChange
<1>4. CASE out # "ok"
  BY <1>2, <1>4, PassChange
<1> QED
  BY <1>3, <1>4

\* admit_requested consumes the request, and admits a run where it may.
LEMMA AdmitRequestedInv ==
  ASSUME AutoInv, NEW a \in Autos, AdmitRequested(a)
  PROVE  AutoInv'
<1> DEFINE asked == [store EXCEPT !.auto[a].requested = FALSE]
           runs == Visible(store, a) /\ store.auto[a].active = None /\ MayCreate(store)
           new == Created(asked, a, now, "request")
           e == Min(Unused(store))
<1>1. /\ StoreOK(asked, now) /\ asked.task = store.task
      /\ asked.auto[a].st = store.auto[a].st /\ asked.auto[a].active = store.auto[a].active
  BY RequestedOK
<1>2. UNCHANGED <<child, now>>
  BY DEF AdmitRequested, Env
<1>3. sched' \in Passes /\ sched'.at = sched.at /\ sched'.held = sched.held
  BY PassNow DEF AdmitRequested, Passes
<1>4. CASE ~store.auto[a].requested
  <2>1. UNCHANGED <<store, drv>>
    BY <1>4 DEF AdmitRequested, NoCommit
  <2> QED
    BY <1>2, <1>3, <2>1, PassOnly
<1>5. CASE store.auto[a].requested
  <2>1. PICK out \in Outcomes :
           /\ Committed(IF runs THEN new ELSE asked, out)
           /\ drv' = IF out = "ok" /\ runs THEN Spawn({e}) ELSE drv
    BY <1>5 DEF AdmitRequested
  <2>2. CASE runs
    <3>1. Unused(asked) = Unused(store) /\ Unused(store) # {}
      BY <1>1, <2>2 DEF Unused, MayCreate, HasRoom
    <3>2. Visible(store, a) /\ store.auto[a].active = None
      BY <2>2
    <3> HIDE DEF asked
    <3>3. /\ StoreOK(new, now) /\ e \in Unused(store) /\ new.task[e].state # "absent"
          /\ \A f \in Execs : asked.task[f].state # "absent" => new.task[f].state # "absent"
      BY <1>1, <3>1, <3>2, PassNow, CreatedOK DEF Visible
    <3>4. Follows(new)
      BY <1>1, <3>3 DEF Follows
    <3>5. Committed(new, out) /\ drv' = IF out = "ok" THEN Spawn({e}) ELSE drv
      BY <2>1, <2>2
    <3> HIDE DEF new
    <3> QED
      BY <1>2, <1>3, <3>3, <3>4, <3>5, AdmitsAndStarts
  <2>3. CASE ~runs
    <3>1. Committed(asked, out) /\ drv' = drv
      BY <2>1, <2>3
    <3> HIDE DEF asked
    <3>2. Follows(store')
      BY <1>1, <3>1, CommitFollows DEF Follows
    <3> QED
      BY <1>2, <1>3, <3>1, <3>2, PassNow, PassChange
  <2> QED
    BY <2>2, <2>3
<1> QED
  BY <1>4, <1>5

\* The due of an admitted occurrence is advanced, and the occurrence was never served.
LEMMA AdvancedOK ==
  ASSUME AutoInv, NEW a \in Autos, ArmableDue(store, a) <= sched.at
  PROVE  LET u == Advanced(store, a, sched.at)
             due == store.auto[a].due
         IN  /\ StoreOK(u, now) /\ u.task = store.task
             /\ u.auto[a].st = "visible" /\ u.auto[a].active = None
             /\ due \in Nat /\ due <= now /\ due < u.auto[a].due
             /\ \A f \in Execs : u.exec[f].by = "due" /\ u.exec[f].owner = a
                                 => u.exec[f].at # due
<1> DEFINE due == store.auto[a].due
           next == NextDue(store.auto[a].trigger, due, sched.at)
           r == [store.auto[a] EXCEPT !.due = next]
           u == Advanced(store, a, sched.at)
<1>1. /\ sched.at \in Nat /\ sched.at <= now /\ now \in Nat /\ now <= MaxNow
      /\ StoreOK(store, now) /\ store \in Stores /\ store.auto[a] \in AutoStates
  BY PassNow DEF Stores
<1>2. NoDue \in Nat /\ NoDue > MaxNow /\ MaxNow \in Nat
  BY Bounds
<1>3. Visible(store, a) /\ store.auto[a].active = None /\ due <= sched.at
  BY <1>1, <1>2 DEF ArmableDue
<1>4. due \in Nat
  BY <1>1 DEF AutoStates
<1>5. next \in Nat /\ next > due
  BY <1>1, <1>2, <1>3, <1>4, NextDueIs
<1>6. u = [store EXCEPT !.auto[a].due = next]
  BY DEF Advanced
<1> HIDE DEF next
<1>7. /\ r \in AutoStates /\ r.active = store.auto[a].active /\ r.due = next
      /\ r.st = "visible"
  BY <1>1, <1>3, <1>5 DEF AutoStates, Visible
<1>8. /\ u = [store EXCEPT !.auto[a] = r] /\ u.task = store.task /\ u.exec = store.exec
      /\ u.auto[a] = r
  BY <1>1, <1>6 DEF Stores
<1> HIDE DEF r, u
<1>9. StoreOK([store EXCEPT !.auto[a] = r], now)
  BY <1>1, <1>4, <1>5, <1>7, RecordOK
<1>10. \A f \in Execs : store.exec[f].by = "due" /\ store.exec[f].owner = a
                        => store.exec[f].at # due
  <2>1. SUFFICES ASSUME NEW f \in Execs, store.exec[f].by = "due", store.exec[f].owner = a
                 PROVE  store.exec[f].at # due
    OBVIOUS
  <2>2. due > store.exec[f].at /\ store.exec[f].at \in Nat
    BY <1>1, <2>1 DEF StoreOK, DueOK, Stores, ExecStates
  <2> QED
    BY <1>4, <2>2
<1>11. due <= now /\ due < next
  BY <1>1, <1>3, <1>4, <1>5
<1> QED
  BY <1>3, <1>4, <1>7, <1>8, <1>9, <1>10, <1>11 DEF u

\* admit_due
LEMMA AdmitDueInv ==
  ASSUME AutoInv, NEW a \in Autos, AdmitDue(a)
  PROVE  AutoInv'
<1> DEFINE eligible == ArmableDue(store, a) <= sched.at
           moved == Advanced(store, a, sched.at)
           due == store.auto[a].due
           new == Created(moved, a, due, "due")
           e == Min(Unused(store))
<1>1. UNCHANGED <<child, now>>
  BY DEF AdmitDue, Env
<1>2. sched' \in Passes /\ sched'.at = sched.at /\ sched'.held = sched.held
  <2>1. \E todo, blocked \in SUBSET Autos : \E pc \in {sched.pc, "paused"} :
           sched' = [sched EXCEPT !.pc = pc, !.todo = todo, !.blocked = blocked]
    <3>1. sched.todo \ {a} \in SUBSET Autos /\ sched.blocked \cup {a} \in SUBSET Autos
          /\ sched.blocked \in SUBSET Autos
      BY PassNow DEF Passes
    <3>2. \/ sched' = [sched EXCEPT !.todo = @ \ {a}]
          \/ sched' = [sched EXCEPT !.pc = "paused", !.todo = {}, !.blocked = {}]
          \/ sched' = [sched EXCEPT !.todo = @ \ {a}, !.blocked = @ \cup {a}]
          \/ sched' = [sched EXCEPT !.todo = @ \ {a}, !.blocked = @]
      BY DEF AdmitDue
    <3>3. \/ sched' = [sched EXCEPT !.pc = sched.pc, !.todo = sched.todo \ {a},
                         !.blocked = sched.blocked]
          \/ sched' = [sched EXCEPT !.pc = "paused", !.todo = {}, !.blocked = {}]
          \/ sched' = [sched EXCEPT !.pc = sched.pc, !.todo = sched.todo \ {a},
                         !.blocked = sched.blocked \cup {a}]
      BY <3>2, PassNow DEF Passes
    <3> QED
      BY <3>1, <3>3
  <2> QED
    BY <2>1, PassNow DEF Passes
<1>3. CASE eligible /\ MayCreate(store)
  <2>1. PICK out \in Outcomes :
           Committed(new, out) /\ drv' = IF out = "ok" THEN Spawn({e}) ELSE drv
    BY <1>3 DEF AdmitDue
  <2>2. /\ StoreOK(moved, now) /\ moved.task = store.task
        /\ moved.auto[a].st = "visible" /\ moved.auto[a].active = None
        /\ due \in Nat /\ due <= now /\ due < moved.auto[a].due
        /\ \A f \in Execs : moved.exec[f].by = "due" /\ moved.exec[f].owner = a
                            => moved.exec[f].at # due
    BY <1>3, AdvancedOK
  <2> HIDE DEF moved, due
  <2>3. Unused(moved) = Unused(store) /\ Unused(store) # {}
    BY <1>3, <2>2 DEF Unused, MayCreate, HasRoom
  <2>4. /\ StoreOK(new, now) /\ e \in Unused(store) /\ new.task[e].state # "absent"
        /\ \A f \in Execs : moved.task[f].state # "absent" => new.task[f].state # "absent"
    BY <2>2, <2>3, PassNow, CreatedOK
  <2>5. Follows(new)
    BY <2>2, <2>4 DEF Follows
  <2> HIDE DEF new
  <2> QED
    BY <1>1, <1>2, <2>1, <2>4, <2>5, AdmitsAndStarts
<1>4. CASE ~(eligible /\ MayCreate(store))
  <2>1. UNCHANGED <<store, drv>>
    BY <1>4 DEF AdmitDue, NoCommit
  <2> QED
    BY <1>1, <1>2, <2>1, PassOnly
<1> QED
  BY <1>3, <1>4

\* admit_event holds the driver back until every candidate was looked at.
LEMMA AdmitEventInv ==
  ASSUME AutoInv, NEW a \in Autos, AdmitEvent(a)
  PROVE  AutoInv'
<1> DEFINE admits == AcceptsEvent(store, a, EventName) /\ store.auto[a].active = None
                     /\ MayCreate(store)
           new == Created(store, a, now, "event")
           e == Min(Unused(store))
<1>1. UNCHANGED <<drv, child, now>>
  BY DEF AdmitEvent, Env
<1>2. CASE admits
  <2>1. PICK out \in Outcomes :
           /\ Committed(new, out)
           /\ sched' = IF out = "ok"
                         THEN [sched EXCEPT !.todo = @ \ {a}, !.held = @ \cup {e}]
                         ELSE [sched EXCEPT !.todo = {}, !.held = {},
                                 !.pc = IF @ = "ready" THEN "ended" ELSE "paused"]
    BY <1>2 DEF AdmitEvent
  <2>2. /\ StoreOK(new, now) /\ e \in Unused(store) /\ new.task[e].state # "absent"
        /\ \A f \in Execs : store.task[f].state # "absent" => new.task[f].state # "absent"
    BY <1>2, PassNow, CreatedOK DEF AcceptsEvent, Visible, MayCreate, HasRoom
  <2>3. Follows(new)
    BY <2>2 DEF Follows
  <2> HIDE DEF new
  <2>4. Follows(store')
    BY <2>1, <2>3, CommitFollows
  <2>5. e \in Execs /\ drv[e].pc = "none" /\ e \notin sched.held
    BY <2>2, FreshExec
  <2> HIDE DEF e
  <2>6. CASE out = "ok"
    <3>1. sched' \in Passes /\ sched'.at = sched.at /\ sched'.held = sched.held \cup {e}
      BY <2>1, <2>5, <2>6, PassNow DEF Passes
    <3>2. store' = new
      BY <2>1, <2>6 DEF Committed
    <3>3. \A f \in sched'.held : f \notin {} /\ drv[f].pc = "none" /\ store'.task[f].state # "absent"
      BY <2>2, <2>3, <2>5, <3>1, <3>2, PassNow DEF AutoInv, DriversOK, Follows, Passes
    <3> QED
      BY <1>1, <2>4, <3>1, <3>3, PassNow, SpawnNone, SchedChange
  <2>7. CASE out # "ok"
    <3>1. sched' \in Passes /\ sched'.at = sched.at /\ sched'.held = {}
      BY <2>1, <2>7, PassNow DEF Passes
    <3> QED
      BY <1>1, <2>4, <3>1, PassNow, PassChange
  <2> QED
    BY <2>6, <2>7
<1>3. CASE ~admits
  <2>1. UNCHANGED store /\ sched' = [sched EXCEPT !.todo = @ \ {a}]
    BY <1>3 DEF AdmitEvent, NoCommit
  <2>2. sched' \in Passes /\ sched'.at = sched.at /\ sched'.held = sched.held
    BY <2>1, PassNow DEF Passes
  <2> QED
    BY <1>1, <2>1, <2>2, PassOnly
<1> QED
  BY <1>2, <1>3

\* The drivers held back start together.
LEMMA StartAdmittedInv ==
  ASSUME AutoInv, StartAdmitted
  PROVE  AutoInv'
<1>1. sched' \in Passes /\ sched'.at = sched.at /\ sched'.held = {}
  BY PassNow DEF StartAdmitted, Passes
<1>2. UNCHANGED <<store, child, now>> /\ drv' = Spawn(sched.held)
  BY DEF StartAdmitted, NoCommit, Env
<1>3. /\ sched.held \in SUBSET Execs
      /\ \A e \in sched.held : drv[e].pc = "none" /\ store'.task[e].state # "absent"
  BY <1>2, PassNow DEF Passes, AutoInv, DriversOK
<1> QED
  BY <1>1, <1>2, <1>3, SameFollows, PassNow, SchedChange

-----------------------------------------------------------------------------
(* The drivers.                                                            *)

\* What a driver knows before a step.
LEMMA DriverNow ==
  ASSUME AutoInv, NEW e \in Execs
  PROVE  /\ drv \in [Execs -> DriverStates] /\ drv[e] \in DriverStates
         /\ child \in [Execs -> ChildStates]
         /\ child[e] \in Followed => drv[e].pc = "child"
BY DEF AutoInv, SchedTypeOK, ChildAwaited

\* How a driver moves.
LEMMA DriverMoves ==
  ASSUME AutoInv, NEW e \in Execs
  PROVE  /\ \A pc \in {"run", "child"} : Drives(e, pc) =>
              \E d \in DriverStates : drv' = [drv EXCEPT ![e] = d] /\ d.pc = pc
         /\ \A o \in Terminal : Concludes(e, o) =>
              \E d \in DriverStates : drv' = [drv EXCEPT ![e] = d] /\ d.pc = "settle" /\ d.out = o
         /\ Returns(e) =>
              \E d \in DriverStates : drv' = [drv EXCEPT ![e] = d] /\ d.pc = "none"
<1>1. drv \in [Execs -> DriverStates] /\ drv[e] \in DriverStates
  BY DriverNow
<1>2. ASSUME NEW pc \in {"run", "child"}, Drives(e, pc)
      PROVE  \E d \in DriverStates : drv' = [drv EXCEPT ![e] = d] /\ d.pc = pc
  <2> DEFINE d == [drv[e] EXCEPT !.pc = pc]
  <2>1. d \in DriverStates /\ d.pc = pc
    BY <1>1 DEF DriverStates
  <2>2. drv' = [drv EXCEPT ![e] = d]
    BY <1>2 DEF Drives
  <2> QED
    BY <2>1, <2>2
<1>3. ASSUME NEW o \in Terminal, Concludes(e, o)
      PROVE  \E d \in DriverStates : drv' = [drv EXCEPT ![e] = d] /\ d.pc = "settle" /\ d.out = o
  <2> DEFINE d == [drv[e] EXCEPT !.pc = "settle", !.out = o]
  <2>1. d \in DriverStates /\ d.pc = "settle" /\ d.out = o
    BY <1>1 DEF DriverStates
  <2>2. drv' = [drv EXCEPT ![e] = d]
    BY <1>3 DEF Concludes
  <2> QED
    BY <2>1, <2>2
<1>4. NoDriver \in DriverStates /\ NoDriver.pc = "none"
  BY DEF NoDriver, DriverStates
<1>5. ASSUME Returns(e)
      PROVE  \E d \in DriverStates : drv' = [drv EXCEPT ![e] = d] /\ d.pc = "none"
  BY <1>4, <1>5 DEF Returns
<1> QED
  BY <1>2, <1>3, <1>5

\* A step of a driver that leaves its child alone, or has none left to follow.
LEMMA DriverAt ==
  ASSUME AutoInv, Follows(store'), UNCHANGED <<sched, now>>, NEW e \in Execs,
         drv[e].pc # "none",
         \/ child' = child /\ drv[e].pc # "child"
         \/ \E c \in {"none", "settled", "left"} : child' = [child EXCEPT ![e] = c],
         \/ \E pc \in {"run", "child"} : Drives(e, pc)
         \/ \E o \in Terminal : Concludes(e, o)
         \/ Returns(e)
  PROVE  AutoInv'
<1>1. PICK d \in DriverStates :
         drv' = [drv EXCEPT ![e] = d] /\ (d.pc = "settle" => d.out \in Terminal)
  BY DriverMoves
<1>2. /\ child' \in [Execs -> ChildStates]
      /\ \A f \in Execs \ {e} : child'[f] = child[f]
      /\ child'[e] \notin Followed
  BY DriverNow DEF ChildStates, Followed
<1> QED
  BY <1>1, <1>2, DriverChange

\* The outcome of a stopped run.
LEMMA StopIs ==
  ASSUME NEW e
  PROVE  Stop(e) \in Terminal /\ "completed" \in Terminal /\ "interrupted" \in Terminal
BY DEF Stop, Terminal

\* start_automation_execution
LEMMA StartExecutionInv ==
  ASSUME AutoInv, NEW e \in Execs, StartExecution(e)
  PROVE  AutoInv'
<1>1. UNCHANGED <<sched, now, child>> /\ drv[e].pc = "start"
  BY DEF StartExecution, DriverOnly
<1>2. CASE store.exec[e].state = "queued" /\ WithinRunning(Started(store, e))
  <2>1. PICK out \in Outcomes :
           Committed(Started(store, e), out) /\ (Drives(e, "run") \/ Returns(e))
    BY <1>2 DEF StartExecution
  <2>2. Follows(Started(store, e))
    BY <1>2, PassNow, StartedOK DEF Follows
  <2>3. Follows(store')
    BY <2>1, <2>2, CommitFollows
  <2> QED
    BY <1>1, <2>1, <2>3, DriverAt
<1>3. CASE ~(store.exec[e].state = "queued" /\ WithinRunning(Started(store, e)))
  <2>1. UNCHANGED store /\ Returns(e)
    BY <1>3 DEF StartExecution, NoCommit
  <2> QED
    BY <1>1, <2>1, SameFollows, DriverAt
<1> QED
  BY <1>2, <1>3

\* A visit that calls.
LEMMA VisitCallInv ==
  ASSUME AutoInv, NEW e \in Execs, VisitCall(e)
  PROVE  AutoInv'
<1> DEFINE v == drv[e].visits + 1
           d == [drv[e] EXCEPT !.pc = "child", !.visits = v]
<1>1. UNCHANGED <<store, sched, now>> /\ drv[e].pc = "run"
  BY DEF VisitCall, DriverOnly, NoCommit
<1>2. v \in Nat
  BY DriverNow DEF DriverStates
<1>3. drv' = [drv EXCEPT ![e] = d]
  BY DriverNow DEF VisitCall
<1> HIDE DEF v
<1>4. d \in DriverStates /\ d.pc = "child"
  BY <1>2, DriverNow DEF DriverStates
<1> HIDE DEF d
<1>5. /\ child' \in [Execs -> ChildStates]
      /\ \A f \in Execs \ {e} : child'[f] = child[f]
  BY DriverNow DEF VisitCall, ChildStates
<1> QED
  BY <1>1, <1>3, <1>5, <1>4, SameFollows, DriverChange

\* A visit that sets state.
LEMMA VisitSetStateInv ==
  ASSUME AutoInv, NEW e \in Execs, VisitSetState(e)
  PROVE  AutoInv'
<1>1. UNCHANGED <<sched, now, child>> /\ drv[e].pc = "run"
  BY DEF VisitSetState, DriverOnly
<1>2. PICK out \in Outcomes :
         /\ Committed(store, out)
         /\ drv' = [drv EXCEPT ![e].visits = @ + 1,
                      ![e].pc = IF out = "ok" THEN "run" ELSE "settle",
                      ![e].out = IF out = "ok" THEN "none" ELSE "failed"]
  BY DEF VisitSetState
<1> DEFINE pc == IF out = "ok" THEN "run" ELSE "settle"
           o == IF out = "ok" THEN "none" ELSE "failed"
           v == drv[e].visits + 1
           d == [drv[e] EXCEPT !.visits = v, !.pc = pc, !.out = o]
<1>3. /\ pc \in {"run", "settle"} /\ o \in {"none"} \cup Terminal
      /\ pc = "settle" => o \in Terminal
  BY DEF Terminal
<1> HIDE DEF pc, o
<1>4. v \in Nat
  BY DriverNow DEF DriverStates
<1>5. drv' = [drv EXCEPT ![e].visits = @ + 1, ![e].pc = pc, ![e].out = o]
  BY <1>2 DEF pc, o
<1>6. drv' = [drv EXCEPT ![e] = d]
  BY <1>5, DriverNow
<1> HIDE DEF v
<1>7. d \in DriverStates /\ d.pc = pc /\ d.out = o
  BY <1>3, <1>4, DriverNow DEF DriverStates
<1> HIDE DEF d
<1>8. Follows(store')
  BY <1>2, SameFollows, CommitFollows
<1>9. /\ child' \in [Execs -> ChildStates]
      /\ \A f \in Execs \ {e} : child'[f] = child[f]
      /\ child'[e] \notin Followed
  BY <1>1, DriverNow
<1> QED
  BY <1>1, <1>3, <1>6, <1>7, <1>8, <1>9, DriverChange

\* The steps of a driver between its start and its settlement that commit nothing.
LEMMA RunSteps ==
  ASSUME AutoInv, NEW e \in Execs,
         VisitEnds(e) \/ ChildReturned(e) \/ StopsChild(e) \/ LeavesChild(e) \/ LosesChild(e)
  PROVE  AutoInv'
<1>1. UNCHANGED <<store, sched, now>> /\ drv[e].pc # "none"
  BY DEF VisitEnds, ChildReturned, StopsChild, LeavesChild, LosesChild, DriverOnly, NoCommit
<1>2. Drives(e, "run") \/ \E o \in Terminal : Concludes(e, o)
  BY StopIs DEF VisitEnds, ChildReturned, StopsChild, LeavesChild, LosesChild
<1>3. \/ child' = child /\ drv[e].pc # "child"
      \/ \E c \in {"none", "settled", "left"} : child' = [child EXCEPT ![e] = c]
  BY DEF VisitEnds, ChildReturned, StopsChild, LeavesChild, LosesChild
<1> QED
  BY <1>1, <1>2, <1>3, SameFollows, DriverAt

\* settle_automation_execution
LEMMA SettleExecutionInv ==
  ASSUME AutoInv, NEW e \in Execs, SettleExecution(e)
  PROVE  AutoInv'
<1>1. UNCHANGED <<sched, now, child>> /\ drv[e].pc = "settle" /\ drv[e].out \in Terminal
  BY DEF SettleExecution, DriverOnly, AutoInv, DriversOK
<1>2. CASE MaySettle(store, e)
  <2>1. PICK out \in Outcomes :
           Committed(Settled(store, e, drv[e].out), out) /\ (Returns(e) \/ UNCHANGED drv)
    BY <1>2 DEF SettleExecution
  <2>2. Follows(Settled(store, e, drv[e].out))
    BY <1>1, <1>2, PassNow, SettledOK, SettledTasks DEF Follows
  <2>3. Follows(store')
    BY <2>1, <2>2, CommitFollows
  <2> QED
    BY <1>1, <2>1, <2>3, DriverAt, StoreStep
<1>3. CASE ~MaySettle(store, e)
  <2>1. UNCHANGED store /\ Returns(e)
    BY <1>3 DEF SettleExecution, NoCommit
  <2> QED
    BY <1>1, <2>1, SameFollows, DriverAt
<1> QED
  BY <1>2, <1>3

-----------------------------------------------------------------------------
(* The environment, and the recovery.                                      *)

\* A child settles, or is asked to.
LEMMA ChildSettlesInv ==
  ASSUME AutoInv, NEW e \in Execs, ChildSettles(e) \/ ChildAsked(e)
  PROVE  AutoInv'
<1>1. UNCHANGED <<store, drv, sched, now>>
  BY DEF ChildSettles, ChildAsked, NoCommit
<1>2. /\ child' \in [Execs -> ChildStates]
      /\ \A f \in Execs : child'[f] \in Followed => child[f] \in Followed
  BY DriverNow DEF ChildSettles, ChildAsked, ChildStates, Followed
<1> QED
  BY <1>1, <1>2 DEF AutoInv, SchedTypeOK, DriversOK, ChildAwaited

\* The clock advances: what lay before it still does.
LEMMA TickInv ==
  ASSUME AutoInv, Tick
  PROVE  AutoInv'
<1>1. UNCHANGED <<store, drv, child, sched>> /\ now' = now + 1 /\ now' \in 0..MaxNow
  BY PassNow, Bounds DEF Tick
<1>2. DueOK(store, now')
  <2>1. \A e \in Execs : store.exec[e].at \in Nat
    BY PassNow DEF Stores, ExecStates
  <2> QED
    BY <1>1, <2>1, PassNow DEF StoreOK, DueOK
<1>3. StoreOK(store, now)'
  BY <1>1, <1>2, PassNow DEF StoreOK, ExecOK, AutoOK, DueOK
<1>4. SchedTypeOK'
  BY <1>1, PassNow DEF AutoInv, SchedTypeOK
<1> QED
  BY <1>1, <1>3, <1>4 DEF AutoInv, DriversOK, ChildAwaited

\* Nothing of an instance is left but the store.
LEMMA VolatileInv ==
  ASSUME AutoInv, Follows(store'), UNCHANGED now, NEW pass \in Passes, Volatile(pass),
         pass.at = 0, pass.held = {}
  PROVE  AutoInv'
<1>1. drv' \in [Execs -> DriverStates] /\ \A e \in Execs : drv'[e].pc = "none"
  BY DEF Volatile, NoDriver, DriverStates
<1>2. /\ child' \in [Execs -> ChildStates]
      /\ \A e \in Execs : child'[e] = "none"
  BY DEF Volatile, ChildStates
<1>3. sched' = pass
  BY DEF Volatile
<1>4. SchedTypeOK'
  BY <1>1, <1>2, <1>3, PassNow DEF AutoInv, SchedTypeOK
<1>5. DriversOK' /\ ChildAwaited'
  BY <1>1, <1>2, <1>3 DEF DriversOK, ChildAwaited, Followed
<1> QED
  BY <1>4, <1>5 DEF AutoInv, Follows

\* The process dies, and its successor recovers.
LEMMA DieActivateInv ==
  ASSUME AutoInv, Die \/ Activate
  PROVE  AutoInv'
<1>1. NoPass \in Passes /\ NoPass.at = 0 /\ NoPass.held = {}
  BY DEF NoPass, Passes
<1>2. CASE Die
  BY <1>1, <1>2, SameFollows, VolatileInv DEF Die
<1>3. CASE Activate
  <2> DEFINE todo == {a \in Autos : AcceptsEvent(store, a, "runtime.ready")}
             pass == [NoPass EXCEPT !.pc = "ready", !.todo = todo]
  <2>1. todo \in SUBSET Autos
    OBVIOUS
  <2>2. Volatile(pass) /\ UNCHANGED now /\ store' = Interrupted(store)
    BY <1>3 DEF Activate
  <2> HIDE DEF todo
  <2>3. pass \in Passes /\ pass.at = 0 /\ pass.held = {}
    BY <2>1 DEF NoPass, Passes
  <2> HIDE DEF pass
  <2>4. Follows(store')
    BY <2>2, PassNow, InterruptedOK DEF Follows
  <2> QED
    BY <2>2, <2>3, <2>4, VolatileInv
<1> QED
  BY <1>2, <1>3

\* An empty store.
LEMMA AutoInitInv ==
  ASSUME AutoInit
  PROVE  AutoInv
<1>1. /\ NoAutomation \in AutoStates /\ NoAutomation.active = None /\ NoAutomation.st = "unborn"
  BY Bounds DEF NoAutomation, AutoStates
<1>2. /\ NoExecution \in ExecStates /\ NoExecution.owner = "none" /\ NoExecution.by = "none"
      /\ NoExecution.state = "absent"
  BY DEF NoExecution, ExecStates
<1>3. NoTaskYet \in TaskStates /\ NoTaskYet.state = "absent"
  BY DEF NoTaskYet, TaskStates, TaskState
<1>4. /\ store \in Stores /\ \A a \in Autos : store.auto[a] = NoAutomation
      /\ \A e \in Execs : store.exec[e] = NoExecution /\ store.task[e] = NoTaskYet
  BY <1>1, <1>2, <1>3 DEF AutoInit, Stores
<1>5. \A e \in Execs : ExecOK(store, e)
  BY <1>2, <1>3, <1>4 DEF ExecOK, Live, Terminal
<1>6. \A a \in Autos : AutoOK(store, a)
  BY <1>1, <1>2, <1>4, Bounds DEF AutoOK
<1>7. DueOK(store, now)
  BY <1>2, <1>4 DEF DueOK
<1>8. NoDriver \in DriverStates /\ NoDriver.pc = "none"
  BY DEF NoDriver, DriverStates
<1>9. NoPass \in Passes /\ NoPass.at = 0 /\ NoPass.held = {}
  BY DEF NoPass, Passes
<1>10. SchedTypeOK /\ DriversOK /\ ChildAwaited
  BY <1>8, <1>9, Bounds DEF AutoInit, SchedTypeOK, DriversOK, ChildAwaited, ChildStates,
     Followed
<1> QED
  BY <1>4, <1>5, <1>6, <1>7, <1>10 DEF AutoInv, StoreOK

-----------------------------------------------------------------------------
(* The theorems.                                                           *)

\* Of any number of Automations and executions: the store stays sound through every commit
\* of tool, canceller, scheduler, driver and recovery, and every driver has its execution.
THEOREM AutomationInductive == AutoSpec => []AutoInv
<1>1. AutoInit => AutoInv
  BY AutoInitInv
<1>2. AutoInv /\ [AutoNext]_autoVars => AutoInv'
  <2> SUFFICES ASSUME AutoInv, [AutoNext]_autoVars PROVE AutoInv'
    OBVIOUS
  <2>1. ASSUME NEW a \in Autos, ToolStep(a) PROVE AutoInv'
    BY <2>1, SaveNewInv, SaveUpdateInv, DeleteInv, RequestRunInv DEF ToolStep
  <2>2. ASSUME NEW e \in Execs, CancelContainer(e) \/ WakeCancelled(e) PROVE AutoInv'
    BY <2>2, CancelContainerInv, WakeCancelledInv
  <2>3. ASSUME SchedulerStep \/ NetworkEnds PROVE AutoInv'
    BY <2>3, SchedRecoverInv, QuietSteps, StartAdmittedInv, AdmitRequestedInv, AdmitDueInv,
       AdmitEventInv DEF SchedulerStep
  <2>4. ASSUME NEW e \in Execs, DriverStep(e) \/ ChildSettles(e) \/ ChildAsked(e) PROVE AutoInv'
    BY <2>4, StartExecutionInv, VisitCallInv, VisitSetStateInv, RunSteps, SettleExecutionInv,
       ChildSettlesInv DEF DriverStep
  <2>5. ASSUME Tick \/ Die \/ Activate PROVE AutoInv'
    BY <2>5, TickInv, DieActivateInv
  <2>6. ASSUME NetworkChange \/ UNCHANGED autoVars PROVE AutoInv'
    <3>1. UNCHANGED <<store, drv, child, sched, now>>
      BY <2>6 DEF NetworkChange, autoVars
    <3> QED
      BY <3>1, SameFollows, StoreStep
  <2> QED
    BY <2>1, <2>2, <2>3, <2>4, <2>5, <2>6 DEF AutoNext
<1> QED
  BY <1>1, <1>2, PTL DEF AutoSpec

\* Every execution that is not over is the one its Automation names, with a container Task
\* in the same state, and a tombstone lasts exactly as long as its last execution: whatever
\* the tool, the canceller, the scheduler, the drivers and the recovery of
\* settle_automation_in_state's callers do in between.
THEOREM ExecutionsOwned == AutoSpec => []OneOwner
<1>1. AutoInv => OneOwner
  BY DEF AutoInv, StoreOK, ExecOK, AutoOK, OneOwner, OwnedBy
<1> QED
  BY <1>1, AutomationInductive, PTL

\* No occurrence of an Automation is admitted twice, by admit_due or after a failed write or
\* a crash.
THEOREM OccurrencesServedOnce == AutoSpec => []ServedOnce
<1>1. AutoInv => ServedOnce
  BY DEF AutoInv, StoreOK, DueOK, ServedOnce
<1> QED
  BY <1>1, AutomationInductive, PTL

-----------------------------------------------------------------------------
(***************************************************************************)
(* Automation implements AutomationContract: under the mapping of its      *)
(* Contract the initial state is the contract's and every step is one of   *)
(* the contract's or leaves what it speaks of.                             *)
(***************************************************************************)

\* What the refinement mapping gives the contract for its variables.
Status  == [e \in Execs |-> store.task[e].state]
Asked   == {e \in Execs : store.task[e].cancel}
Called  == [e \in Execs |-> IF child[e] = "settled" THEN "none" ELSE child[e]]
Slots   == [a \in Autos |-> store.auto[a].active]
Lives   == [a \in Autos |-> store.auto[a].st]

\* The contract's step, or a step it does not see, failures apart.
Allowed == Contract!Step \/ UNCHANGED (Contract!visible)

\* A driver that runs has a running execution; one that settles has an execution that was
\* started, and that somebody asked to cancel if it settles a cancellation.
DriverFits(s, d, e) ==
    /\ d.pc \in {"run", "child"} => s.task[e].state = "running"
    /\ d.pc = "settle" => /\ s.task[e].state \in {"running"} \cup Terminal
                          /\ d.out = "cancelled" => s.task[e].cancel

\* What drivers and cancellers know of the store, and that a host that is down has none.
WorkOK ==
    /\ flag \in [Execs -> BOOLEAN] /\ waking \in SUBSET Execs
    /\ \A e \in Execs : /\ flag[e] \/ e \in waking => store.task[e].cancel
                        /\ store.task[e].state = "absent" => ~store.task[e].cancel
    /\ \A e \in Execs : DriverFits(store, drv[e], e)
    /\ sched.pc = "down" => \A e \in Execs : drv[e].pc = "none" /\ child[e] = "none"

WorkInv == AutoInv /\ WorkOK

\* A cancel stays, and nobody else is flagged or woken.
LEMMA WorkKept ==
  ASSUME WorkInv,
         \A e \in Execs : /\ store.task[e].cancel => store'.task[e].cancel
                          /\ store'.task[e].state = "absent" => ~store'.task[e].cancel,
         \A e \in Execs : DriverFits(store', drv'[e], e),
         flag' \in [Execs -> BOOLEAN], waking' \in SUBSET Execs,
         \A e \in Execs : flag'[e] => flag[e] \/ e \in waking,
         \A e \in waking' : e \in waking \/ store'.task[e].cancel,
         sched'.pc = "down" => \A e \in Execs : drv'[e].pc = "none" /\ child'[e] = "none"
  PROVE  WorkOK'
BY DEF WorkInv, WorkOK, DriverFits

\* What the events of this module make of a request to cancel.
LEMMA TaskCancel ==
  ASSUME NEW lc \in TaskStates, lc.state \in Live
  PROVE  /\ After(NewLifecycle, Event("Queue")).cancel = FALSE
         /\ After(lc, Event("Start")).cancel = lc.cancel
         /\ After(lc, Event("RequestCancel")).cancel = TRUE
         /\ SettledTask(lc, "cancelled").cancel = TRUE
         /\ \A how \in Terminal \ {"cancelled"} : SettledTask(lc, how).cancel = lc.cancel
<1>1. lc.state \notin Terminal
  BY DEF Live, Terminal
<1>2. /\ After(NewLifecycle, Event("Queue")).cancel = FALSE
      /\ After(lc, Event("Start")).cancel = lc.cancel
  BY DEF After, NewLifecycle, Event, TaskStates
<1>3. After(lc, Event("RequestCancel")) \in TaskStates /\ After(lc, Event("RequestCancel")).cancel = TRUE
  BY <1>1 DEF After, Event, TaskStates, IsTerminal
<1>4. ASSUME NEW l \in TaskStates, NEW how \in Terminal
      PROVE  After(l, SettleEvent(how)).cancel = l.cancel
  BY DEF After, SettleEvent, Event, TaskStates, Terminal
<1> QED
  BY <1>2, <1>3, <1>4 DEF SettledTask, Terminal

\* What the contract sees of a settlement.
LEMMA SettledShows ==
  ASSUME NEW s, NEW t \in Nat, StoreOK(s, t), NEW e \in Execs, MaySettle(s, e),
         NEW how \in Terminal
  PROVE  \A a \in Autos :
           /\ Settled(s, e, how).auto[a].active =
                IF s.auto[a].active = e THEN None ELSE s.auto[a].active
           /\ Settled(s, e, how).auto[a].st =
                IF s.auto[a].active = e /\ s.auto[a].st = "deleted" THEN "gone" ELSE s.auto[a].st
<1> DEFINE a == s.exec[e].owner
           u == [s EXCEPT !.task[e] = SettledTask(@, how), !.exec[e].state = how]
           v == [u EXCEPT !.auto[a].active = None]
<1>1. /\ a \in Autos /\ s.auto[a].active = e /\ s \in Stores
      /\ \A b \in Autos : s.auto[b].active = e => b = a
  BY Bounds DEF MaySettle, StoreOK, ExecOK, AutoOK
<1>2. u.auto = s.auto
  BY <1>1 DEF Stores
<1>3. Without(u, OwnedBy(u, a)).auto = s.auto
  BY <1>2 DEF Without, Stores
<1>4. Pruned(v, a).auto = [s.auto EXCEPT ![a].active = None]
  BY <1>1 DEF Pruned, Without, Stores
<1> HIDE DEF u, v
<1>5. CASE s.auto[a].st = "deleted"
  <2>1. Settled(s, e, how) = [Without(u, OwnedBy(u, a)) EXCEPT !.auto[a] = Removed("gone")]
    BY <1>5 DEF Settled, u
  <2>2. Settled(s, e, how).auto = [s.auto EXCEPT ![a] = Removed("gone")]
    BY <1>3, <2>1 DEF Without
  <2>3. Removed("gone").active = None /\ Removed("gone").st = "gone"
    BY DEF Removed, NoAutomation
  <2> QED
    BY <1>1, <1>5, <2>2, <2>3 DEF Stores
<1>6. CASE s.auto[a].st # "deleted"
  <2>1. Settled(s, e, how) = Pruned(v, a)
    BY <1>6 DEF Settled, u, v
  <2> QED
    BY <1>1, <1>4, <1>6, <2>1 DEF Stores, AutoStates
<1> QED
  BY <1>5, <1>6

\* What it sees of an admission.
LEMMA CreatedShows ==
  ASSUME NEW s \in Stores, NEW a \in Autos, NEW at, NEW by, Unused(s) # {}
  PROVE  LET u == Created(s, a, at, by)
             e == Min(Unused(s))
         IN  /\ e \in Execs /\ s.task[e].state = "absent"
             /\ u.task = [s.task EXCEPT ![e] = After(NewLifecycle, Event("Queue"))]
             /\ \A b \in Autos : /\ u.auto[b].active = IF b = a THEN e ELSE s.auto[b].active
                                 /\ u.auto[b].st = s.auto[b].st
<1> DEFINE e == Min(Unused(s))
           u == Created(s, a, at, by)
           queued == After(NewLifecycle, Event("Queue"))
<1>1. e \in Execs /\ s.task[e].state = "absent"
  BY MinUnused DEF Unused
<1> HIDE DEF e, queued
<1>2. u.task = [s.task EXCEPT ![e] = queued] /\ u.auto = [s.auto EXCEPT ![a].active = e]
  BY DEF Created, Stores, e, queued
<1> HIDE DEF u
<1>3. \A b \in Autos : /\ u.auto[b].active = IF b = a THEN e ELSE s.auto[b].active
                       /\ u.auto[b].st = s.auto[b].st
  BY <1>2 DEF Stores, AutoStates
<1> QED
  BY <1>1, <1>2, <1>3 DEF u, e, queued

-----------------------------------------------------------------------------
(* The contract's steps, from what a step does to the records.             *)

\* A step that changes nothing the contract speaks of.
LEMMA NotSeen ==
  ASSUME \A e \in Execs : store'.task[e] = store.task[e],
         \A a \in Autos : /\ store'.auto[a].active = store.auto[a].active
                          /\ store'.auto[a].st = store.auto[a].st,
         child' = child \/ Called' = Called, Up' <=> Up
  PROVE  Allowed
<1>1. Status' = Status /\ Asked' = Asked /\ Called' = Called /\ Slots' = Slots /\ Lives' = Lives
  BY DEF Status, Asked, Called, Slots, Lives
<1> QED
  BY <1>1 DEF Allowed, Contract!visible, Status, Asked, Called, Slots, Lives

\* A step that creates or removes the Automation a.
LEMMA LifeAllowed ==
  ASSUME NEW a \in Autos, store'.task = store.task, child' = child, Up, Up',
         \A b \in Autos : store'.auto[b].active = store.auto[b].active,
         \A b \in Autos \ {a} : store'.auto[b].st = store.auto[b].st,
         \/ store.auto[a].st = "unborn" /\ store'.auto[a].st = "visible"
         \/ /\ store.auto[a].st = "visible"
            /\ store'.auto[a].st = IF store.auto[a].active = None THEN "gone" ELSE "deleted"
  PROVE  Allowed
<1>1. Status' = Status /\ Asked' = Asked /\ Called' = Called /\ Slots' = Slots
  BY DEF Status, Asked, Called, Slots
<1>2. CASE store.auto[a].st = "unborn"
  <2>1. Lives[a] = "unborn" /\ Lives' = [Lives EXCEPT ![a] = "visible"]
    BY <1>2 DEF Lives
  <2>2. Contract!Create(a)
    BY <1>1, <2>1 DEF Contract!Create, Status, Asked, Called, Slots, Lives
  <2> QED
    BY <2>2 DEF Allowed, Contract!Step
<1>3. CASE store.auto[a].st = "visible"
  <2>1. Lives[a] = "visible" /\ Lives' = [Lives EXCEPT ![a] = IF Slots[a] = None THEN "gone" ELSE "deleted"]
    BY <1>3 DEF Lives, Slots
  <2>2. Contract!Remove(a)
    BY <1>1, <2>1 DEF Contract!Remove, Status, Asked, Called, Slots, Lives
  <2> QED
    BY <2>2 DEF Allowed, Contract!Step
<1> QED
  BY <1>2, <1>3

\* A step that admits the execution e of a.
LEMMA AdmitAllowed ==
  ASSUME NEW a \in Autos, NEW e \in Execs, NEW r \in TaskStates, child' = child, Up, Up',
         store.task \in [Execs -> TaskStates],
         store.auto[a].st = "visible", store.auto[a].active = None,
         store.task[e].state = "absent", store.task[e].cancel => r.cancel,
         r.state = "queued", r.cancel => store.task[e].cancel,
         store'.task = [store.task EXCEPT ![e] = r],
         \A b \in Autos : /\ store'.auto[b].active = IF b = a THEN e ELSE store.auto[b].active
                          /\ store'.auto[b].st = store.auto[b].st
  PROVE  Allowed
<1>1. /\ Status[e] = "absent" /\ Status' = [Status EXCEPT ![e] = "queued"]
      /\ Asked' = Asked
  BY DEF Status, Asked, TaskStates
<1>2. /\ Slots[a] = None /\ Slots' = [Slots EXCEPT ![a] = e]
      /\ Lives[a] = "visible" /\ Lives' = Lives
  BY DEF Slots, Lives
<1>3. Called' = Called
  BY DEF Called
<1>4. Contract!Admit(a, e)
  BY <1>1, <1>2, <1>3 DEF Contract!Admit, Status, Asked, Called, Slots, Lives
<1> QED
  BY <1>4 DEF Allowed, Contract!Step

\* A step that starts the execution e, or asks to cancel it.
LEMMA TaskAllowed ==
  ASSUME NEW e \in Execs, NEW r \in TaskStates, child' = child, Up, Up',
         store.task \in [Execs -> TaskStates], store'.auto = store.auto,
         store'.task = [store.task EXCEPT ![e] = r],
         \/ store.task[e].state = "queued" /\ r.state = "running" /\ (r.cancel <=> store.task[e].cancel)
         \/ store.task[e].state = "running" /\ r.state = "running" /\ r.cancel
  PROVE  Allowed
<1>1. Called' = Called /\ Slots' = Slots /\ Lives' = Lives
  BY DEF Called, Slots, Lives
<1>2. Status' = [Status EXCEPT ![e] = "running"]
  BY DEF Status
<1>3. CASE store.task[e].state = "queued"
  <2>1. Status[e] = "queued" /\ Asked' = Asked
    BY <1>3 DEF Status, Asked, TaskStates
  <2>2. Contract!Start(e)
    BY <1>1, <1>2, <2>1 DEF Contract!Start, Status, Asked, Called, Slots, Lives
  <2> QED
    BY <2>2 DEF Allowed, Contract!Step
<1>4. CASE store.task[e].state = "running"
  <2>1. Status[e] = "running" /\ Status' = Status /\ Asked' = Asked \cup {e}
    BY <1>4 DEF Status, Asked, TaskStates
  <2>2. Contract!Ask(e)
    BY <1>1, <2>1 DEF Contract!Ask, Status, Asked, Called, Slots, Lives
  <2> QED
    BY <2>2 DEF Allowed, Contract!Step
<1> QED
  BY <1>3, <1>4

\* A step that ends the execution e.
LEMMA EndAllowed ==
  ASSUME NEW e \in Execs, NEW r \in TaskStates, child' = child, Up, Up', child[e] \notin Followed,
         child \in [Execs -> ChildStates],
         store.task \in [Execs -> TaskStates], store.task[e].state \in Live,
         store'.task = [store.task EXCEPT ![e] = r], r.state \in Terminal,
         store.task[e].state = "queued" => r.state = "cancelled",
         store.task[e].state = "running" /\ r.state = "cancelled" => store.task[e].cancel,
         IF r.state = "cancelled" THEN r.cancel ELSE r.cancel <=> store.task[e].cancel,
         \A a \in Autos :
           /\ store'.auto[a].active = IF store.auto[a].active = e THEN None ELSE store.auto[a].active
           /\ store'.auto[a].st = IF store.auto[a].active = e /\ store.auto[a].st = "deleted"
                                    THEN "gone" ELSE store.auto[a].st
  PROVE  Allowed
<1> DEFINE how == r.state
<1>1. /\ Status[e] \in {"queued", "running"} /\ Status' = [Status EXCEPT ![e] = how]
      /\ Status[e] = "queued" => how = "cancelled"
  BY DEF Status, Live
<1>2. /\ Asked' = IF how = "cancelled" THEN Asked \cup {e} ELSE Asked
      /\ Status[e] = "running" /\ how = "cancelled" => e \in Asked
  BY DEF Asked, Status, TaskStates
<1>3. Called' = Called /\ Called[e] \in {"none", "left"}
  BY DEF Called, ChildStates, Followed
<1>4. /\ Slots' = [a \in Autos |-> IF Slots[a] \in {e} THEN None ELSE Slots[a]]
      /\ Lives' = [a \in Autos |-> IF Slots[a] \in {e} /\ Lives[a] = "deleted" THEN "gone"
                                                                            ELSE Lives[a]]
  BY DEF Slots, Lives
<1>5. Contract!Frees({e})
  BY <1>4 DEF Contract!Frees, Slots, Lives
<1> HIDE DEF how
<1>6. Contract!End(e, how)
  BY <1>1, <1>2, <1>3, <1>5 DEF Contract!End, Contract!Open, Status, Asked, Called
<1>7. how \in Contract!Ends
  BY DEF how, Contract!Ends, Terminal
<1> QED
  BY <1>6, <1>7 DEF Allowed, Contract!Step

\* A step that calls a child, or that ends, cancels or leaves the one called.
LEMMA CallAllowed ==
  ASSUME NEW e \in Execs, store' = store, Up, Up', child \in [Execs -> ChildStates],
         NEW c \in ChildStates, child' = [child EXCEPT ![e] = c],
         \/ /\ store.task[e].state = "running" /\ child[e] \in {"none", "settled", "left"}
            /\ c = "active"
         \/ child[e] = "active" /\ c = "asked"
         \/ child[e] \in {"active", "asked", "left"} /\ c \in {"none", "settled"}
         \/ child[e] = "asked" /\ c = "left"
         \/ child[e] = "active" /\ c = "left" /\ mishaps' > mishaps
  PROVE  Allowed
<1>1. Status' = Status /\ Asked' = Asked /\ Slots' = Slots /\ Lives' = Lives
  BY DEF Status, Asked, Slots, Lives
<1> DEFINE k == IF c = "settled" THEN "none" ELSE c
<1>2. Called' = [Called EXCEPT ![e] = k]
  BY DEF Called
<1>3. /\ Called[e] = IF child[e] = "settled" THEN "none" ELSE child[e]
      /\ Status[e] = store.task[e].state
  BY DEF Called, Status
<1>4. \/ /\ Status[e] = "running" /\ Called[e] \in {"none", "left"} /\ k = "active"
      \/ Called[e] = "active" /\ k = "asked"
      \/ Called[e] \in {"active", "asked", "left"} /\ k = "none"
      \/ (Called[e] = "asked" \/ (Called[e] = "active" /\ mishaps' > mishaps)) /\ k = "left"
  BY <1>3 DEF ChildStates
<1> HIDE DEF k
<1>5. CASE Status[e] = "running" /\ Called[e] \in {"none", "left"} /\ k = "active"
  <2>1. Contract!Call(e)
    BY <1>1, <1>2, <1>5 DEF Contract!Call, Status, Asked, Called, Slots, Lives
  <2> QED
    BY <2>1 DEF Allowed, Contract!Step
<1>6. CASE Called[e] = "active" /\ k = "asked"
  <2>1. Contract!AskChild(e)
    BY <1>1, <1>2, <1>6 DEF Contract!AskChild, Status, Asked, Called, Slots, Lives
  <2> QED
    BY <2>1 DEF Allowed, Contract!Step
<1>7. CASE Called[e] \in {"active", "asked", "left"} /\ k = "none"
  <2>1. Contract!Return(e)
    BY <1>1, <1>2, <1>7 DEF Contract!Return, Status, Asked, Called, Slots, Lives
  <2> QED
    BY <2>1 DEF Allowed, Contract!Step
<1>8. CASE (Called[e] = "asked" \/ (Called[e] = "active" /\ mishaps' > mishaps)) /\ k = "left"
  <2>1. Contract!Leave(e)
    BY <1>1, <1>2, <1>8 DEF Contract!Leave, Status, Asked, Called, Slots, Lives
  <2> QED
    BY <2>1 DEF Allowed, Contract!Step
<1> QED
  BY <1>4, <1>5, <1>6, <1>7, <1>8

-----------------------------------------------------------------------------
(* Every step keeps what drivers and cancellers know, and is allowed.      *)

\* A step that moves no driver, raises no flag and changes no Task.
LEMMA SameWork ==
  ASSUME WorkInv, \A e \in Execs : store'.task[e] = store.task[e],
         UNCHANGED <<drv, flag, waking>>,
         sched'.pc = "down" => sched.pc = "down" /\ child' = child
  PROVE  WorkOK'
BY WorkKept DEF WorkInv, WorkOK, DriverFits

\* A host with a driver or a pass is up.
LEMMA AtWork ==
  ASSUME WorkInv, NEW e \in Execs, drv[e].pc # "none"
  PROVE  Up
BY DEF WorkInv, WorkOK, Up

\* The steps of the tool.
LEMMA ToolAllowed ==
  ASSUME WorkInv, NEW a \in Autos, ToolStep(a)
  PROVE  WorkOK' /\ Allowed
<1>1. /\ store \in Stores /\ AutoOK(store, a)
      /\ store.auto[a] \in AutoStates
  BY DEF WorkInv, AutoInv, StoreOK, Stores
<1>2. UNCHANGED <<drv, flag, child, sched, waking>> /\ Up /\ Up'
  BY DEF ToolStep, SaveNew, SaveUpdate, Delete, RequestRun, Calls, Up
<1>3. ASSUME NEW r \in AutoStates, NEW s, s.task = store.task, s.auto = [store.auto EXCEPT ![a] = r],
             store' = s \/ store' = store, r.active = store.auto[a].active,
             \/ r.st = store.auto[a].st
             \/ store.auto[a].st = "unborn" /\ r.st = "visible"
             \/ /\ store.auto[a].st = "visible"
                /\ r.st = IF store.auto[a].active = None THEN "gone" ELSE "deleted"
      PROVE  WorkOK' /\ Allowed
  <2>1. WorkOK'
    BY <1>2, <1>3, SameWork
  <2>2. CASE store' = store \/ r.st = store.auto[a].st
    <3>1. \A b \in Autos : /\ store'.auto[b].active = store.auto[b].active
                           /\ store'.auto[b].st = store.auto[b].st
      BY <1>1, <1>3, <2>2 DEF Stores
    <3>2. \A e \in Execs : store'.task[e] = store.task[e]
      BY <1>3
    <3>3. (Up' <=> Up) /\ child' = child
      BY <1>2
    <3> QED
      BY <2>1, <3>1, <3>2, <3>3, NotSeen
  <2>3. CASE store' = s /\ r.st # store.auto[a].st
    <3>1. /\ \A b \in Autos : store'.auto[b].active = store.auto[b].active
          /\ \A b \in Autos \ {a} : store'.auto[b].st = store.auto[b].st
          /\ store'.auto[a].st = r.st
      BY <1>1, <1>3, <2>3 DEF Stores
    <3> QED
      BY <1>2, <1>3, <2>1, <2>3, <3>1, LifeAllowed
  <2> QED
    BY <1>3, <2>1, <2>2, <2>3
<1>4. ASSUME NEW trigger \in Triggers, NEW enabled \in BOOLEAN, NEW old \in AutoStates,
             old.active = store.auto[a].active
      PROVE  LET r == Saved(old, trigger, enabled)
             IN  r \in AutoStates /\ r.active = old.active /\ r.st = "visible"
  <2>1. ScheduledDue(old, trigger, enabled) \in Nat
    BY <1>4, ScheduledIs DEF WorkInv, AutoInv, SchedTypeOK
  <2> QED
    BY <1>4, <2>1, AutomationAssumption DEF Saved, AutoStates
<1>5. ASSUME NEW trigger \in Triggers, NEW enabled \in BOOLEAN,
             SaveNew(a, trigger, enabled) \/ SaveUpdate(a, trigger, enabled)
      PROVE  WorkOK' /\ Allowed
  <2> DEFINE old == IF store.auto[a].st = "unborn" THEN NoAutomation ELSE store.auto[a]
             r == Saved(old, trigger, enabled)
             s == [store EXCEPT !.auto[a] = r]
  <2>1. old \in AutoStates /\ old.active = store.auto[a].active
    <3>1. store.auto[a].st = "unborn" => store.auto[a].active = None
      BY <1>1 DEF AutoOK, WorkInv, AutoInv, StoreOK
    <3>2. NoAutomation \in AutoStates /\ NoAutomation.active = None
      BY Bounds DEF NoAutomation, AutoStates
    <3> QED
      BY <1>1, <3>1, <3>2
  <2>2. PICK out \in Outcomes : Committed(s, out)
    BY <1>5 DEF SaveNew, SaveUpdate, Visible
  <2>3. store.auto[a].st \in {"unborn", "visible"}
    BY <1>5 DEF SaveNew, SaveUpdate, Visible
  <2> HIDE DEF old
  <2>4. r \in AutoStates /\ r.active = store.auto[a].active /\ r.st = "visible"
    BY <1>4, <2>1
  <2> HIDE DEF r
  <2>5. s.task = store.task /\ s.auto = [store.auto EXCEPT ![a] = r]
    BY <1>1 DEF Stores
  <2>6. store' = s \/ store' = store
    BY <2>2 DEF Committed
  <2> HIDE DEF s
  <2> QED
    BY <1>3, <2>3, <2>4, <2>5, <2>6
<1>6. CASE Delete(a)
  <2> DEFINE free == store.auto[a].active = None
             r == IF free THEN Removed("gone")
                  ELSE [store.auto[a] EXCEPT !.st = "deleted", !.due = NoDue]
             s == IF free THEN [Without(store, OwnedBy(store, a)) EXCEPT !.auto[a] = Removed("gone")]
                  ELSE [store EXCEPT !.auto[a].st = "deleted", !.auto[a].due = NoDue]
  <2>1. PICK out \in Outcomes : Committed(s, out)
    BY <1>6 DEF Delete
  <2>2. /\ r \in AutoStates /\ r.active = store.auto[a].active
        /\ r.st = IF free THEN "gone" ELSE "deleted"
    BY <1>1, Bounds DEF Removed, NoAutomation, AutoStates
  <2>3. s.task = store.task /\ s.auto = [store.auto EXCEPT ![a] = r]
    <3>1. CASE free
      BY <1>1, <3>1 DEF Without, Stores
    <3>2. CASE ~free
      BY <1>1, <3>2 DEF Stores
    <3> QED
      BY <3>1, <3>2
  <2>4. store' = s \/ store' = store
    BY <2>1 DEF Committed
  <2>5. store.auto[a].st = "visible"
    BY <1>6 DEF Delete, Visible
  <2> HIDE DEF s, r
  <2> QED
    BY <1>3, <2>2, <2>3, <2>4, <2>5
<1>7. CASE RequestRun(a)
  <2> DEFINE r == [store.auto[a] EXCEPT !.requested = TRUE]
             s == [store EXCEPT !.auto[a].requested = TRUE]
  <2>1. PICK out \in Outcomes : Committed(s, out)
    BY <1>7 DEF RequestRun
  <2>2. r \in AutoStates /\ r.active = store.auto[a].active /\ r.st = store.auto[a].st
    BY <1>1 DEF AutoStates
  <2>3. s.task = store.task /\ s.auto = [store.auto EXCEPT ![a] = r]
    BY <1>1 DEF Stores
  <2>4. store' = s \/ store' = store
    BY <2>1 DEF Committed
  <2> HIDE DEF s, r
  <2> QED
    BY <1>3, <2>2, <2>3, <2>4
<1> QED
  BY <1>5, <1>6, <1>7 DEF ToolStep

\* A cancelled container Task: one that is queued ends, one that runs was asked.
LEMMA CancelAllowed ==
  ASSUME WorkInv, NEW e \in Execs, CancelContainer(e)
  PROVE  WorkOK' /\ Allowed
<1> DEFINE lc == store.task[e]
           asked == After(lc, Event("RequestCancel"))
           u == [store EXCEPT !.task[e] = After(@, Event("RequestCancel"))]
           v == IF lc.state = "queued" THEN Settled(u, e, "cancelled") ELSE u
           r == IF lc.state = "queued" THEN SettledTask(asked, "cancelled") ELSE asked
<1>1. /\ now \in Nat /\ StoreOK(store, now) /\ store \in Stores /\ lc \in TaskStates
      /\ store.task \in [Execs -> TaskStates] /\ lc.state \in Live
  BY DEF WorkInv, AutoInv, SchedTypeOK, StoreOK, Stores, CancelContainer
<1>2. /\ asked \in TaskStates /\ asked.state = lc.state /\ asked.cancel = TRUE
  BY <1>1, TaskAfter, TaskCancel
<1>3. /\ r \in TaskStates /\ r.state = (IF lc.state = "queued" THEN "cancelled" ELSE lc.state)
      /\ r.cancel = TRUE
  BY <1>1, <1>2, TaskAfter, TaskCancel DEF Terminal
<1>4. /\ StoreOK(u, now) /\ u \in Stores /\ u.exec = store.exec /\ u.auto = store.auto
      /\ u.task = [store.task EXCEPT ![e] = asked] /\ u.task[e] = asked
  BY <1>1, AskedOK DEF StoreOK, Stores
<1>5. UNCHANGED <<drv, flag, child, sched>> /\ Up /\ Up'
  BY DEF CancelContainer, Calls, Up
<1>6. PICK out \in Outcomes : Committed(v, out) /\ waking' = IF out = "ok" THEN waking \cup {e} ELSE waking
  BY DEF CancelContainer
<1>7. store' = v \/ (store' = store /\ out # "ok")
  BY <1>6 DEF Committed
<1> HIDE DEF u, asked, r
<1>8. lc.state = "queued" => MaySettle(u, e)
  BY <1>1, <1>4 DEF MaySettle, StoreOK, ExecOK, Live
<1>9. v.task = [store.task EXCEPT ![e] = r]
  <2>1. CASE lc.state = "queued"
    <3>1. Settled(u, e, "cancelled").task = [u.task EXCEPT ![e] = SettledTask(u.task[e], "cancelled")]
      BY <1>4, SettledEnds DEF Terminal
    <3> QED
      BY <1>4, <2>1, <3>1 DEF r
  <2>2. CASE lc.state # "queued"
    BY <1>4, <2>2 DEF r
  <2> QED
    BY <2>1, <2>2
<1>10. lc.state = "queued" => \A a \in Autos :
         /\ v.auto[a].active = IF store.auto[a].active = e THEN None ELSE store.auto[a].active
         /\ v.auto[a].st = IF store.auto[a].active = e /\ store.auto[a].st = "deleted" THEN "gone"
                           ELSE store.auto[a].st
  BY <1>1, <1>4, <1>8, SettledShows DEF Terminal
<1>11. lc.state # "queued" => v.auto = store.auto
  BY <1>4
<1> HIDE DEF v
<1>12. CASE store' = store
  <2>1. waking' = waking \/ store'.task[e].cancel
    BY <1>3, <1>6, <1>7, <1>9, <1>1, <1>12
  <2>2. WorkOK'
    BY <1>5, <1>6, <1>12, <2>1, WorkKept DEF WorkInv, WorkOK
  <2> QED
    BY <1>5, <1>12, <2>2, NotSeen
<1>13. CASE store' = v
  <2>1. /\ store'.task[e] = r /\ \A f \in Execs \ {e} : store'.task[f] = store.task[f]
    BY <1>1, <1>9, <1>13
  <2>2. drv[e].pc \in {"run", "child"} => lc.state = "running"
    BY DEF WorkInv, WorkOK, DriverFits
  <2>3. drv[e].pc = "settle" => lc.state \in {"running"} \cup Terminal
    BY DEF WorkInv, WorkOK, DriverFits
  <2>4. \A f \in Execs : DriverFits(store', drv'[f], f)
    BY <1>3, <1>5, <2>1, <2>2, <2>3 DEF WorkInv, WorkOK, DriverFits, Terminal
  <2>5. WorkOK'
    <3>1. r.state # "absent"
      BY <1>1, <1>3 DEF Live
    <3> QED
      BY <1>3, <1>5, <1>6, <2>1, <2>4, <3>1, WorkKept DEF WorkInv, WorkOK
  <2>6. Allowed
    <3>1. CASE lc.state = "queued"
      <4>1. child[e] \notin Followed /\ child \in [Execs -> ChildStates]
        BY <2>2, <3>1 DEF WorkInv, AutoInv, ChildAwaited, SchedTypeOK
      <4>2. /\ r.state = "cancelled" /\ r.state \in Terminal /\ r.cancel
        BY <1>3, <3>1 DEF Terminal
      <4> QED
        BY <1>1, <1>3, <1>5, <1>9, <1>10, <1>13, <3>1, <4>1, <4>2, EndAllowed
    <3>2. CASE lc.state = "running"
      BY <1>1, <1>3, <1>5, <1>9, <1>11, <1>13, <3>2, TaskAllowed
    <3> QED
      BY <1>1, <3>1, <3>2 DEF Live
  <2> QED
    BY <2>5, <2>6
<1> QED
  BY <1>7, <1>12, <1>13

\* The steps of the scheduler that admit nobody, and a canceller's wake.
LEMMA PassAllowed ==
  ASSUME WorkInv,
         \/ SchedRecover \/ SchedReadDues \/ ArmAndWait \/ WakeFires \/ ChangeNotified
         \/ NetworkEvent \/ NetworkEnds \/ SchedRetries \/ StartAdmitted
         \/ \E e \in Execs : WakeCancelled(e)
  PROVE  WorkOK' /\ Allowed
<1>1. sched \in Passes
  BY PassNow DEF WorkInv
<1>2. CASE \E e \in Execs : WakeCancelled(e)
  <2>1. PICK e \in Execs : WakeCancelled(e)
    BY <1>2
  <2>2. UNCHANGED <<store, drv, child, sched>> /\ e \in waking /\ waking' = waking \ {e}
    BY <2>1 DEF WakeCancelled, NoCommit
  <2>3. flag' \in [Execs -> BOOLEAN] /\ \A f \in Execs : flag'[f] => flag[f] \/ f \in waking
    BY <2>1, <2>2 DEF WakeCancelled, WorkInv, WorkOK
  <2>4. WorkOK'
    BY <2>2, <2>3, WorkKept DEF WorkInv, WorkOK
  <2> QED
    BY <2>2, <2>4, NotSeen DEF Up
<1>3. CASE ~\E e \in Execs : WakeCancelled(e)
  <2>1. UNCHANGED <<store, flag, waking, child>>
    BY <1>3 DEF SchedRecover, SchedReadDues, ArmAndWait, WakeFires, ChangeNotified, NetworkEvent,
          NetworkEnds, SchedRetries, StartAdmitted, NoCommit, Env, Committed
  <2>2. sched.pc # "down" /\ sched'.pc # "down"
    BY <1>1, <1>3 DEF SchedRecover, SchedReadDues, ArmAndWait, WakeFires, ChangeNotified,
          NetworkEvent, NetworkEnds, SchedRetries, StartAdmitted, Goes, Passes
  <2>3. Allowed
    BY <2>1, <2>2, NotSeen DEF Up
  <2>4. CASE StartAdmitted
    <3>1. \A e \in Execs : drv'[e] = IF e \in sched.held THEN [NoDriver EXCEPT !.pc = "start"] ELSE drv[e]
      BY <2>4 DEF StartAdmitted, Spawn
    <3>2. [NoDriver EXCEPT !.pc = "start"].pc = "start"
      BY DEF NoDriver
    <3>3. \A e \in Execs : DriverFits(store', drv'[e], e)
      BY <2>1, <3>1, <3>2 DEF WorkInv, WorkOK, DriverFits
    <3> QED
      BY <2>1, <2>2, <2>3, <3>3, WorkKept DEF WorkInv, WorkOK
  <2>5. CASE ~StartAdmitted
    <3>1. UNCHANGED drv
      BY <1>3, <2>5 DEF SchedRecover, SchedReadDues, ArmAndWait, WakeFires, ChangeNotified, NetworkEvent,
            NetworkEnds, SchedRetries
    <3> QED
      BY <2>1, <2>2, <2>3, <3>1, SameWork
  <2> QED
    BY <2>4, <2>5
<1> QED
  BY <1>2, <1>3

\* A commit that admits one execution.
LEMMA AdmissionAllowed ==
  ASSUME WorkInv, NEW a \in Autos, NEW s \in Stores, NEW at, NEW by, NEW out,
         s.task = store.task, store.auto[a].st = "visible", store.auto[a].active = None,
         \A b \in Autos : /\ s.auto[b].active = store.auto[b].active
                          /\ s.auto[b].st = store.auto[b].st,
         Unused(store) # {}, Committed(Created(s, a, at, by), out),
         UNCHANGED <<child, flag, waking>>, drv' = drv \/ drv' = Spawn({Min(Unused(store))}),
         Up, Up'
  PROVE  WorkOK' /\ Allowed
<1> DEFINE e == Min(Unused(store))
           r == After(NewLifecycle, Event("Queue"))
           u == Created(s, a, at, by)
<1>1. store \in Stores /\ store.task \in [Execs -> TaskStates] /\ Unused(s) = Unused(store)
  BY DEF WorkInv, AutoInv, StoreOK, Stores, Unused
<1>2. /\ e \in Execs /\ store.task[e].state = "absent" /\ u.task = [store.task EXCEPT ![e] = r]
      /\ \A b \in Autos : /\ u.auto[b].active = IF b = a THEN e ELSE store.auto[b].active
                          /\ u.auto[b].st = store.auto[b].st
  BY <1>1, CreatedShows
<1>3. r \in TaskStates /\ r.state = "queued" /\ r.cancel = FALSE
  BY DEF After, NewLifecycle, Event, Selects, TaskStates, TaskState
<1>4. ~store.task[e].cancel
  BY <1>2 DEF WorkInv, WorkOK
<1>5. store' = u \/ store' = store
  BY DEF Committed
<1>6. sched'.pc # "down"
  BY DEF Up
<1> DEFINE d == [NoDriver EXCEPT !.pc = "start"]
<1>7. d.pc = "start"
  BY DEF NoDriver
<1>8. \A f \in Execs : drv'[f] = drv[f] \/ drv'[f] = d
  BY DEF Spawn
<1>9. drv[e].pc = "none"
  BY <1>2 DEF WorkInv, AutoInv, DriversOK
<1> HIDE DEF u, r, e, d
<1>10. CASE store' = u
  <2>1. store'.task[e] = r /\ \A f \in Execs \ {e} : store'.task[f] = store.task[f]
    BY <1>1, <1>2, <1>10
  <2>2. \A f \in Execs : DriverFits(store', drv'[f], f)
    BY <1>7, <1>8, <1>9, <2>1 DEF WorkInv, WorkOK, DriverFits
  <2>3. WorkOK'
    BY <1>3, <1>4, <1>6, <2>1, <2>2, WorkKept DEF WorkInv, WorkOK
  <2>4. Allowed
    BY <1>1, <1>2, <1>3, <1>4, <1>10, AdmitAllowed
  <2> QED
    BY <2>3, <2>4
<1>11. CASE store' = store
  <2>1. \A f \in Execs : DriverFits(store', drv'[f], f)
    BY <1>7, <1>8, <1>11 DEF WorkInv, WorkOK, DriverFits
  <2>2. WorkOK'
    BY <1>6, <1>11, <2>1, WorkKept DEF WorkInv, WorkOK
  <2>3. (Up' <=> Up) /\ child' = child
    OBVIOUS
  <2>4. Allowed
    BY <1>11, <2>3, NotSeen
  <2> QED
    BY <2>2, <2>4
<1> QED
  BY <1>5, <1>10, <1>11

\* The scheduler's admissions: of a requested run, of a due, of an event.
LEMMA AdmissionsAllowed ==
  ASSUME WorkInv, NEW a \in Autos, AdmitRequested(a) \/ AdmitDue(a) \/ AdmitEvent(a)
  PROVE  WorkOK' /\ Allowed
<1>1. /\ AutoInv /\ sched \in Passes /\ store \in Stores
  BY PassNow DEF WorkInv
<1>2. UNCHANGED <<child, flag, waking>>
  BY DEF AdmitRequested, AdmitDue, AdmitEvent, Env
<1>3. sched.pc # "down" /\ sched'.pc # "down" /\ Up /\ Up'
  BY <1>1 DEF AdmitRequested, AdmitDue, AdmitEvent, Passes, Up
<1>4. ASSUME \A e \in Execs : store'.task[e] = store.task[e],
             \A b \in Autos : /\ store'.auto[b].active = store.auto[b].active
                              /\ store'.auto[b].st = store.auto[b].st,
             drv' = drv
      PROVE  WorkOK' /\ Allowed
  <2>1. (Up' <=> Up) /\ child' = child
    BY <1>2, <1>3
  <2> QED
    BY <1>2, <1>3, <1>4, <2>1, SameWork, NotSeen
<1>5. CASE AdmitRequested(a)
  <2> DEFINE asked == [store EXCEPT !.auto[a].requested = FALSE]
             runs == Visible(store, a) /\ store.auto[a].active = None /\ MayCreate(store)
             new == Created(asked, a, now, "request")
  <2>1. /\ asked \in Stores /\ asked.task = store.task
        /\ \A b \in Autos : /\ asked.auto[b].active = store.auto[b].active
                            /\ asked.auto[b].st = store.auto[b].st
    <3>1. /\ StoreOK(asked, now) /\ asked.task = store.task
          /\ asked.auto[a].st = store.auto[a].st /\ asked.auto[a].active = store.auto[a].active
      BY <1>1, RequestedOK
    <3>2. \A b \in Autos \ {a} : asked.auto[b] = store.auto[b]
      BY <1>1 DEF Stores
    <3> HIDE DEF asked
    <3> QED
      BY <3>1, <3>2 DEF StoreOK
  <2>2. CASE ~store.auto[a].requested
    BY <1>4, <1>5, <2>2 DEF AdmitRequested, NoCommit
  <2>3. CASE store.auto[a].requested
    <3>1. PICK out \in Outcomes :
             /\ Committed(IF runs THEN new ELSE asked, out)
             /\ drv' = IF out = "ok" /\ runs THEN Spawn({Min(Unused(store))}) ELSE drv
      BY <1>5, <2>3 DEF AdmitRequested
    <3>2. CASE runs
      <4>1. store.auto[a].st = "visible" /\ store.auto[a].active = None /\ Unused(store) # {}
        BY <3>2 DEF Visible, MayCreate, HasRoom
      <4>2. Committed(new, out) /\ (drv' = drv \/ drv' = Spawn({Min(Unused(store))}))
        BY <3>1, <3>2
      <4> HIDE DEF asked
      <4> QED
        BY <1>2, <1>3, <2>1, <4>1, <4>2, AdmissionAllowed
    <3>3. CASE ~runs
      <4>1. (store' = asked \/ store' = store) /\ drv' = drv
        BY <3>1, <3>3 DEF Committed
      <4> HIDE DEF asked
      <4> QED
        BY <1>4, <2>1, <4>1
    <3> QED
      BY <3>2, <3>3
  <2> QED
    BY <2>2, <2>3
<1>6. CASE AdmitDue(a)
  <2> DEFINE eligible == ArmableDue(store, a) <= sched.at
             moved == Advanced(store, a, sched.at)
             new == Created(moved, a, store.auto[a].due, "due")
  <2>1. CASE eligible /\ MayCreate(store)
    <3>1. PICK out \in Outcomes :
             Committed(new, out) /\ drv' = IF out = "ok" THEN Spawn({Min(Unused(store))}) ELSE drv
      BY <1>6, <2>1 DEF AdmitDue
    <3>2. /\ moved \in Stores /\ moved.task = store.task
          /\ moved.auto[a].st = "visible" /\ moved.auto[a].active = None
      <4>1. /\ StoreOK(moved, now) /\ moved.task = store.task
            /\ moved.auto[a].st = "visible" /\ moved.auto[a].active = None
        BY <1>1, <2>1, AdvancedOK
      <4> HIDE DEF moved
      <4> QED
        BY <4>1 DEF StoreOK
    <3>3. \A b \in Autos : /\ moved.auto[b].active = store.auto[b].active
                           /\ moved.auto[b].st = store.auto[b].st
      BY <1>1 DEF Advanced, Stores, AutoStates
    <3>4. Unused(store) # {}
      BY <2>1 DEF MayCreate, HasRoom
    <3> HIDE DEF moved
    <3> QED
      BY <1>2, <1>3, <3>1, <3>2, <3>3, <3>4, AdmissionAllowed
  <2>2. CASE ~(eligible /\ MayCreate(store))
    BY <1>4, <1>6, <2>2 DEF AdmitDue, NoCommit
  <2> QED
    BY <2>1, <2>2
<1>7. CASE AdmitEvent(a)
  <2> DEFINE admits == AcceptsEvent(store, a, EventName) /\ store.auto[a].active = None
                       /\ MayCreate(store)
             new == Created(store, a, now, "event")
  <2>1. drv' = drv
    BY <1>7 DEF AdmitEvent
  <2>2. CASE admits
    <3>1. PICK out \in Outcomes : Committed(new, out)
      BY <1>7, <2>2 DEF AdmitEvent
    <3>2. store.auto[a].st = "visible" /\ store.auto[a].active = None /\ Unused(store) # {}
      BY <2>2 DEF AcceptsEvent, Visible, MayCreate, HasRoom
    <3> QED
      BY <1>1, <1>2, <1>3, <2>1, <3>1, <3>2, AdmissionAllowed
  <2>3. CASE ~admits
    BY <1>4, <1>7, <2>1, <2>3 DEF AdmitEvent, NoCommit
  <2> QED
    BY <2>2, <2>3
<1> QED
  BY <1>5, <1>6, <1>7

\* A step of the driver of e, whose flag may fall.
LEMMA DriverWork ==
  ASSUME WorkInv, NEW e \in Execs, drv[e].pc # "none", NEW d \in DriverStates,
         drv' = [drv EXCEPT ![e] = d], UNCHANGED <<waking, sched>>,
         flag' = flag \/ flag' = [flag EXCEPT ![e] = FALSE],
         \A f \in Execs \ {e} : store'.task[f] = store.task[f],
         store.task[e].cancel => store'.task[e].cancel,
         store'.task[e].state = "absent" => ~store'.task[e].cancel,
         DriverFits(store', d, e)
  PROVE  WorkOK'
<1>1. drv'[e] = d /\ \A f \in Execs \ {e} : drv'[f] = drv[f]
  BY DEF WorkInv, AutoInv, SchedTypeOK
<1>2. \A f \in Execs : DriverFits(store', drv'[f], f)
  BY <1>1 DEF WorkInv, WorkOK, DriverFits
<1>3. flag' \in [Execs -> BOOLEAN] /\ \A f \in Execs : flag'[f] => flag[f]
  BY DEF WorkInv, WorkOK
<1>4. sched'.pc # "down"
  BY AtWork DEF Up
<1> QED
  BY <1>2, <1>3, <1>4, WorkKept DEF WorkInv, WorkOK

\* The start of an execution.
LEMMA StartAllowed ==
  ASSUME WorkInv, NEW e \in Execs, StartExecution(e)
  PROVE  WorkOK' /\ Allowed
<1> DEFINE r == After(store.task[e], Event("Start"))
           u == Started(store, e)
<1>1. /\ AutoInv /\ store \in Stores /\ store.task \in [Execs -> TaskStates]
      /\ store.task[e] \in TaskStates /\ drv[e].pc = "start"
  BY DEF WorkInv, AutoInv, StoreOK, Stores, StartExecution
<1>2. UNCHANGED <<waking, sched, child>> /\ Up /\ Up'
  BY <1>1, AtWork DEF StartExecution, DriverOnly, Up
<1>3. ASSUME store' = store, Returns(e) PROVE WorkOK' /\ Allowed
  <2>1. PICK d \in DriverStates : drv' = [drv EXCEPT ![e] = d] /\ d.pc = "none"
    BY <1>1, <1>3, DriverMoves
  <2>2. DriverFits(store', d, e)
    BY <2>1 DEF DriverFits
  <2>3. WorkOK'
    BY <1>1, <1>2, <1>3, <2>1, <2>2, DriverWork DEF WorkInv, WorkOK, Returns
  <2>4. (Up' <=> Up) /\ child' = child
    BY <1>2
  <2> QED
    BY <1>3, <2>3, <2>4, NotSeen
<1>4. CASE store.exec[e].state = "queued" /\ WithinRunning(Started(store, e))
  <2>1. PICK out \in Outcomes :
           /\ Committed(u, out)
           /\ IF out = "ok" THEN Drives(e, "run") /\ UNCHANGED flag ELSE Returns(e)
    BY <1>4 DEF StartExecution
  <2>2. store.task[e].state = "queued"
    BY <1>1, <1>4 DEF AutoInv, StoreOK, ExecOK, Live
  <2>3. r \in TaskStates /\ r.state = "running" /\ r.cancel = store.task[e].cancel
    BY <1>1, <2>2, TaskAfter, TaskCancel DEF Live
  <2>4. u.task = [store.task EXCEPT ![e] = r] /\ u.auto = store.auto
    BY <1>1 DEF Started, Stores
  <2>5. \/ store' = u
        \/ store' = store /\ out # "ok"
    BY <2>1 DEF Committed
  <2> HIDE DEF u, r
  <2>6. CASE store' = u
    <3>1. \E d \in DriverStates : drv' = [drv EXCEPT ![e] = d] /\ d.pc \in {"run", "none"}
      BY <1>1, <2>1, DriverMoves
    <3>2. PICK d \in DriverStates : drv' = [drv EXCEPT ![e] = d] /\ d.pc \in {"run", "none"}
      BY <3>1
    <3>3. store'.task[e] = r /\ \A f \in Execs \ {e} : store'.task[f] = store.task[f]
      BY <1>1, <2>4, <2>6
    <3>4. DriverFits(store', d, e)
      BY <2>3, <3>2, <3>3 DEF DriverFits
    <3>5. flag' = flag \/ flag' = [flag EXCEPT ![e] = FALSE]
      BY <2>1 DEF Returns
    <3>6. WorkOK'
      BY <1>1, <1>2, <2>3, <3>2, <3>3, <3>4, <3>5, DriverWork
    <3>7. Allowed
      BY <1>1, <1>2, <2>2, <2>3, <2>4, <2>6, TaskAllowed
    <3> QED
      BY <3>6, <3>7
  <2> QED
    BY <1>3, <2>1, <2>5, <2>6
<1>5. CASE ~(store.exec[e].state = "queued" /\ WithinRunning(Started(store, e)))
  BY <1>3, <1>5 DEF StartExecution, NoCommit
<1> QED
  BY <1>4, <1>5

\* The steps of a driver between its start and its settlement.
LEMMA VisitsAllowed ==
  ASSUME WorkInv, mishaps \in Nat, NEW e \in Execs,
         \/ VisitCall(e) \/ VisitSetState(e) \/ VisitEnds(e)
         \/ ChildReturned(e) \/ StopsChild(e) \/ LeavesChild(e) \/ LosesChild(e)
  PROVE  WorkOK' /\ Allowed
<1>1. /\ AutoInv /\ drv \in [Execs -> DriverStates] /\ drv[e] \in DriverStates
      /\ child \in [Execs -> ChildStates]
      /\ child[e] \in Followed => drv[e].pc = "child"
  BY DriverNow DEF WorkInv
<1>2. drv[e].pc \in {"run", "child"} /\ store.task[e].state = "running"
  BY DEF VisitCall, VisitSetState, VisitEnds, ChildReturned, StopsChild, LeavesChild, LosesChild, WorkInv,
     WorkOK, DriverFits
<1>3. UNCHANGED <<store, flag, waking, sched>>
  BY DEF VisitCall, VisitSetState, VisitEnds, ChildReturned, StopsChild, LeavesChild, LosesChild, DriverOnly,
     NoCommit, Committed
<1>4. Up /\ Up'
  BY <1>2, <1>3, AtWork DEF Up
<1>5. \E d \in DriverStates : /\ drv' = [drv EXCEPT ![e] = d] /\ d.pc \in {"run", "child", "settle"}
                              /\ d.pc = "settle" /\ d.out = "cancelled" => flag[e]
  <2>1. CASE VisitCall(e)
    <3> DEFINE v == drv[e].visits + 1
               d == [drv[e] EXCEPT !.pc = "child", !.visits = v]
    <3>1. v \in Nat
      BY <1>1 DEF DriverStates
    <3>2. drv' = [drv EXCEPT ![e] = d]
      BY <1>1, <2>1 DEF VisitCall
    <3> HIDE DEF v
    <3>3. d \in DriverStates /\ d.pc = "child"
      BY <1>1, <3>1 DEF DriverStates
    <3> QED
      BY <3>2, <3>3
  <2>2. CASE VisitSetState(e)
    <3>1. PICK out \in Outcomes :
             drv' = [drv EXCEPT ![e].visits = @ + 1,
                       ![e].pc = IF out = "ok" THEN "run" ELSE "settle",
                       ![e].out = IF out = "ok" THEN "none" ELSE "failed"]
      BY <2>2 DEF VisitSetState
    <3> DEFINE pc == IF out = "ok" THEN "run" ELSE "settle"
               o == IF out = "ok" THEN "none" ELSE "failed"
               v == drv[e].visits + 1
               d == [drv[e] EXCEPT !.visits = v, !.pc = pc, !.out = o]
    <3>2. pc \in {"run", "settle"} /\ o \in {"none", "failed"}
      OBVIOUS
    <3>3. drv' = [drv EXCEPT ![e].visits = @ + 1, ![e].pc = pc, ![e].out = o]
      BY <3>1
    <3> HIDE DEF pc, o
    <3>4. v \in Nat
      BY <1>1 DEF DriverStates
    <3>5. drv' = [drv EXCEPT ![e] = d]
      BY <1>1, <3>3
    <3> HIDE DEF v
    <3>6. d \in DriverStates /\ d.pc = pc /\ d.out = o
      BY <1>1, <3>2, <3>4 DEF DriverStates, Terminal
    <3> QED
      BY <3>2, <3>5, <3>6
  <2>3. CASE VisitEnds(e) \/ ChildReturned(e) \/ StopsChild(e) \/ LeavesChild(e) \/ LosesChild(e)
    <3>1. \/ Drives(e, "run")
          \/ \E o \in Terminal : Concludes(e, o) /\ (o = "cancelled" => flag[e])
      BY <2>3, StopIs DEF VisitEnds, ChildReturned, StopsChild, LeavesChild, LosesChild, Stop
    <3> QED
      BY <1>1, <3>1, DriverMoves
  <2> QED
    BY <2>1, <2>2, <2>3
<1>6. WorkOK'
  <2>1. PICK d \in DriverStates : /\ drv' = [drv EXCEPT ![e] = d]
                                  /\ d.pc = "settle" /\ d.out = "cancelled" => flag[e]
    BY <1>5
  <2>2. DriverFits(store', d, e)
    BY <1>2, <1>3, <2>1 DEF DriverFits, WorkInv, WorkOK
  <2> QED
    BY <1>2, <1>3, <2>1, <2>2, DriverWork DEF WorkInv, WorkOK
<1>7. Allowed
  <2>1. CASE VisitCall(e)
    <3>1. child[e] \in {"none", "settled", "left"} /\ child' = [child EXCEPT ![e] = "active"]
      BY <1>1, <2>1 DEF VisitCall, ChildStates, Followed
    <3> QED
      BY <1>1, <1>2, <1>3, <1>4, <3>1, CallAllowed DEF ChildStates
  <2>2. CASE StopsChild(e)
    <3>1. child[e] \in {"active", "asked"} /\ child' = [child EXCEPT ![e] = "none"]
      BY <2>2 DEF StopsChild, Followed
    <3> QED
      BY <1>1, <1>3, <1>4, <3>1, CallAllowed DEF ChildStates
  <2>3. CASE LeavesChild(e) \/ LosesChild(e)
    <3>1. /\ child[e] = "asked" \/ (child[e] = "active" /\ mishaps' > mishaps)
          /\ child' = [child EXCEPT ![e] = "left"]
      BY <2>3 DEF LeavesChild, LosesChild, Followed
    <3> QED
      BY <1>1, <1>3, <1>4, <3>1, CallAllowed DEF ChildStates
  <2>4. CASE VisitSetState(e) \/ VisitEnds(e) \/ ChildReturned(e)
    <3>1. child' = child \/ Called' = Called
      BY <1>1, <2>4 DEF VisitSetState, VisitEnds, ChildReturned, DriverOnly, Called
    <3> QED
      BY <1>3, <1>4, <3>1, NotSeen
  <2> QED
    BY <2>1, <2>2, <2>3, <2>4
<1> QED
  BY <1>6, <1>7

\* The settlement of an execution, which was running and calls nobody.
LEMMA SettleAllowed ==
  ASSUME WorkInv, NEW e \in Execs, SettleExecution(e)
  PROVE  WorkOK' /\ Allowed
<1> DEFINE how == drv[e].out
           u == Settled(store, e, how)
           r == SettledTask(store.task[e], how)
<1>1. /\ AutoInv /\ now \in Nat /\ StoreOK(store, now) /\ store \in Stores
      /\ store.task \in [Execs -> TaskStates] /\ store.task[e] \in TaskStates
      /\ drv[e] \in DriverStates
  BY PassNow DEF WorkInv, AutoInv, SchedTypeOK, Stores
<1>2. /\ drv[e].pc = "settle" /\ how \in Terminal /\ child[e] \notin Followed
      /\ child \in [Execs -> ChildStates]
      /\ store.task[e].state \in {"running"} \cup Terminal
      /\ how = "cancelled" => store.task[e].cancel
  BY DEF SettleExecution, WorkInv, WorkOK, DriverFits, AutoInv, DriversOK, ChildAwaited,
     SchedTypeOK
<1>3. UNCHANGED <<waking, sched, child>> /\ Up /\ Up'
  BY <1>2, AtWork DEF SettleExecution, DriverOnly, Up
<1> HIDE DEF how
<1>4. \E d \in DriverStates : drv' = [drv EXCEPT ![e] = d] /\ (d.pc = "none" \/ d = drv[e])
  <2>1. Returns(e) \/ UNCHANGED drv
    BY DEF SettleExecution
  <2>2. UNCHANGED drv => drv' = [drv EXCEPT ![e] = drv[e]]
    BY DEF WorkInv, AutoInv, SchedTypeOK
  <2> QED
    BY <1>1, <2>1, <2>2, DriverMoves
<1>5. flag' = flag \/ flag' = [flag EXCEPT ![e] = FALSE]
  BY DEF SettleExecution, Returns
<1>6. CASE store' = store
  <2>1. WorkOK'
    <3>1. PICK d \in DriverStates : drv' = [drv EXCEPT ![e] = d] /\ (d.pc = "none" \/ d = drv[e])
      BY <1>4
    <3>2. DriverFits(store', d, e)
      BY <1>6, <3>1 DEF DriverFits, WorkInv, WorkOK
    <3> QED
      BY <1>2, <1>3, <1>5, <1>6, <3>1, <3>2, DriverWork DEF WorkInv, WorkOK
  <2>2. (Up' <=> Up) /\ child' = child
    BY <1>3
  <2> QED
    BY <1>6, <2>1, <2>2, NotSeen
<1>7. CASE store' # store
  <2>1. MaySettle(store, e) /\ store' = u
    BY <1>7 DEF SettleExecution, NoCommit, Committed, how
  <2>2. store.task[e].state = "running"
    BY <1>1, <1>2, <2>1 DEF MaySettle, StoreOK, ExecOK, Live, Terminal
  <2>3. /\ r \in TaskStates /\ r.state = how
        /\ IF how = "cancelled" THEN r.cancel = TRUE ELSE r.cancel = store.task[e].cancel
    BY <1>1, <1>2, <2>2, TaskAfter, TaskCancel DEF Live
  <2>4. u.task = [store.task EXCEPT ![e] = r]
    BY <1>1, <1>2, SettledEnds
  <2>5. \A a \in Autos :
          /\ u.auto[a].active = IF store.auto[a].active = e THEN None ELSE store.auto[a].active
          /\ u.auto[a].st = IF store.auto[a].active = e /\ store.auto[a].st = "deleted" THEN "gone"
                            ELSE store.auto[a].st
    BY <1>1, <1>2, <2>1, SettledShows
  <2> HIDE DEF u, r
  <2>6. store'.task[e] = r /\ \A f \in Execs \ {e} : store'.task[f] = store.task[f]
    BY <1>1, <2>1, <2>4
  <2>7. WorkOK'
    <3>1. PICK d \in DriverStates : drv' = [drv EXCEPT ![e] = d] /\ (d.pc = "none" \/ d = drv[e])
      BY <1>4
    <3>2. DriverFits(store', d, e)
      BY <1>2, <2>3, <2>6, <3>1 DEF DriverFits, how
    <3>3. /\ store.task[e].cancel => store'.task[e].cancel
          /\ store'.task[e].state # "absent"
      BY <1>2, <2>3, <2>6 DEF Terminal
    <3> QED
      BY <1>2, <1>3, <1>5, <2>6, <3>1, <3>2, <3>3, DriverWork
  <2>8. Allowed
    <3>1. /\ store.task[e].state \in Live /\ store.task[e].state # "queued"
          /\ r.state \in Terminal /\ (r.state = "cancelled" => store.task[e].cancel)
          /\ IF r.state = "cancelled" THEN r.cancel ELSE r.cancel <=> store.task[e].cancel
      BY <1>2, <2>2, <2>3 DEF Live
    <3> QED
      BY <1>1, <1>2, <1>3, <2>1, <2>3, <2>4, <2>5, <3>1, EndAllowed
  <2> QED
    BY <2>7, <2>8
<1> QED
  BY <1>6, <1>7

\* A child that settles, or is asked to.
LEMMA ChildAllowed ==
  ASSUME WorkInv, NEW e \in Execs, ChildSettles(e) \/ ChildAsked(e)
  PROVE  WorkOK' /\ Allowed
<1>1. child \in [Execs -> ChildStates]
  BY DriverNow DEF WorkInv
<1>2. /\ UNCHANGED <<store, drv, flag, waking, sched>>
      /\ \E c \in ChildStates :
           /\ child' = [child EXCEPT ![e] = c]
           /\ \/ child[e] = "active" /\ c = "asked"
              \/ child[e] \in {"active", "asked", "left"} /\ c \in {"none", "settled"}
  BY DEF ChildSettles, ChildAsked, NoCommit, ChildStates
<1>3. Up /\ Up'
  BY <1>2 DEF Up, WorkInv, WorkOK
<1>4. WorkOK'
  BY <1>2, <1>3, SameWork DEF Up
<1> QED
  BY <1>1, <1>2, <1>3, <1>4, CallAllowed

\* The end of the instance loses every call, and keeps the store.
LEMMA DieAllowed ==
  ASSUME WorkInv, Die
  PROVE  WorkOK' /\ Allowed
<1>1. /\ store' = store /\ Up /\ ~Up'
      /\ drv' = [e \in Execs |-> NoDriver] /\ flag' = [e \in Execs |-> FALSE] /\ waking' = {}
      /\ child' = [e \in Execs |-> "none"] /\ sched'.pc = "down"
  BY DEF Die, Volatile, NoPass, Up
<1>2. NoDriver.pc = "none"
  BY DEF NoDriver
<1>3. WorkOK'
  BY <1>1, <1>2, WorkKept DEF WorkInv, WorkOK, DriverFits
<1>4. /\ Status' = Status /\ Asked' = Asked /\ Slots' = Slots /\ Lives' = Lives
      /\ Called' = [e \in Execs |-> "none"]
  BY <1>1 DEF Status, Asked, Slots, Lives, Called
<1>5. Contract!Lose
  BY <1>1, <1>4 DEF Contract!Lose, Status, Asked, Called, Slots, Lives
<1> QED
  BY <1>3, <1>5 DEF Allowed, Contract!Step

\* The recovery interrupts what is open, and removes the tombstones.
LEMMA ActivateAllowed ==
  ASSUME WorkInv, Activate
  PROVE  WorkOK' /\ Allowed
<1>1. /\ now \in Nat /\ StoreOK(store, now) /\ store \in Stores
      /\ store.task \in [Execs -> TaskStates]
  BY PassNow DEF WorkInv, Stores
<1>2. /\ ~Up /\ Up' /\ sched'.pc = "ready"
      /\ drv' = [e \in Execs |-> NoDriver] /\ flag' = [e \in Execs |-> FALSE] /\ waking' = {}
      /\ child' = [e \in Execs |-> "none"] /\ store' = Interrupted(store)
  BY DEF Activate, Volatile, NoPass, Up
<1>3. /\ \A e \in Execs : store'.task[e] =
           IF store.task[e].state \in Live THEN SettledTask(store.task[e], "interrupted")
           ELSE store.task[e]
      /\ \A a \in Autos :
           /\ store'.auto[a].active = None
           /\ store'.auto[a].st = IF store.auto[a].st = "deleted" THEN "gone" ELSE store.auto[a].st
  BY <1>1, <1>2, InterruptedOK
<1>4. ASSUME NEW e \in Execs
      PROVE  /\ store'.task[e].state = IF store.task[e].state \in Live THEN "interrupted"
                                       ELSE store.task[e].state
             /\ store'.task[e].cancel = store.task[e].cancel
  <2>1. store.task[e] \in TaskStates
    BY <1>1
  <2>2. CASE store.task[e].state \in Live
    <3>1. /\ SettledTask(store.task[e], "interrupted").state = "interrupted"
          /\ SettledTask(store.task[e], "interrupted").cancel = store.task[e].cancel
      BY <2>1, <2>2, TaskAfter, TaskCancel DEF Terminal
    <3> QED
      BY <1>3, <2>2, <3>1
  <2>3. CASE store.task[e].state \notin Live
    BY <1>3, <2>3
  <2> QED
    BY <2>2, <2>3
<1>5. NoDriver.pc = "none"
  BY DEF NoDriver
<1>6. WorkOK'
  BY <1>2, <1>4, <1>5, WorkKept DEF WorkInv, WorkOK, DriverFits
<1>7. \A e \in Execs : child[e] = "none"
  BY <1>2 DEF WorkInv, WorkOK, Up
<1>8. Called' = Called /\ Asked' = Asked
  BY <1>2, <1>4, <1>7 DEF Called, Asked
<1>9. Status' = [e \in Execs |-> IF Status[e] \in {"queued", "running"} THEN "interrupted" ELSE Status[e]]
  BY <1>4 DEF Status, Live
<1> DEFINE open == {e \in Execs : Status[e] \in {"queued", "running"}}
<1>10. ASSUME NEW a \in Autos
       PROVE  /\ Slots[a] # None => Slots[a] \in open
              /\ Lives[a] = "deleted" => Slots[a] \in open
  BY <1>1 DEF StoreOK, AutoOK, ExecOK, Slots, Lives, Status, Live
<1> HIDE DEF open
<1>11. /\ Slots' = [a \in Autos |-> IF Slots[a] \in open THEN None ELSE Slots[a]]
       /\ Lives' = [a \in Autos |-> IF Slots[a] \in open /\ Lives[a] = "deleted" THEN "gone"
                                                                               ELSE Lives[a]]
  BY <1>3, <1>10 DEF Slots, Lives
<1>12. open = {e \in Execs : Contract!Open(e)}
  BY DEF open, Contract!Open, Status
<1>13. Contract!Frees({e \in Execs : Contract!Open(e)})
  BY <1>11, <1>12 DEF Contract!Frees, Slots, Lives
<1>14. Contract!Recover
  BY <1>2, <1>8, <1>9, <1>13 DEF Contract!Recover, Contract!Open, Status, Asked, Called
<1> QED
  BY <1>6, <1>14 DEF Allowed, Contract!Step

\* Time, and a change of the network.
LEMMA WorldAllowed ==
  ASSUME WorkInv, Tick \/ NetworkChange \/ UNCHANGED autoVars
  PROVE  WorkOK' /\ Allowed
<1>1. UNCHANGED <<store, drv, flag, waking, child, sched>>
  BY DEF Tick, NetworkChange, autoVars
<1>2. WorkOK'
  BY <1>1, SameWork
<1> QED
  BY <1>1, <1>2, NotSeen DEF Up

-----------------------------------------------------------------------------
\* Every step, from what the records and the drivers say, keeps what drivers and cancellers
\* know, and is one that AutomationContract allows.
LEMMA StepAllowed ==
  ASSUME WorkInv, mishaps \in Nat, [AutoNext]_autoVars
  PROVE  WorkOK' /\ Allowed
<1>1. ASSUME NEW a \in Autos, ToolStep(a) PROVE WorkOK' /\ Allowed
  BY <1>1, ToolAllowed
<1>2. ASSUME NEW e \in Execs, CancelContainer(e) \/ WakeCancelled(e) PROVE WorkOK' /\ Allowed
  BY <1>2, CancelAllowed, PassAllowed
<1>3. ASSUME SchedulerStep \/ NetworkEnds PROVE WorkOK' /\ Allowed
  BY <1>3, PassAllowed, AdmissionsAllowed DEF SchedulerStep
<1>4. ASSUME NEW e \in Execs, DriverStep(e) \/ ChildSettles(e) \/ ChildAsked(e) PROVE WorkOK' /\ Allowed
  BY <1>4, StartAllowed, VisitsAllowed, SettleAllowed, ChildAllowed DEF DriverStep
<1> QED
  BY <1>1, <1>2, <1>3, <1>4, DieAllowed, ActivateAllowed, WorldAllowed DEF AutoNext

\* No step takes a failure back.
LEMMA FaultsGrow ==
  ASSUME mishaps \in Nat, [AutoNext]_autoVars
  PROVE  mishaps' \in Nat /\ mishaps' >= mishaps
<1> DEFINE Grows == mishaps' = mishaps \/ mishaps' = mishaps + 1
<1>1. /\ NoCommit => Grows
      /\ \A s, out : Committed(s, out) => Grows
  BY DEF NoCommit, Committed
<1>2. ASSUME NEW a \in Autos, ToolStep(a) PROVE Grows
  BY <1>1, <1>2 DEF ToolStep, SaveNew, SaveUpdate, Delete, RequestRun
<1>3. ASSUME NEW e \in Execs, CancelContainer(e) \/ WakeCancelled(e) PROVE Grows
  BY <1>1, <1>3 DEF CancelContainer, WakeCancelled
<1>4. ASSUME SchedulerStep \/ NetworkEnds PROVE Grows
  <2>1. ASSUME NEW a \in Autos, AdmitRequested(a) \/ AdmitDue(a) \/ AdmitEvent(a) PROVE Grows
    BY <1>1, <2>1 DEF AdmitRequested, AdmitDue, AdmitEvent
  <2>2. ASSUME SchedRecover \/ SchedReadDues \/ ArmAndWait PROVE Grows
    BY <1>1, <2>2 DEF SchedRecover, SchedReadDues, ArmAndWait
  <2>3. ASSUME WakeFires \/ ChangeNotified \/ NetworkEvent \/ StartAdmitted \/ SchedRetries
        PROVE  Grows
    BY <1>1, <2>3 DEF WakeFires, ChangeNotified, NetworkEvent, StartAdmitted, SchedRetries
  <2> QED
    BY <1>4, <2>1, <2>2, <2>3 DEF SchedulerStep, NetworkEnds
<1>5. ASSUME NEW e \in Execs, DriverStep(e) PROVE Grows
  <2>1. ASSUME StartExecution(e) \/ VisitSetState(e) \/ SettleExecution(e) PROVE Grows
    BY <1>1, <2>1 DEF StartExecution, VisitSetState, SettleExecution
  <2>2. ASSUME VisitCall(e) \/ VisitEnds(e) \/ ChildReturned(e) \/ StopsChild(e)
               \/ LeavesChild(e) \/ LosesChild(e)
        PROVE  Grows
    BY <1>1, <2>2 DEF VisitCall, VisitEnds, ChildReturned, StopsChild, LeavesChild, LosesChild
  <2> QED
    BY <1>5, <2>1, <2>2 DEF DriverStep
<1>6. ASSUME NEW e \in Execs, ChildSettles(e) \/ ChildAsked(e) PROVE Grows
  BY <1>1, <1>6 DEF ChildSettles, ChildAsked
<1>7. ASSUME Tick \/ NetworkChange \/ Die \/ Activate \/ UNCHANGED autoVars PROVE Grows
  BY <1>7 DEF Tick, NetworkChange, Die, Activate, autoVars
<1>8. Grows
  BY <1>2, <1>3, <1>4, <1>5, <1>6, <1>7 DEF AutoNext
<1> QED
  BY <1>8

\* What the drivers and cancellers know stays true: a driver that runs has a running
\* execution, a raised flag and a settled cancellation were asked for.
THEOREM WorkInductive == AutoSpec => []WorkInv
<1>1. AutoInit => WorkOK
  BY DEF AutoInit, WorkOK, DriverFits, NoDriver, NoTaskYet
<1>2. mishaps \in Nat /\ AutoInv /\ AutoInv' /\ WorkOK /\ [AutoNext]_autoVars => WorkOK'
  BY StepAllowed DEF WorkInv
<1>3. AutoInit => mishaps \in Nat
  BY DEF AutoInit
<1>4. mishaps \in Nat /\ [AutoNext]_autoVars => (mishaps \in Nat)'
  BY FaultsGrow
<1> QED
  BY <1>1, <1>2, <1>3, <1>4, AutomationInductive, PTL DEF AutoSpec, WorkInv

\* Every behaviour of tool, scheduler, drivers and recovery, with its failed writes and
\* restarts, is one AutomationContract allows the owner of an Automation to see.
THEOREM AutomationRefines == AutoSpec => KeepsContract
<1>1. AutoInit => Contract!Init
  <2> SUFFICES ASSUME AutoInit PROVE Contract!Init
    OBVIOUS
  <2>1. /\ Status = [e \in Execs |-> "absent"] /\ Asked = {} /\ mishaps = 0
        /\ Called = [e \in Execs |-> "none"]
        /\ Slots = [a \in Autos |-> None] /\ Lives = [a \in Autos |-> "unborn"] /\ ~Up
    BY DEF AutoInit, NoTaskYet, NoAutomation, NoPass, Status, Asked, Called, Slots, Lives, Up
  <2> QED
    BY <2>1 DEF Contract!Init, Status, Asked, Called, Slots, Lives
<1>2. WorkInv /\ mishaps \in Nat /\ [AutoNext]_autoVars => [Contract!Next]_(Contract!vars)
  <2> SUFFICES ASSUME WorkInv, mishaps \in Nat, [AutoNext]_autoVars PROVE Contract!Next
    OBVIOUS
  <2> QED
    BY StepAllowed, FaultsGrow DEF Allowed, Contract!Next
<1>3. AutoInit => mishaps \in Nat
  BY DEF AutoInit
<1>4. mishaps \in Nat /\ [AutoNext]_autoVars => (mishaps \in Nat)'
  BY FaultsGrow
<1> QED
  BY <1>1, <1>2, <1>3, <1>4, WorkInductive, PTL DEF AutoSpec, KeepsContract, Contract!Spec
=============================================================================
