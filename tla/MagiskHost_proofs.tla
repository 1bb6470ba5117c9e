-------------------------- MODULE MagiskHost_proofs --------------------------
(***************************************************************************)
(* That an instance which serves owns all unsettled work, for any number   *)
(* of executions, crashes, reboots and faults.                             *)
(*                                                                         *)
(* The property speaks of a started host alone.  What makes it true was    *)
(* decided earlier, while the instance planned its recovery: the invariant *)
(* follows the plan from the moment it is read to the moment the host      *)
(* starts, and says what an execution that an earlier instance left may    *)
(* still do (Leftover) - and that a guard which could still do it denies   *)
(* this instance its own guard.                                            *)
(***************************************************************************)
EXTENDS MagiskHost, TLAPS

ExecStates == [rec : {"none", "running", "settled"}, inst : Nat,
               pc : {"none", "plain", "prepare", "spawn", "reap", "settle", "report", "commit"},
               proof : {"none", "header", "started", "clean", "older"},
               guard : {"none", "alive", "gone"}, group : BOOLEAN]
SlotStates == [host : BOOLEAN, inst : Nat, guard : BOOLEAN, flagged : BOOLEAN, module : BOOLEAN,
               alarm : BOOLEAN]
CtlStates  == [at : {"tick", "down", "acquire", "plan", "recover", "finalize"}, clean : BOOLEAN,
               prior : SUBSET Execs]
SupStates  == [at : {"wait", "spawn", "ended"}, index : Nat]

MgTypeOK ==
  /\ mgExec \in [Execs -> ExecStates]
  /\ mgSlot \in SlotStates
  /\ mgCtl \in CtlStates
  /\ mgSup \in SupStates

\* A group has a guard that said it started it; a guard exists once it was launched.
GroupsGuarded ==
  \A e \in Execs :
    /\ mgExec[e].group => mgExec[e].guard # "none" /\ mgExec[e].proof = "started"
    /\ mgExec[e].pc \in {"prepare", "spawn"} => mgExec[e].guard = "none"

\* No host is in the slot while one is made, while a clear waits, and without a process;
\* only the host in the slot has threads, and no execution belongs to a later instance.
SlotHeld ==
  /\ mgCtl.at # "tick" => ~mgSlot.host
  /\ mgClear = "waiting" => mgCtl.at = "tick" /\ ~mgSlot.host
  /\ mgSup.at = "spawn" => mgCtl.at = "down"
  /\ \A e \in Execs : /\ mgExec[e].pc # "none" => mgSlot.host /\ mgExec[e].inst = mgSlot.inst
                      /\ mgExec[e].inst <= mgSlot.inst
                      /\ mgCtl.at \in {"plan", "recover", "finalize"} =>
                           mgExec[e].inst # mgSlot.inst

\* What a clean plan found stays clean until it is removed, and after the recovery no
\* earlier instance has a running record.
PlanKept ==
  /\ mgCtl.at \in {"recover", "finalize"} /\ mgCtl.clean =>
       \A e \in mgCtl.prior : mgExec[e].proof \in {"older", "clean"}
  /\ mgCtl.at = "finalize" \/ mgSlot.host =>
       \A e \in Execs : mgExec[e].inst # mgSlot.inst => mgExec[e].rec # "running"

\* An execution of another instance whose processes run, or may still be started.
Leftover(e) ==
  /\ mgExec[e].inst # mgSlot.inst
  /\ mgExec[e].group \/ (mgExec[e].guard = "alive" /\ mgExec[e].proof = "header")

\* Beside a leftover this instance has no guard and has started none.
Unguarded ==
  /\ ~mgSlot.guard
  /\ \A f \in Execs : mgExec[f].inst = mgSlot.inst =>
       /\ ~mgExec[f].group /\ mgExec[f].guard = "none"
       /\ mgExec[f].pc \notin {"prepare", "spawn", "reap", "settle"}

LeftoversDeny ==
  mgSlot.host \/ mgCtl.at \in {"recover", "finalize"} =>
    \A e \in Execs : Leftover(e) => Unguarded

MgInv == MgTypeOK /\ GroupsGuarded /\ SlotHeld /\ PlanKept /\ LeftoversDeny

-----------------------------------------------------------------------------
(* What a step of each kind has to show.                                   *)

\* A step that leaves alone all that the invariant speaks of.
LEMMA Elsewhere ==
  ASSUME MgInv, UNCHANGED <<mgExec, mgSlot, mgCtl, mgSup>>, mgClear' = "waiting" => mgClear = "waiting"
  PROVE  MgInv'
<1>1. MgTypeOK' /\ GroupsGuarded' /\ PlanKept' /\ LeftoversDeny'
  BY DEF MgInv, MgTypeOK, GroupsGuarded, PlanKept, LeftoversDeny, Leftover, Unguarded
<1>2. SlotHeld'
  BY DEF MgInv, SlotHeld
<1> QED
  BY <1>1, <1>2 DEF MgInv

\* What the thread of an execution may make of its record: it starts no guard unless it
\* prepared for one.
Moves(e, x) ==
  /\ x \in ExecStates /\ x.inst = mgExec[e].inst
  /\ x.group => x.guard # "none" /\ x.proof = "started"
  /\ x.pc \in {"prepare", "spawn"} => x.guard = "none"
  /\ mgExec[e].pc \in {"plain", "report", "commit"} =>
       /\ x.guard = mgExec[e].guard /\ x.group = mgExec[e].group
       /\ x.pc \in {"none", "report", "commit"}

\* A step of one execution's thread.
LEMMA ThreadStep ==
  ASSUME MgInv, NEW e \in Execs, mgExec[e].pc # "none", NEW x, Step(e, x), Moves(e, x),
         mgSlot' \in {mgSlot, [mgSlot EXCEPT !.flagged = TRUE]},
         UNCHANGED <<mgCtl, mgClear, mgSup>>
  PROVE  MgInv'
<1>0. /\ x \in ExecStates /\ x.inst = mgExec[e].inst
      /\ x.group => x.guard # "none" /\ x.proof = "started"
      /\ x.pc \in {"prepare", "spawn"} => x.guard = "none"
      /\ mgExec[e].pc \in {"plain", "report", "commit"} =>
           /\ x.guard = mgExec[e].guard /\ x.group = mgExec[e].group
           /\ x.pc \in {"none", "report", "commit"}
  BY DEF Moves
<1>1. /\ mgExec' \in [Execs -> ExecStates] /\ mgExec'[e] = x
      /\ \A f \in Execs \ {e} : mgExec'[f] = mgExec[f]
  BY <1>0 DEF MgInv, MgTypeOK, Step
<1>2. /\ mgSlot' \in SlotStates /\ mgSlot'.host = mgSlot.host /\ mgSlot'.inst = mgSlot.inst
      /\ mgSlot'.guard = mgSlot.guard
  BY DEF MgInv, MgTypeOK, SlotStates
<1>3. mgSlot.host /\ mgExec[e].inst = mgSlot.inst /\ mgCtl.at = "tick"
  BY DEF MgInv, SlotHeld
<1>4. MgTypeOK'
  BY <1>1, <1>2 DEF MgInv, MgTypeOK
<1>5. GroupsGuarded'
  BY <1>0, <1>1 DEF MgInv, GroupsGuarded
<1>6. SlotHeld'
  BY <1>0, <1>1, <1>2, <1>3 DEF MgInv, SlotHeld
<1>7. PlanKept'
  BY <1>0, <1>1, <1>2, <1>3 DEF MgInv, PlanKept
<1>8. LeftoversDeny'
  <2> SUFFICES ASSUME NEW f \in Execs, Leftover(f)' PROVE Unguarded'
    BY DEF LeftoversDeny
  <2>1. f # e /\ Leftover(f)
    BY <1>0, <1>1, <1>2, <1>3 DEF Leftover
  <2>2. Unguarded
    BY <1>3, <2>1 DEF MgInv, LeftoversDeny
  <2>3. mgExec[e].pc \in {"plain", "report", "commit"}
    BY <1>3, <2>2 DEF MgInv, MgTypeOK, ExecStates, Unguarded
  <2> QED
    BY <1>0, <1>1, <1>2, <1>3, <2>2, <2>3 DEF Unguarded
<1> QED
  BY <1>4, <1>5, <1>6, <1>7, <1>8 DEF MgInv

\* A step of a guard process, whoever launched it.
LEMMA GuardStep ==
  ASSUME MgInv, NEW e \in Execs, GuardBegins(e) \/ GuardEnds(e) \/ GuardDies(e)
  PROVE  MgInv'
<1>1. /\ mgExec' \in [Execs -> ExecStates]
      /\ \A f \in Execs \ {e} : mgExec'[f] = mgExec[f]
      /\ mgExec'[e].rec = mgExec[e].rec /\ mgExec'[e].inst = mgExec[e].inst
      /\ mgExec'[e].pc = mgExec[e].pc
      /\ mgExec[e].guard = "alive" /\ mgExec'[e].guard # "none"
      /\ mgExec'[e].group => mgExec'[e].proof = "started"
      /\ mgExec[e].proof \in {"older", "clean"} => mgExec'[e].proof = mgExec[e].proof
      /\ mgExec'[e].group => mgExec[e].group \/ mgExec[e].proof = "header"
      /\ mgExec'[e].proof = "header" => mgExec[e].proof = "header"
  <2> DEFINE y == mgExec[e]
  <2>1. y \in ExecStates /\ y.guard = "alive" /\ mgExec \in [Execs -> ExecStates]
    BY DEF GuardBegins, GuardEnds, GuardDies, MgInv, MgTypeOK
  <2>2. \/ y.proof = "header" /\ Step(e, [y EXCEPT !.proof = "started", !.group = TRUE])
        \/ y.proof = "started"
           /\ Step(e, [y EXCEPT !.proof = "clean", !.group = FALSE, !.guard = "gone"])
        \/ Step(e, [y EXCEPT !.guard = "gone"])
    BY DEF GuardBegins, GuardEnds, GuardDies
  <2>3. y.group => y.proof = "started"
    BY DEF MgInv, GroupsGuarded
  <2> HIDE DEF y
  <2> DEFINE Good(x) ==
               /\ x \in ExecStates /\ x.rec = y.rec /\ x.inst = y.inst /\ x.pc = y.pc
               /\ x.guard # "none"
               /\ x.group => x.proof = "started" /\ (y.group \/ y.proof = "header")
               /\ y.proof \in {"older", "clean"} => x.proof = y.proof
               /\ x.proof = "header" => y.proof = "header"
  <2>4. y.proof = "header" => Good([y EXCEPT !.proof = "started", !.group = TRUE])
    BY <2>1 DEF ExecStates
  <2>5. y.proof = "started" => Good([y EXCEPT !.proof = "clean", !.group = FALSE, !.guard = "gone"])
    BY <2>1 DEF ExecStates
  <2>6. Good([y EXCEPT !.guard = "gone"])
    BY <2>1, <2>3 DEF ExecStates
  <2> HIDE DEF Good
  <2>7. PICK x : Step(e, x) /\ Good(x)
    BY <2>2, <2>4, <2>5, <2>6
  <2>8. x \in ExecStates /\ mgExec'[e] = x /\ mgExec' \in [Execs -> ExecStates]
        /\ \A f \in Execs \ {e} : mgExec'[f] = mgExec[f]
    BY <2>1, <2>7 DEF Step, Good
  <2> QED
    BY <2>1, <2>7, <2>8 DEF Good, y
<1>2. UNCHANGED <<mgCtl, mgSlot, mgClear, mgSup>>
  BY DEF GuardBegins, GuardEnds, GuardDies, OnlyExec
<1>3. MgTypeOK'
  BY <1>1, <1>2 DEF MgInv, MgTypeOK
<1>4. GroupsGuarded'
  BY <1>1 DEF MgInv, GroupsGuarded
<1>5. SlotHeld'
  BY <1>1, <1>2 DEF MgInv, SlotHeld
<1>6. PlanKept'
  BY <1>1, <1>2 DEF MgInv, PlanKept, MgTypeOK, CtlStates
<1>7. LeftoversDeny'
  <2> SUFFICES ASSUME mgSlot.host \/ mgCtl.at \in {"recover", "finalize"},
                      NEW f \in Execs, Leftover(f)'
               PROVE  Unguarded'
    BY <1>2 DEF LeftoversDeny
  <2>1. Leftover(f)
    BY <1>1, <1>2 DEF Leftover
  <2>2. Unguarded
    BY <2>1 DEF MgInv, LeftoversDeny
  <2>3. mgExec[e].inst # mgSlot.inst
    BY <1>1, <2>2 DEF Unguarded
  <2> QED
    BY <1>1, <1>2, <2>2, <2>3 DEF Unguarded
<1> QED
  BY <1>3, <1>4, <1>5, <1>6, <1>7 DEF MgInv

\* The process is gone, and every thread with it; the records and the proofs of a plan are
\* read again by the next instance.
LEMMA GoneInv ==
  ASSUME MgInv, Gone, mgExec' \in [Execs -> ExecStates],
         \A e \in Execs : /\ mgExec'[e].pc = "none" /\ mgExec'[e].inst = mgExec[e].inst
                          /\ mgExec'[e].group => mgExec'[e] = [mgExec[e] EXCEPT !.pc = "none"],
         mgSup' \in SupStates
  PROVE  MgInv'
<1>1. /\ mgSlot' \in SlotStates /\ ~mgSlot'.host /\ mgSlot'.inst = mgSlot.inst
      /\ mgCtl' \in CtlStates /\ mgCtl'.at = "down" /\ mgClear' # "waiting"
  BY DEF Gone, NoHost, MgInv, MgTypeOK, SlotStates, CtlStates
<1>2. MgTypeOK'
  BY <1>1 DEF MgTypeOK
<1>3. GroupsGuarded'
  BY DEF MgInv, GroupsGuarded, MgTypeOK, ExecStates
<1>4. SlotHeld'
  BY <1>1 DEF MgInv, SlotHeld
<1>5. PlanKept' /\ LeftoversDeny'
  BY <1>1 DEF PlanKept, LeftoversDeny
<1> QED
  BY <1>2, <1>3, <1>4, <1>5 DEF MgInv

-----------------------------------------------------------------------------
(* The executions.                                                         *)

\* The record of an execution.
LEMMA ExecNow ==
  ASSUME MgInv, NEW e \in Execs
  PROVE  /\ mgExec[e] \in ExecStates /\ mgExec \in [Execs -> ExecStates]
         /\ mgExec[e].group => mgExec[e].guard # "none" /\ mgExec[e].proof = "started"
         /\ mgExec[e].pc \in {"prepare", "spawn"} => mgExec[e].guard = "none"
         /\ mgSlot \in SlotStates /\ mgCtl \in CtlStates
BY DEF MgInv, MgTypeOK, GroupsGuarded

\* submit
LEMMA AdmitInv ==
  ASSUME MgInv, NEW e \in Execs, MgAdmit(e)
  PROVE  MgInv'
<1>1. /\ mgExec' \in [Execs -> ExecStates]
      /\ \A f \in Execs \ {e} : mgExec'[f] = mgExec[f]
      /\ mgExec'[e].inst = mgSlot.inst /\ mgExec'[e].guard = "none" /\ ~mgExec'[e].group
      /\ mgExec'[e].pc \in {"plain", "prepare"} /\ (mgExec'[e].pc = "prepare" => mgSlot.guard)
  <2> DEFINE x(pc) == [NoExec EXCEPT !.rec = "running", !.inst = mgSlot.inst, !.pc = pc]
  <2>1. \A pc \in {"plain", "prepare"} :
           /\ x(pc) \in ExecStates /\ x(pc).inst = mgSlot.inst /\ x(pc).guard = "none"
           /\ x(pc).group = FALSE /\ x(pc).pc = pc
    BY ExecNow DEF NoExec, ExecStates, SlotStates
  <2>2. PICK pc \in {"plain", "prepare"} : Step(e, x(pc)) /\ (pc = "prepare" => mgSlot.guard)
    BY DEF MgAdmit
  <2> HIDE DEF x
  <2> QED
    BY <2>1, <2>2, ExecNow DEF Step
<1>2. UNCHANGED <<mgCtl, mgSlot, mgClear, mgSup>> /\ mgSlot.host
  BY DEF MgAdmit, OnlyExec
<1>3. mgCtl.at = "tick" /\ mgSlot.inst \in Nat
  BY <1>2, ExecNow DEF MgInv, SlotHeld, SlotStates
<1>4. MgTypeOK'
  BY <1>1, <1>2 DEF MgInv, MgTypeOK
<1>5. GroupsGuarded'
  BY <1>1 DEF MgInv, GroupsGuarded
<1>6. SlotHeld'
  BY <1>1, <1>2, <1>3 DEF MgInv, SlotHeld
<1>7. PlanKept'
  BY <1>1, <1>2, <1>3 DEF MgInv, PlanKept
<1>8. LeftoversDeny'
  <2> SUFFICES ASSUME NEW f \in Execs, Leftover(f)' PROVE Unguarded'
    BY DEF LeftoversDeny
  <2>1. f # e /\ Leftover(f)
    BY <1>1, <1>2 DEF Leftover
  <2>2. Unguarded
    BY <1>2, <2>1 DEF MgInv, LeftoversDeny
  <2> QED
    BY <1>1, <1>2, <2>2 DEF Unguarded
<1> QED
  BY <1>4, <1>5, <1>6, <1>7, <1>8 DEF MgInv

\* A thread goes on, and leaves its guard and its proof alone.
LEMMA MovesOn ==
  ASSUME MgInv, NEW e \in Execs, NEW pc \in {"none", "report", "commit", "settle"},
         mgExec[e].pc \in {"plain", "report", "commit"} => pc # "settle"
  PROVE  Moves(e, [mgExec[e] EXCEPT !.pc = pc])
BY ExecNow DEF Moves, ExecStates

\* A thread ends its execution.
LEMMA MovesEnded ==
  ASSUME MgInv, NEW e \in Execs
  PROVE  Moves(e, Ended(e))
BY ExecNow DEF Moves, ExecStates, Ended

\* A thread has removed the proof of a group that has ended or never started.
LEMMA MovesRetired ==
  ASSUME MgInv, NEW e \in Execs, ~mgExec[e].group
  PROVE  Moves(e, [Ended(e) EXCEPT !.proof = "none"])
BY ExecNow DEF Moves, ExecStates, Ended

\* A thread writes the identity frame, or could not remove a proof.
LEMMA MovesProof ==
  ASSUME MgInv, NEW e \in Execs, ~mgExec[e].group,
         NEW left \in {"none", "clean", "header"}, NEW pc \in {"report", "spawn"},
         pc = "spawn" => mgExec[e].pc = "prepare"
  PROVE  Moves(e, [mgExec[e] EXCEPT !.proof = left, !.pc = pc])
<1> DEFINE x == [mgExec[e] EXCEPT !.proof = left, !.pc = pc]
<1>1. mgExec[e] \in ExecStates
  BY ExecNow
<1>2. /\ x \in ExecStates /\ x.inst = mgExec[e].inst /\ x.guard = mgExec[e].guard
      /\ x.group = mgExec[e].group /\ x.pc = pc
  BY <1>1 DEF ExecStates
<1> HIDE DEF x
<1>3. Moves(e, x)
  BY <1>2, ExecNow DEF Moves
<1> QED
  BY <1>3 DEF x

\* A thread launches its guard.
LEMMA MovesLaunch ==
  ASSUME MgInv, NEW e \in Execs, mgExec[e].pc = "spawn"
  PROVE  Moves(e, [mgExec[e] EXCEPT !.guard = "alive", !.pc = "reap"])
BY ExecNow DEF Moves, ExecStates

\* The execution without a guard, and the two steps that report an unverified cleanup.
LEMMA PlainSteps ==
  ASSUME MgInv, NEW e \in Execs, PlainEnds(e) \/ Report(e) \/ Commit(e)
  PROVE  MgInv'
<1>1. UNCHANGED <<mgCtl, mgSlot, mgClear, mgSup>> /\ mgExec[e].pc \in {"plain", "report", "commit"}
  BY DEF PlainEnds, Report, Commit, OnlyExec
<1>2. \/ Step(e, Ended(e))
      \/ \E pc \in {"none", "report", "commit"} : Step(e, [mgExec[e] EXCEPT !.pc = pc])
  BY DEF PlainEnds, Report, Commit
<1>3. \E x : Step(e, x) /\ Moves(e, x)
  BY <1>2, MovesOn, MovesEnded
<1> QED
  BY <1>1, <1>3, ThreadStep

\* prepare
LEMMA PrepareInv ==
  ASSUME MgInv, NEW e \in Execs, Prepare(e)
  PROVE  MgInv'
<1>1. UNCHANGED <<mgCtl, mgSlot, mgClear, mgSup>> /\ mgExec[e].pc = "prepare"
  BY DEF Prepare, OnlyExec
<1>2. Step(e, Ended(e)) \/ Step(e, [mgExec[e] EXCEPT !.proof = "header", !.pc = "spawn"])
  BY DEF Prepare
<1>3. ~mgExec[e].group
  BY <1>1, ExecNow
<1>4. \E x : Step(e, x) /\ Moves(e, x)
  BY <1>1, <1>2, <1>3, MovesProof, MovesEnded
<1> QED
  BY <1>1, <1>4, ThreadStep

\* The launch of the guard, or its failure.
LEMMA SpawnInv ==
  ASSUME MgInv, NEW e \in Execs, Spawn(e)
  PROVE  MgInv'
<1>1. UNCHANGED <<mgCtl, mgClear, mgSup>> /\ mgExec[e].pc = "spawn"
  BY DEF Spawn
<1>2. mgSlot' \in {mgSlot, [mgSlot EXCEPT !.flagged = TRUE]}
  BY DEF Spawn, Unstarted
<1>3. \/ Step(e, [mgExec[e] EXCEPT !.guard = "alive", !.pc = "reap"])
      \/ Step(e, [Ended(e) EXCEPT !.proof = "none"])
      \/ \E left \in {"header", "none"} : Step(e, [mgExec[e] EXCEPT !.proof = left, !.pc = "report"])
  BY DEF Spawn, Unstarted
<1>4. ~mgExec[e].group
  BY <1>1, ExecNow
<1>5. \E x : Step(e, x) /\ Moves(e, x)
  BY <1>1, <1>3, <1>4, MovesLaunch, MovesRetired, MovesProof
<1> QED
  BY <1>1, <1>2, <1>5, ThreadStep

\* The guard is reaped, and its proof read.
LEMMA ReapSettleInv ==
  ASSUME MgInv, NEW e \in Execs, Reap(e) \/ SettleGuard(e)
  PROVE  MgInv'
<1>1. UNCHANGED <<mgCtl, mgClear, mgSup>> /\ mgExec[e].pc \in {"reap", "settle"}
  BY DEF Reap, SettleGuard, OnlyExec
<1>2. mgSlot' \in {mgSlot, [mgSlot EXCEPT !.flagged = TRUE]}
  BY DEF Reap, SettleGuard, OnlyExec
<1>3. \/ \E pc \in {"settle", "report"} : Step(e, [mgExec[e] EXCEPT !.pc = pc])
      \/ /\ mgExec[e].proof = "clean"
         /\ \/ Step(e, [Ended(e) EXCEPT !.proof = "none"])
            \/ \E left \in {"clean", "none"} :
                 Step(e, [mgExec[e] EXCEPT !.proof = left, !.pc = "report"])
  BY DEF Reap, SettleGuard
<1>4. mgExec[e].proof = "clean" => ~mgExec[e].group
  BY ExecNow
<1>5. \E x : Step(e, x) /\ Moves(e, x)
  BY <1>1, <1>3, <1>4, MovesOn, MovesRetired, MovesProof
<1> QED
  BY <1>1, <1>2, <1>5, ThreadStep

-----------------------------------------------------------------------------
(* The main loop, the frontend and the supervisor.                         *)

\* The fields of the slot and of the loop's state.
LEMMA LoopNow ==
  ASSUME MgInv
  PROVE  /\ mgExec \in [Execs -> ExecStates] /\ mgSlot \in SlotStates /\ mgCtl \in CtlStates
         /\ mgSlot.inst \in Nat /\ mgSlot.host \in BOOLEAN /\ mgSlot.guard \in BOOLEAN
         /\ mgCtl.clean \in BOOLEAN /\ mgCtl.prior \subseteq Execs
         /\ mgSup \in SupStates
         /\ \A e \in Execs : mgExec[e].inst \in Nat /\ mgExec[e].inst <= mgSlot.inst
BY DEF MgInv, MgTypeOK, SlotHeld, ExecStates, SlotStates, CtlStates

\* Steps of the watch, the helper and the store.
LEMMA OtherSteps ==
  ASSUME MgInv, \/ WatchPoll \/ RecycleDue \/ HelperDies \/ StoreFails \/ StoreRecovers
                \/ ClearTimesOut \/ UNCHANGED mgVars
  PROVE  MgInv'
<1>1. UNCHANGED <<mgExec, mgSlot, mgCtl, mgSup>> /\ (mgClear' = "waiting" => mgClear = "waiting")
  BY DEF WatchPoll, RecycleDue, HelperDies, StoreFails, StoreRecovers, ClearTimesOut, mgVars
<1> QED
  BY <1>1, Elsewhere

\* The process ends.
LEMMA ProcessEnds ==
  ASSUME MgInv, RecycleExit \/ Crash \/ Reboot
  PROVE  MgInv'
<1>1. CASE RecycleExit \/ Crash
  <2>1. /\ Gone /\ UNCHANGED mgSup
        /\ mgExec' = [e \in Execs |-> [mgExec[e] EXCEPT !.pc = "none"]]
    BY <1>1 DEF RecycleExit, Crash
  <2>2. ASSUME NEW e \in Execs
        PROVE  LET x == [mgExec[e] EXCEPT !.pc = "none"]
               IN  x \in ExecStates /\ x.pc = "none" /\ x.inst = mgExec[e].inst
    BY LoopNow DEF ExecStates
  <2> QED
    BY <2>1, <2>2, LoopNow, GoneInv
<1>2. CASE Reboot
  <2> DEFINE x(e) == [mgExec[e] EXCEPT !.pc = "none", !.guard = IF @ = "alive" THEN "gone" ELSE @,
                        !.group = FALSE, !.proof = IF @ = "none" THEN @ ELSE "older"]
  <2>1. Gone /\ mgExec' = [e \in Execs |-> x(e)] /\ mgSup' \in SupStates
    BY <1>2 DEF Reboot, SupStates
  <2>2. ASSUME NEW e \in Execs
        PROVE  x(e) \in ExecStates /\ x(e).pc = "none" /\ x(e).inst = mgExec[e].inst /\ x(e).group = FALSE
    BY LoopNow DEF ExecStates
  <2> HIDE DEF x
  <2> QED
    BY <2>1, <2>2, LoopNow, GoneInv
<1> QED
  BY <1>1, <1>2

\* A step that changes neither the executions nor which instance is meant.
LEMMA LoopStep ==
  ASSUME MgInv, UNCHANGED mgExec, mgSlot' \in SlotStates, mgSlot'.inst = mgSlot.inst,
         mgCtl' \in CtlStates, mgSup' \in SupStates,
         mgSlot'.host => mgSlot.host /\ mgCtl'.at = "tick" /\ (mgSlot'.guard => mgSlot.guard),
         mgClear' = "waiting" => mgCtl'.at = "tick" /\ ~mgSlot'.host,
         mgSup'.at = "spawn" => mgCtl'.at = "down",
         mgCtl'.at \in {"tick", "down", "acquire"},
         mgSlot.host => mgSlot'.host
  PROVE  MgInv'
<1>1. MgTypeOK' /\ GroupsGuarded'
  BY DEF MgInv, MgTypeOK, GroupsGuarded
<1>2. SlotHeld'
  BY DEF MgInv, SlotHeld
<1>3. PlanKept'
  BY DEF MgInv, PlanKept
<1>4. LeftoversDeny'
  BY LoopNow DEF MgInv, LeftoversDeny, Leftover, Unguarded, SlotStates
<1> QED
  BY <1>1, <1>2, <1>3, <1>4 DEF MgInv

\* The slot is locked, a clear begins, an activation fails, or the supervisor acts.
LEMMA LoopSteps ==
  ASSUME MgInv, \/ ActivateBegins \/ ActivationFault \/ RecoverRefused \/ Refresh \/ ClearBegins
                \/ SupervisorSees \/ SupervisorSpawns
  PROVE  MgInv'
<1>1. /\ mgCtl \in CtlStates /\ mgSlot \in SlotStates /\ mgSup \in SupStates
      /\ mgClear = "waiting" => mgCtl.at = "tick" /\ ~mgSlot.host
      /\ mgCtl.at # "tick" => ~mgSlot.host
      /\ mgSup.at = "spawn" => mgCtl.at = "down"
  BY LoopNow DEF MgInv, SlotHeld
<1>2. ASSUME NEW at \in {"tick", "down", "acquire"}
      PROVE  [mgCtl EXCEPT !.at = at] \in CtlStates /\ [mgCtl EXCEPT !.at = at].at = at
  BY <1>1 DEF CtlStates
<1>3. CASE ActivateBegins
  <2>1. /\ mgCtl' = [mgCtl EXCEPT !.at = "acquire"] /\ UNCHANGED <<mgSlot, mgExec, mgClear, mgSup>>
        /\ mgClear # "waiting" /\ mgCtl.at = "tick" /\ ~mgSlot.host
    BY <1>3 DEF ActivateBegins, SlotFree
  <2> QED
    BY <1>1, <1>2, <2>1, LoopStep
<1>4. CASE ActivationFault \/ RecoverRefused
  <2>1. /\ mgCtl' = [mgCtl EXCEPT !.at = "tick"] /\ mgSlot' = [NoHost EXCEPT !.inst = mgSlot.inst]
        /\ UNCHANGED <<mgExec, mgClear, mgSup>> /\ mgCtl.at \in {"plan", "recover"}
    BY <1>4 DEF ActivationFault, RecoverRefused, ActivateFails
  <2>2. mgSlot' \in SlotStates /\ mgSlot'.host = FALSE /\ mgSlot'.inst = mgSlot.inst
    BY <2>1, LoopNow DEF NoHost, SlotStates
  <2> QED
    BY <1>1, <1>2, <2>1, <2>2, LoopStep
<1>5. CASE Refresh
  <2>1. PICK seen \in BOOLEAN, ended \in BOOLEAN, lost \in BOOLEAN :
           mgSlot' = [mgSlot EXCEPT !.alarm = @ /\ ~ended,
                        !.guard = mgSlot.guard /\ ~mgSlot.flagged /\ ~lost, !.module = seen]
    BY <1>1, <1>5 DEF Refresh, SlotStates
  <2>2. UNCHANGED <<mgCtl, mgExec, mgClear, mgSup>> /\ mgCtl.at = "tick" /\ mgSlot.host
        /\ mgClear # "waiting"
    BY <1>5 DEF Refresh, SlotFree
  <2>3. /\ mgSlot' \in SlotStates /\ mgSlot'.host = mgSlot.host /\ mgSlot'.inst = mgSlot.inst
        /\ mgSlot'.guard => mgSlot.guard
    BY <1>1, <2>1 DEF SlotStates
  <2> QED
    BY <1>1, <2>2, <2>3, LoopStep
<1>6. CASE ClearBegins
  <2>1. UNCHANGED <<mgCtl, mgSlot, mgExec, mgSup>> /\ mgCtl.at = "tick" /\ ~mgSlot.host
    BY <1>6 DEF ClearBegins, SlotFree
  <2> QED
    BY <1>1, <2>1, LoopStep
<1>7. CASE SupervisorSees
  <2>1. UNCHANGED <<mgCtl, mgSlot, mgExec, mgClear>> /\ mgCtl.at = "down" /\ mgSup'.at = "spawn"
    BY <1>7 DEF SupervisorSees
  <2>2. mgSup' \in SupStates
    <3>1. ASSUME NEW i \in Nat PROVE (IF i + 1 < 6 THEN i + 1 ELSE 6 - 1) \in Nat
      OBVIOUS
    <3>2. mgSup.index \in Nat
      BY <1>1 DEF SupStates
    <3>3. PICK i \in Nat : mgSup' = [at |-> "spawn", index |-> IF i + 1 < 6 THEN i + 1 ELSE 6 - 1]
      BY <1>7, <3>2 DEF SupervisorSees, Delays
    <3> QED
      BY <3>1, <3>3 DEF SupStates
  <2> QED
    BY <1>1, <2>1, <2>2, LoopStep
<1>8. CASE SupervisorSpawns
  <2>1. /\ UNCHANGED <<mgSlot, mgExec, mgClear>> /\ mgSup.at = "spawn"
        /\ \/ mgSup' = [mgSup EXCEPT !.at = "wait"] /\ mgCtl' = [mgCtl EXCEPT !.at = "tick"]
           \/ mgSup' = [mgSup EXCEPT !.at = "ended"] /\ mgCtl' = mgCtl
    BY <1>8 DEF SupervisorSpawns
  <2>2. mgSup' \in SupStates /\ mgSup'.at \in {"wait", "ended"}
    BY <1>1, <2>1 DEF SupStates
  <2> QED
    BY <1>1, <1>2, <2>1, <2>2, LoopStep
<1> QED
  BY <1>3, <1>4, <1>5, <1>6, <1>7, <1>8

\* A new instance: nothing belongs to it yet.
LEMMA AcquireInv ==
  ASSUME MgInv, Acquire
  PROVE  MgInv'
<1>1. /\ mgCtl.at = "acquire" /\ mgCtl' = [mgCtl EXCEPT !.at = "plan"]
      /\ mgSlot' = [NoHost EXCEPT !.inst = mgSlot.inst + 1] /\ UNCHANGED <<mgExec, mgClear, mgSup>>
  BY DEF Acquire
<1>2. mgCtl' \in CtlStates /\ mgCtl'.at = "plan"
  BY <1>1, LoopNow DEF CtlStates
<1>3. mgSlot' \in SlotStates /\ mgSlot'.host = FALSE /\ mgSlot'.inst = mgSlot.inst + 1
  <2>1. \A i \in Nat : LET s == [NoHost EXCEPT !.inst = i]
                       IN  s \in SlotStates /\ s.host = FALSE /\ s.inst = i
    BY DEF NoHost, SlotStates
  <2>2. mgSlot.inst + 1 \in Nat
    BY LoopNow
  <2> QED
    BY <1>1, <2>1, <2>2
<1>4. MgTypeOK' /\ GroupsGuarded'
  BY <1>1, <1>2, <1>3 DEF MgInv, MgTypeOK, GroupsGuarded
<1>5. ~mgSlot.host /\ mgClear # "waiting" /\ mgSup.at # "spawn"
  BY <1>1 DEF MgInv, SlotHeld
<1>6. SlotHeld'
  <2>1. \A e \in Execs : mgExec[e].pc = "none"
    BY <1>5 DEF MgInv, SlotHeld
  <2>2. \A e \in Execs : mgExec[e].inst <= mgSlot.inst + 1 /\ mgExec[e].inst # mgSlot.inst + 1
    BY LoopNow
  <2> QED
    BY <1>1, <1>2, <1>3, <1>5, <2>1, <2>2 DEF SlotHeld
<1>7. PlanKept' /\ LeftoversDeny'
  BY <1>2, <1>3 DEF PlanKept, LeftoversDeny
<1> QED
  BY <1>4, <1>6, <1>7 DEF MgInv

\* A clean plan found no leftover.
LEMMA CleanPlan ==
  ASSUME MgInv, guards_are_clean(mgSlot.inst)
  PROVE  /\ \A e \in Planned(mgSlot.inst) : mgExec[e].proof \in {"older", "clean"}
         /\ \A e \in Execs : ~Leftover(e)
<1>1. ASSUME NEW e \in Planned(mgSlot.inst) PROVE mgExec[e].proof \in {"older", "clean"}
  BY <1>1 DEF guards_are_clean, Recovery, classify_guard_proof
<1>2. ASSUME NEW e \in Execs, Leftover(e) PROVE FALSE
  <2>1. mgExec[e].proof \in {"started", "header"} /\ mgExec[e].inst # mgSlot.inst
    BY <1>2 DEF Leftover, MgInv, GroupsGuarded
  <2>2. e \in Planned(mgSlot.inst)
    BY <2>1 DEF Planned
  <2> QED
    BY <1>1, <2>1, <2>2
<1> QED
  BY <1>1, <1>2

\* The plan is read: only a clean one gives the instance its guard.
LEMMA PlanInv ==
  ASSUME MgInv, Plan
  PROVE  MgInv'
<1> DEFINE clean == guards_are_clean(mgSlot.inst)
<1>1. PICK probed \in BOOLEAN :
         /\ mgSlot' = [mgSlot EXCEPT !.guard = clean /\ probed]
         /\ mgCtl' = [at |-> "recover", clean |-> clean, prior |-> Planned(mgSlot.inst)]
  BY DEF Plan
<1>2. mgCtl.at = "plan" /\ UNCHANGED <<mgExec, mgClear, mgSup>>
  BY DEF Plan
<1>3. clean \in BOOLEAN /\ Planned(mgSlot.inst) \subseteq Execs
  BY DEF guards_are_clean, Planned
<1>4. clean => /\ \A e \in Planned(mgSlot.inst) : mgExec[e].proof \in {"older", "clean"}
               /\ \A e \in Execs : ~Leftover(e)
  BY CleanPlan
<1> HIDE DEF clean
<1>5. /\ mgCtl' \in CtlStates /\ mgCtl'.at = "recover" /\ mgCtl'.clean = clean
      /\ mgCtl'.prior = Planned(mgSlot.inst)
  BY <1>1, <1>3 DEF CtlStates
<1>6. /\ mgSlot' \in SlotStates /\ mgSlot'.host = mgSlot.host /\ mgSlot'.inst = mgSlot.inst
      /\ mgSlot'.guard = (clean /\ probed)
  BY <1>1, <1>3, LoopNow DEF SlotStates
<1>7. ~mgSlot.host /\ mgClear # "waiting" /\ mgSup.at # "spawn"
  BY <1>2 DEF MgInv, SlotHeld
<1>8. MgTypeOK' /\ GroupsGuarded'
  BY <1>2, <1>5, <1>6 DEF MgInv, MgTypeOK, GroupsGuarded
<1>9. SlotHeld'
  BY <1>2, <1>5, <1>6, <1>7 DEF MgInv, SlotHeld
<1>10. PlanKept'
  BY <1>2, <1>4, <1>5, <1>6, <1>7 DEF PlanKept
<1>11. LeftoversDeny'
  <2> SUFFICES ASSUME NEW e \in Execs, Leftover(e)' PROVE Unguarded'
    BY DEF LeftoversDeny
  <2>1. Leftover(e)
    BY <1>2, <1>6 DEF Leftover
  <2>2. ~clean
    BY <1>4, <2>1
  <2>3. \A f \in Execs : mgExec[f].inst # mgSlot.inst
    BY <1>2 DEF MgInv, SlotHeld
  <2> QED
    BY <1>2, <1>6, <2>2, <2>3 DEF Unguarded
<1> QED
  BY <1>8, <1>9, <1>10, <1>11 DEF MgInv

\* recover_old_instance settles the records of every earlier instance.
LEMMA RecoverInv ==
  ASSUME MgInv, Recover
  PROVE  MgInv'
<1>1. /\ mgCtl.at = "recover" /\ mgCtl' = [mgCtl EXCEPT !.at = "finalize"]
      /\ UNCHANGED <<mgSlot, mgClear, mgSup>>
  BY DEF Recover
<1>2. /\ mgCtl' \in CtlStates /\ mgCtl'.at = "finalize" /\ mgCtl'.clean = mgCtl.clean
      /\ mgCtl'.prior = mgCtl.prior
  BY <1>1, LoopNow DEF CtlStates
<1>3. ASSUME NEW e \in Execs
      PROVE  /\ mgExec'[e] \in ExecStates /\ mgExec'[e].inst = mgExec[e].inst
             /\ mgExec'[e].pc = mgExec[e].pc /\ mgExec'[e].guard = mgExec[e].guard
             /\ mgExec'[e].proof = mgExec[e].proof /\ mgExec'[e].group = mgExec[e].group
             /\ mgExec[e].inst # mgSlot.inst => mgExec'[e].rec # "running"
  <2> DEFINE x == [mgExec[e] EXCEPT !.rec = "settled"]
  <2>1. mgExec'[e] = IF e \in prior_instances(mgSlot.inst) THEN x ELSE mgExec[e]
    BY DEF Recover
  <2>2. /\ x \in ExecStates /\ x.inst = mgExec[e].inst /\ x.pc = mgExec[e].pc
        /\ x.guard = mgExec[e].guard /\ x.proof = mgExec[e].proof /\ x.group = mgExec[e].group
        /\ x.rec = "settled"
    BY LoopNow DEF ExecStates
  <2> HIDE DEF x
  <2> QED
    BY <2>1, <2>2, LoopNow DEF prior_instances
<1>4. mgExec' \in [Execs -> ExecStates]
  BY <1>3 DEF Recover
<1>5. MgTypeOK' /\ GroupsGuarded'
  BY <1>1, <1>2, <1>3, <1>4 DEF MgInv, MgTypeOK, GroupsGuarded
<1>6. SlotHeld'
  BY <1>1, <1>2, <1>3 DEF MgInv, SlotHeld
<1>7. PlanKept'
  BY <1>1, <1>2, <1>3, LoopNow DEF MgInv, PlanKept
<1>8. LeftoversDeny'
  BY <1>1, <1>2, <1>3 DEF MgInv, LeftoversDeny, Leftover, Unguarded
<1> QED
  BY <1>5, <1>6, <1>7, <1>8 DEF MgInv

\* The clean proofs are removed, and the host starts.
LEMMA FinalizeInv ==
  ASSUME MgInv, Finalize
  PROVE  MgInv'
<1>1. PICK removed \in SUBSET mgCtl.prior, failed \in BOOLEAN, alarm \in BOOLEAN :
         /\ removed # {} => mgCtl.clean
         /\ mgExec' = [e \in Execs |-> IF e \in removed THEN [mgExec[e] EXCEPT !.proof = "none"]
                                       ELSE mgExec[e]]
         /\ mgSlot' = [mgSlot EXCEPT !.host = TRUE, !.guard = @ /\ mgCtl.clean /\ ~failed, !.alarm = alarm]
  <2>1. PICK removed \in SUBSET mgCtl.prior, failed \in BOOLEAN, alarm \in BOOLEAN :
           /\ IF failed THEN mgCtl.clean /\ mgCtl.prior # {}
              ELSE removed = (IF mgCtl.clean THEN mgCtl.prior ELSE {})
           /\ mgExec' = [e \in Execs |-> IF e \in removed THEN [mgExec[e] EXCEPT !.proof = "none"]
                                         ELSE mgExec[e]]
           /\ mgSlot' = [mgSlot EXCEPT !.host = TRUE, !.guard = @ /\ mgCtl.clean /\ ~failed, !.alarm = alarm]
    BY DEF Finalize
  <2>2. removed # {} => mgCtl.clean
    BY <2>1
  <2> QED
    BY <2>1, <2>2
<1>2. mgCtl.at = "finalize" /\ UNCHANGED <<mgClear, mgSup>>
      /\ mgCtl' = [at |-> "tick", clean |-> FALSE, prior |-> {}]
  BY DEF Finalize
<1>3. mgCtl' \in CtlStates /\ mgCtl'.at = "tick"
  BY <1>2 DEF CtlStates
<1>4. /\ mgSlot' \in SlotStates /\ mgSlot'.host = TRUE /\ mgSlot'.inst = mgSlot.inst
      /\ mgSlot'.guard => mgSlot.guard
  BY <1>1, LoopNow DEF SlotStates
<1>5. \A e \in removed : e \in Execs /\ mgExec[e].proof \in {"older", "clean"}
  BY <1>1, <1>2, LoopNow DEF MgInv, PlanKept
<1>6. ASSUME NEW e \in Execs
      PROVE  /\ mgExec'[e] \in ExecStates /\ mgExec'[e].inst = mgExec[e].inst
             /\ mgExec'[e].pc = mgExec[e].pc /\ mgExec'[e].guard = mgExec[e].guard
             /\ mgExec'[e].group = mgExec[e].group /\ mgExec'[e].rec = mgExec[e].rec
             /\ mgExec'[e].proof # mgExec[e].proof =>
                  mgExec'[e].proof = "none" /\ mgExec[e].proof \in {"older", "clean"}
  <2> DEFINE x == [mgExec[e] EXCEPT !.proof = "none"]
  <2>1. mgExec'[e] = IF e \in removed THEN x ELSE mgExec[e]
    BY <1>1
  <2>2. /\ x \in ExecStates /\ x.inst = mgExec[e].inst /\ x.pc = mgExec[e].pc
        /\ x.guard = mgExec[e].guard /\ x.proof = "none" /\ x.group = mgExec[e].group
        /\ x.rec = mgExec[e].rec
    BY LoopNow DEF ExecStates
  <2> HIDE DEF x
  <2> QED
    BY <1>5, <2>1, <2>2, LoopNow
<1>7. mgExec' \in [Execs -> ExecStates]
  BY <1>1, <1>6
<1>8. MgTypeOK'
  BY <1>2, <1>3, <1>4, <1>7 DEF MgInv, MgTypeOK
<1>9. GroupsGuarded'
  BY <1>6 DEF MgInv, GroupsGuarded
<1>10. SlotHeld'
  BY <1>2, <1>3, <1>4, <1>6 DEF MgInv, SlotHeld
<1>11. PlanKept'
  BY <1>2, <1>3, <1>4, <1>6 DEF MgInv, PlanKept
<1>12. LeftoversDeny'
  BY <1>2, <1>3, <1>4, <1>6 DEF MgInv, LeftoversDeny, Leftover, Unguarded
<1> QED
  BY <1>8, <1>9, <1>10, <1>11, <1>12 DEF MgInv

\* clear_stranded_executions settles every record, with no host in the slot.
LEMMA ClearTakesInv ==
  ASSUME MgInv, ClearTakes
  PROVE  MgInv'
<1>1. /\ mgClear = "waiting" /\ mgClear' = "cleared" /\ mgCtl' = [mgCtl EXCEPT !.at = "acquire"]
      /\ UNCHANGED <<mgSlot, mgSup>>
  BY DEF ClearTakes
<1>2. mgCtl' \in CtlStates /\ mgCtl'.at = "acquire"
  BY <1>1, LoopNow DEF CtlStates
<1>3. ~mgSlot.host /\ mgSup.at # "spawn" /\ mgCtl.at = "tick"
  BY <1>1 DEF MgInv, SlotHeld
<1>4. ASSUME NEW e \in Execs
      PROVE  /\ mgExec'[e] \in ExecStates /\ mgExec'[e].inst = mgExec[e].inst
             /\ mgExec'[e].pc = "none" /\ mgExec'[e].guard = mgExec[e].guard
             /\ mgExec'[e].group = mgExec[e].group /\ mgExec'[e].proof = mgExec[e].proof
  <2>1. mgExec'[e] = IF mgExec[e].rec = "running" THEN Ended(e) ELSE mgExec[e]
    BY DEF ClearTakes
  <2>2. /\ Ended(e) \in ExecStates /\ Ended(e).inst = mgExec[e].inst /\ Ended(e).pc = "none"
        /\ Ended(e).guard = mgExec[e].guard /\ Ended(e).group = mgExec[e].group
        /\ Ended(e).proof = mgExec[e].proof
    BY LoopNow DEF Ended, ExecStates
  <2>3. mgExec[e].pc = "none"
    BY <1>3 DEF MgInv, SlotHeld
  <2> QED
    BY <2>1, <2>2, <2>3, LoopNow
<1>5. mgExec' \in [Execs -> ExecStates]
  BY <1>4 DEF ClearTakes
<1>6. MgTypeOK' /\ GroupsGuarded'
  BY <1>1, <1>2, <1>4, <1>5 DEF MgInv, MgTypeOK, GroupsGuarded
<1>7. SlotHeld'
  BY <1>1, <1>2, <1>3, <1>4 DEF MgInv, SlotHeld
<1>8. PlanKept' /\ LeftoversDeny'
  BY <1>1, <1>2, <1>3 DEF PlanKept, LeftoversDeny
<1> QED
  BY <1>6, <1>7, <1>8 DEF MgInv

-----------------------------------------------------------------------------
(* The theorems.                                                           *)

\* Whatever crashes, reboots, fails and is killed: the recovery of an instance keeps its
\* plan, and no leftover of another instance runs beside a guard of this one.
THEOREM HostInductive == MgSpec => []MgInv
<1>1. MgInit => MgInv
  <2> SUFFICES ASSUME MgInit PROVE MgInv
    OBVIOUS
  <2>1. /\ \A e \in Execs : mgExec[e] = NoExec
        /\ NoExec \in ExecStates /\ NoExec.pc = "none" /\ NoExec.inst = 0 /\ NoExec.group = FALSE
    BY DEF MgInit, NoExec, ExecStates
  <2>2. mgSlot \in SlotStates /\ ~mgSlot.host /\ mgSlot.inst = 0
    BY DEF MgInit, NoHost, SlotStates
  <2>3. mgCtl \in CtlStates /\ mgCtl.at = "tick" /\ mgClear = "none"
    BY DEF MgInit, CtlStates
  <2>4. mgSup \in SupStates /\ mgSup.at = "wait"
    BY DEF MgInit, SupStates
  <2>5. mgExec \in [Execs -> ExecStates]
    BY <2>1 DEF MgInit
  <2>6. MgTypeOK /\ GroupsGuarded
    BY <2>1, <2>2, <2>3, <2>4, <2>5 DEF MgTypeOK, GroupsGuarded
  <2>7. SlotHeld /\ PlanKept /\ LeftoversDeny
    BY <2>1, <2>2, <2>3, <2>4 DEF SlotHeld, PlanKept, LeftoversDeny
  <2> QED
    BY <2>6, <2>7 DEF MgInv
<1>2. MgInv /\ [MgNext]_mgVars => MgInv'
  <2> SUFFICES ASSUME MgInv, [MgNext]_mgVars PROVE MgInv'
    OBVIOUS
  <2>1. ASSUME NEW e \in Execs,
               \/ MgAdmit(e) \/ PlainEnds(e) \/ Prepare(e) \/ Spawn(e) \/ GuardBegins(e)
               \/ GuardEnds(e) \/ GuardDies(e) \/ Reap(e) \/ SettleGuard(e) \/ Report(e)
               \/ Commit(e)
        PROVE  MgInv'
    BY <2>1, AdmitInv, PlainSteps, PrepareInv, SpawnInv, GuardStep, ReapSettleInv
  <2> QED
    BY <2>1, OtherSteps, ProcessEnds, LoopSteps, AcquireInv, PlanInv, RecoverInv, FinalizeInv,
       ClearTakesInv DEF MgNext
<1> QED
  BY <1>1, <1>2, PTL DEF MgSpec

\* A started instance owns all unsettled work: recover_old_instance has settled every
\* earlier record, and await_guard_recovery_plan gave it a guard only where no process of
\* an earlier instance was left.
THEOREM WorkOwned == MgSpec => []SuccessorOwnsWork
<1>1. MgInv => SuccessorOwnsWork
  <2> SUFFICES ASSUME MgInv, mgSlot.host, NEW e \in Execs, mgExec[e].inst # mgSlot.inst
               PROVE  /\ mgExec[e].rec # "running"
                      /\ mgExec[e].group => \A f \in Execs : mgExec[f].inst = mgSlot.inst => ~mgExec[f].group
    BY DEF SuccessorOwnsWork
  <2>1. mgExec[e].rec # "running"
    BY DEF MgInv, PlanKept
  <2>2. mgExec[e].group => Unguarded
    BY DEF MgInv, LeftoversDeny, Leftover
  <2> QED
    BY <2>1, <2>2 DEF Unguarded
<1> QED
  BY <1>1, HostInductive, PTL
=============================================================================
