----------------------------- MODULE Tools_proofs -----------------------------
(***************************************************************************)
(* What holds of the tools that keep state between their calls: the event  *)
(* plane and the capture Task of the network tool, and the visual tool,    *)
(* for every set of networks and calls, every bound and any number of      *)
(* changes, failures and late callbacks.                                   *)
(***************************************************************************)
EXTENDS NetworkEvents, NetworkTool, Visual, FiniteSetTheorems, WellFoundedInduction, TLAPS

(***************************************************************************)
(* The event plane.  Neither property is inductive: that a registration is *)
(* not forgotten rests on where the scheduler's thread is while the slot   *)
(* is in transition, and that no change is missed on what the source has   *)
(* still to report for the registration it is bound to.                    *)
(***************************************************************************)

Slots == {"vacant", "active", "transitioning", "blocked"}
Places == {"idle", "subscribe", "start", "baseline", "thread", "started", "startFailed", "stop"}
Calls == {"none", "subscribe", "close", "replace", "failed", "unreplaced", "drop"}

PlaneStates ==
  [slot : Slots, reg : Nat, gen : Nat, base : Nets \cup {Unknown}, dropped : Nat,
   pending : Nat, cont : {"vacate", "replace"}]

SourceStates ==
  [held : Nat, bound : Nat, alive : BOOLEAN, notes : Nat, read : SUBSET (Nat \X Nets),
   lost : BOOLEAN]

NeTypeOK ==
  /\ neKind \in {"native", "android"}
  /\ nePlane \in PlaneStates
  /\ neSource \in SourceStates
  /\ neCtl \in [at : Places, then : Calls]
  /\ neWorld \in [net : Nets, changes : Nat, required : BOOLEAN, reason : BOOLEAN]

\* The slot is in transition exactly while a source is stopped, and active while one is
\* started.
SlotInv ==
  /\ nePlane.slot = "transitioning" <=> neCtl.at = "stop"
  /\ neCtl.at = "subscribe" => nePlane.slot = "vacant"
  /\ neCtl.at \in {"start", "baseline", "thread", "started", "startFailed"}
       => nePlane.slot = "active"

\* Registrations are numbered in order, a source is bound to none but the plane's, and to
\* none at all once its slot is vacant or while the next one is about to start.
BoundInv ==
  /\ nePlane.reg <= nePlane.gen
  /\ nePlane.slot # "vacant" => nePlane.reg # 0
  /\ neSource.bound \in {0, nePlane.reg}
  /\ neSource.alive => neSource.bound # 0
  /\ nePlane.slot = "vacant" \/ neCtl.at = "start" => neSource.bound = 0 /\ neSource.held = 0
  /\ neCtl.at \in {"baseline", "thread"} => neSource.bound = nePlane.reg /\ ~neSource.alive

\* A report on its way was made for a registration that was given out, for the bound one
\* at most one, and for one whose source has not started none.
ReadInv ==
  /\ \A r \in neSource.read : r[1] \in 1..nePlane.gen
  /\ \A r, s \in neSource.read : r[1] = neSource.bound /\ s[1] = neSource.bound => r = s
  /\ neCtl.at \in {"start", "baseline", "thread"} =>
       \A r \in neSource.read : r[1] # nePlane.reg

\* The source has reported the current network, is about to, or has failed to.
Reports ==
  \/ neSource.notes > 0
  \/ neSource.lost
  \/ <<neSource.bound, neWorld.net>> \in neSource.read
  \/ nePlane.base = neWorld.net /\ \A r \in neSource.read : r[1] # neSource.bound

\* A source that runs, and one that is about to after its first observation.
Observing ==
  /\ nePlane.slot = "active"
  /\ neCtl.at = "thread" \/ (neCtl.at \in {"started", "idle"} /\ neSource.alive)

ReportInv == Observing => neSource.bound = nePlane.reg /\ Reports

NeInv == NeTypeOK /\ SlotInv /\ BoundInv /\ ReadInv /\ ReportInv /\ NeverForgotten

-----------------------------------------------------------------------------
(* What the operations on the plane and on the source make of them.        *)

\* An observation makes its network the baseline and leaves the registration alone.
LEMMA ObservedIs ==
  ASSUME NeTypeOK, NEW n \in Nets
  PROVE  /\ Observed(nePlane, n) \in PlaneStates
         /\ Observed(nePlane, n).base = n
         /\ Observed(nePlane, n).slot = nePlane.slot
         /\ Observed(nePlane, n).reg = nePlane.reg
         /\ Observed(nePlane, n).gen = nePlane.gen
<1>1. nePlane \in PlaneStates
  BY DEF NeTypeOK
<1>2. nePlane.pending + nePlane.dropped \in Nat /\ nePlane.dropped + 1 \in Nat
  BY <1>1 DEF PlaneStates
<1> QED
  BY <1>1, <1>2 DEF PlaneStates, Observed

\* A new registration has the next number and no baseline.
LEMMA ActivatedIs ==
  ASSUME NeTypeOK
  PROVE  /\ Activated(nePlane) \in PlaneStates
         /\ Activated(nePlane).slot = "active"
         /\ Activated(nePlane).reg = nePlane.gen + 1
         /\ Activated(nePlane).gen = nePlane.gen + 1
<1>1. nePlane \in PlaneStates /\ nePlane.gen + 1 \in Nat /\ Unknown \in Nets \cup {Unknown}
  BY DEF NeTypeOK, PlaneStates
<1> QED
  BY <1>1 DEF PlaneStates, Activated, Slots

\* A registration that is left keeps its number.
LEMMA LeavingIs ==
  ASSUME NeTypeOK
  PROVE  /\ Leaving(nePlane) \in PlaneStates
         /\ Leaving(nePlane).slot = "transitioning"
         /\ Leaving(nePlane).reg = nePlane.reg
         /\ Leaving(nePlane).gen = nePlane.gen
<1>1. nePlane \in PlaneStates /\ nePlane.pending + nePlane.dropped \in Nat
  BY DEF NeTypeOK, PlaneStates
<1> QED
  BY <1>1 DEF PlaneStates, Leaving, Slots

\* unsubscribe stops whatever is there, and leaves a vacant slot alone.
LEMMA UnsubscribesIs ==
  ASSUME NeInv, neCtl.at = "idle", NEW then \in Calls, Unsubscribes(then)
  PROVE  /\ nePlane' \in PlaneStates /\ neCtl' \in [at : Places, then : Calls]
         /\ nePlane'.reg = nePlane.reg /\ nePlane'.gen = nePlane.gen
         /\ \/ nePlane.slot # "vacant" /\ nePlane'.slot = "transitioning" /\ neCtl'.at = "stop"
            \/ nePlane' = nePlane /\ nePlane.slot = "vacant" /\ neCtl'.at = "idle"
<1>0. nePlane \in PlaneStates /\ nePlane.slot # "transitioning"
  BY DEF NeInv, NeTypeOK, SlotInv
<1>1. CASE nePlane.slot = "active"
  BY <1>1, LeavingIs DEF NeInv, Unsubscribes, Go, Places
<1>2. CASE nePlane.slot = "blocked"
  <2>1. nePlane' = [nePlane EXCEPT !.slot = "transitioning", !.cont = "vacate"]
    BY <1>2 DEF Unsubscribes
  <2>2. neCtl' = [at |-> "stop", then |-> then]
    BY <1>2 DEF Unsubscribes, Go
  <2> QED
    BY <1>0, <1>2, <2>1, <2>2 DEF PlaneStates, Slots, Places
<1>3. CASE nePlane.slot = "vacant"
  BY <1>0, <1>3 DEF Unsubscribes, Go, Places, PlaneStates, Calls
<1> QED
  BY <1>0, <1>1, <1>2, <1>3 DEF PlaneStates, Slots

\* A source that is bound, and one that is released.
LEMMA SourceIs ==
  ASSUME NeTypeOK
  PROVE  /\ Bound \in SourceStates /\ Bound.held = neSource.held /\ Bound.bound = nePlane.reg
         /\ Bound.alive = neSource.alive /\ Bound.read = neSource.read
         /\ Released \in SourceStates /\ Released.held = 0 /\ Released.bound = 0
         /\ ~Released.alive /\ Released.read = neSource.read
BY DEF NeTypeOK, PlaneStates, SourceStates, Bound, Released

-----------------------------------------------------------------------------
(* One lemma per action: it preserves every part of the invariant.         *)

\* The quarantined registration's stop is tried again.
LEMMA RetryCleanupStep ==
  ASSUME NeInv, RetryCleanup
  PROVE  NeInv'
<1>1. NeTypeOK'
  BY DEF NeInv, RetryCleanup, Go, NeTypeOK, PlaneStates, SourceStates, Slots, Places, Calls,
     Unknown
<1>2. SlotInv'
  BY DEF NeInv, RetryCleanup, Go, NeTypeOK, PlaneStates, SourceStates, Slots, Places, Calls,
     SlotInv
<1>3. BoundInv'
  BY DEF NeInv, RetryCleanup, Go, NeTypeOK, PlaneStates, SourceStates, Slots, Places, Calls,
     SlotInv, BoundInv, NeverForgotten
<1>4. ReadInv'
  BY DEF NeInv, RetryCleanup, Go, NeTypeOK, PlaneStates, SourceStates, Slots, Places, Calls,
     SlotInv, BoundInv, ReadInv
<1>5. ReportInv'
  BY DEF NeInv, RetryCleanup, Go, NeTypeOK, PlaneStates, SourceStates, Slots, Places, Calls,
     SlotInv, BoundInv, ReadInv, ReportInv, Observing, Reports
<1>6. NeverForgotten'
  BY DEF NeInv, RetryCleanup, Go, NeTypeOK, PlaneStates, SourceStates, Slots, Places, Calls,
     SlotInv, BoundInv, NeverForgotten
<1> QED
  BY <1>1, <1>2, <1>3, <1>4, <1>5, <1>6 DEF NeInv

\* A new registration, active before its source starts.
LEMMA SubscribeStep ==
  ASSUME NeInv, Subscribe
  PROVE  NeInv'
<1>1. NeTypeOK'
  BY ActivatedIs DEF NeInv, Subscribe, Go, NeTypeOK, PlaneStates, SourceStates, Slots, Places,
     Calls, Unknown
<1>2. SlotInv'
  BY ActivatedIs DEF NeInv, Subscribe, Go, NeTypeOK, PlaneStates, SourceStates, Slots, Places,
     Calls, SlotInv
<1>3. BoundInv'
  BY ActivatedIs DEF NeInv, Subscribe, Go, NeTypeOK, PlaneStates, SourceStates, Slots, Places,
     Calls, SlotInv, BoundInv, NeverForgotten
<1>4. ReadInv'
  BY ActivatedIs DEF NeInv, Subscribe, Go, NeTypeOK, PlaneStates, SourceStates, Slots, Places,
     Calls, SlotInv, BoundInv, ReadInv
<1>5. ReportInv'
  BY ActivatedIs DEF NeInv, Subscribe, Go, NeTypeOK, PlaneStates, SourceStates, Slots, Places,
     Calls, SlotInv, BoundInv, ReadInv, ReportInv, Observing, Reports
<1>6. NeverForgotten'
  BY ActivatedIs DEF NeInv, Subscribe, Go, NeTypeOK, PlaneStates, SourceStates, Slots, Places,
     Calls, SlotInv, BoundInv, NeverForgotten
<1> QED
  BY <1>1, <1>2, <1>3, <1>4, <1>5, <1>6 DEF NeInv

\* The subscription is closed.
LEMMA CloseStep ==
  ASSUME NeInv, Close
  PROVE  NeInv'
<1>1. NeTypeOK'
  BY UnsubscribesIs DEF NeInv, Close, Go, NeTypeOK, PlaneStates, SourceStates, Slots, Places,
     Calls, Unknown
<1>2. SlotInv'
  BY UnsubscribesIs DEF NeInv, Close, Go, NeTypeOK, PlaneStates, SourceStates, Slots, Places,
     Calls, SlotInv
<1>3. BoundInv'
  BY UnsubscribesIs DEF NeInv, Close, Go, NeTypeOK, PlaneStates, SourceStates, Slots, Places,
     Calls, SlotInv, BoundInv, NeverForgotten
<1>4. ReadInv'
  BY UnsubscribesIs DEF NeInv, Close, Go, NeTypeOK, PlaneStates, SourceStates, Slots, Places,
     Calls, SlotInv, BoundInv, ReadInv
<1>5. ReportInv'
  BY UnsubscribesIs DEF NeInv, Close, Go, NeTypeOK, PlaneStates, SourceStates, Slots, Places,
     Calls, SlotInv, BoundInv, ReadInv, ReportInv, Observing, Reports
<1>6. NeverForgotten'
  BY UnsubscribesIs DEF NeInv, Close, Go, NeTypeOK, PlaneStates, SourceStates, Slots, Places,
     Calls, SlotInv, BoundInv, NeverForgotten
<1> QED
  BY <1>1, <1>2, <1>3, <1>4, <1>5, <1>6 DEF NeInv

\* The source is exchanged under its channel.
LEMMA ReplaceSourceStep ==
  ASSUME NeInv, ReplaceSource
  PROVE  NeInv'
<1>1. NeTypeOK'
  BY LeavingIs DEF NeInv, ReplaceSource, Go, NeTypeOK, PlaneStates, SourceStates, Slots, Places,
     Calls, Unknown
<1>2. SlotInv'
  BY LeavingIs DEF NeInv, ReplaceSource, Go, NeTypeOK, PlaneStates, SourceStates, Slots, Places,
     Calls, SlotInv
<1>3. BoundInv'
  BY LeavingIs DEF NeInv, ReplaceSource, Go, NeTypeOK, PlaneStates, SourceStates, Slots, Places,
     Calls, SlotInv, BoundInv, NeverForgotten
<1>4. ReadInv'
  BY LeavingIs DEF NeInv, ReplaceSource, Go, NeTypeOK, PlaneStates, SourceStates, Slots, Places,
     Calls, SlotInv, BoundInv, ReadInv
<1>5. ReportInv'
  BY LeavingIs DEF NeInv, ReplaceSource, Go, NeTypeOK, PlaneStates, SourceStates, Slots, Places,
     Calls, SlotInv, BoundInv, ReadInv, ReportInv, Observing, Reports
<1>6. NeverForgotten'
  BY LeavingIs DEF NeInv, ReplaceSource, Go, NeTypeOK, PlaneStates, SourceStates, Slots, Places,
     Calls, SlotInv, BoundInv, NeverForgotten
<1> QED
  BY <1>1, <1>2, <1>3, <1>4, <1>5, <1>6 DEF NeInv

\* The netlink socket is bound before the first dump.
LEMMA StartBeginsStep ==
  ASSUME NeInv, StartBegins
  PROVE  NeInv'
<1>1. NeTypeOK'
  BY SourceIs DEF NeInv, StartBegins, Go, NeTypeOK, PlaneStates, SourceStates, Slots, Places,
     Calls, Unknown
<1>2. SlotInv'
  BY SourceIs DEF NeInv, StartBegins, Go, NeTypeOK, PlaneStates, SourceStates, Slots, Places,
     Calls, SlotInv
<1>3. BoundInv'
  BY SourceIs DEF NeInv, StartBegins, Go, NeTypeOK, PlaneStates, SourceStates, Slots, Places,
     Calls, SlotInv, BoundInv, NeverForgotten
<1>4. ReadInv'
  BY SourceIs DEF NeInv, StartBegins, Go, NeTypeOK, PlaneStates, SourceStates, Slots, Places,
     Calls, SlotInv, BoundInv, ReadInv
<1>5. ReportInv'
  BY SourceIs DEF NeInv, StartBegins, Go, NeTypeOK, PlaneStates, SourceStates, Slots, Places,
     Calls, SlotInv, BoundInv, ReadInv, ReportInv, Observing, Reports
<1>6. NeverForgotten'
  BY SourceIs DEF NeInv, StartBegins, Go, NeTypeOK, PlaneStates, SourceStates, Slots, Places,
     Calls, SlotInv, BoundInv, NeverForgotten
<1> QED
  BY <1>1, <1>2, <1>3, <1>4, <1>5, <1>6 DEF NeInv

\* The first dump.
LEMMA StartBaselineStep ==
  ASSUME NeInv, StartBaseline
  PROVE  NeInv'
<1>1. NeTypeOK'
  BY ObservedIs DEF NeInv, StartBaseline, Go, Observe, Current, NeTypeOK, PlaneStates,
     SourceStates, Slots, Places, Calls, Unknown
<1>2. SlotInv'
  BY ObservedIs DEF NeInv, StartBaseline, Go, Observe, Current, NeTypeOK, PlaneStates,
     SourceStates, Slots, Places, Calls, SlotInv
<1>3. BoundInv'
  BY ObservedIs DEF NeInv, StartBaseline, Go, Observe, Current, NeTypeOK, PlaneStates,
     SourceStates, Slots, Places, Calls, SlotInv, BoundInv, NeverForgotten
<1>4. ReadInv'
  BY ObservedIs DEF NeInv, StartBaseline, Go, Observe, Current, NeTypeOK, PlaneStates,
     SourceStates, Slots, Places, Calls, SlotInv, BoundInv, ReadInv
<1>5. ReportInv'
  BY ObservedIs DEF NeInv, StartBaseline, Go, Observe, Current, NeTypeOK, PlaneStates,
     SourceStates, Slots, Places, Calls, SlotInv, BoundInv, ReadInv, ReportInv, Observing, Reports
<1>6. NeverForgotten'
  BY ObservedIs DEF NeInv, StartBaseline, Go, Observe, Current, NeTypeOK, PlaneStates,
     SourceStates, Slots, Places, Calls, SlotInv, BoundInv, NeverForgotten
<1> QED
  BY <1>1, <1>2, <1>3, <1>4, <1>5, <1>6 DEF NeInv

\* The observer's thread starts.
LEMMA StartThreadStep ==
  ASSUME NeInv, StartThread
  PROVE  NeInv'
<1>1. NeTypeOK'
  BY DEF NeInv, StartThread, Go, NeTypeOK, PlaneStates, SourceStates, Slots, Places, Calls,
     Unknown
<1>2. SlotInv'
  BY DEF NeInv, StartThread, Go, NeTypeOK, PlaneStates, SourceStates, Slots, Places, Calls,
     SlotInv
<1>3. BoundInv'
  BY DEF NeInv, StartThread, Go, NeTypeOK, PlaneStates, SourceStates, Slots, Places, Calls,
     SlotInv, BoundInv, NeverForgotten
<1>4. ReadInv'
  BY DEF NeInv, StartThread, Go, NeTypeOK, PlaneStates, SourceStates, Slots, Places, Calls,
     SlotInv, BoundInv, ReadInv
<1>5. ReportInv'
  BY DEF NeInv, StartThread, Go, NeTypeOK, PlaneStates, SourceStates, Slots, Places, Calls,
     SlotInv, BoundInv, ReadInv, ReportInv, Observing, Reports
<1>6. NeverForgotten'
  BY DEF NeInv, StartThread, Go, NeTypeOK, PlaneStates, SourceStates, Slots, Places, Calls,
     SlotInv, BoundInv, NeverForgotten
<1> QED
  BY <1>1, <1>2, <1>3, <1>4, <1>5, <1>6 DEF NeInv

\* The framework takes the callback, whether or not its answer arrives.
LEMMA StartAndroidStep ==
  ASSUME NeInv, StartAndroid
  PROVE  NeInv'
<1>1. NeTypeOK'
  <2>1. neSource' \in SourceStates
    BY SourceIs DEF NeInv, StartAndroid, NeTypeOK, SourceStates, PlaneStates
  <2> QED
    BY <2>1 DEF NeInv, NeTypeOK, StartAndroid, Go, Places
<1>2. SlotInv'
  BY SourceIs DEF NeInv, StartAndroid, Go, NeTypeOK, PlaneStates, SourceStates, Slots, Places,
     Calls, SlotInv
<1>3. BoundInv'
  BY SourceIs DEF NeInv, StartAndroid, Go, NeTypeOK, PlaneStates, SourceStates, Slots, Places,
     Calls, SlotInv, BoundInv, NeverForgotten
<1>4. ReadInv'
  BY SourceIs DEF NeInv, StartAndroid, Go, NeTypeOK, PlaneStates, SourceStates, Slots, Places,
     Calls, SlotInv, BoundInv, ReadInv
<1>5. ReportInv'
  BY SourceIs DEF NeInv, StartAndroid, Go, NeTypeOK, PlaneStates, SourceStates, Slots, Places,
     Calls, SlotInv, BoundInv, ReadInv, ReportInv, Observing, Reports
<1>6. NeverForgotten'
  BY SourceIs DEF NeInv, StartAndroid, Go, NeTypeOK, PlaneStates, SourceStates, Slots, Places,
     Calls, SlotInv, BoundInv, NeverForgotten
<1> QED
  BY <1>1, <1>2, <1>3, <1>4, <1>5, <1>6 DEF NeInv

\* A start fails.
LEMMA SourceStartFailsStep ==
  ASSUME NeInv, SourceStartFails
  PROVE  NeInv'
<1>1. NeTypeOK'
  BY DEF NeInv, SourceStartFails, Go, NeTypeOK, PlaneStates, SourceStates, Slots, Places, Calls,
     Unknown
<1>2. SlotInv'
  BY DEF NeInv, SourceStartFails, Go, NeTypeOK, PlaneStates, SourceStates, Slots, Places, Calls,
     SlotInv
<1>3. BoundInv'
  BY DEF NeInv, SourceStartFails, Go, NeTypeOK, PlaneStates, SourceStates, Slots, Places, Calls,
     SlotInv, BoundInv, NeverForgotten
<1>4. ReadInv'
  BY DEF NeInv, SourceStartFails, Go, NeTypeOK, PlaneStates, SourceStates, Slots, Places, Calls,
     SlotInv, BoundInv, ReadInv
<1>5. ReportInv'
  BY DEF NeInv, SourceStartFails, Go, NeTypeOK, PlaneStates, SourceStates, Slots, Places, Calls,
     SlotInv, BoundInv, ReadInv, ReportInv, Observing, Reports
<1>6. NeverForgotten'
  BY DEF NeInv, SourceStartFails, Go, NeTypeOK, PlaneStates, SourceStates, Slots, Places, Calls,
     SlotInv, BoundInv, NeverForgotten
<1> QED
  BY <1>1, <1>2, <1>3, <1>4, <1>5, <1>6 DEF NeInv

\* A source that could not be started is stopped.
LEMMA UnwindStep ==
  ASSUME NeInv, Unwind
  PROVE  NeInv'
<1>1. NeTypeOK'
  BY LeavingIs DEF NeInv, Unwind, Go, NeTypeOK, PlaneStates, SourceStates, Slots, Places, Calls,
     Unknown
<1>2. SlotInv'
  BY LeavingIs DEF NeInv, Unwind, Go, NeTypeOK, PlaneStates, SourceStates, Slots, Places, Calls,
     SlotInv
<1>3. BoundInv'
  BY LeavingIs DEF NeInv, Unwind, Go, NeTypeOK, PlaneStates, SourceStates, Slots, Places, Calls,
     SlotInv, BoundInv, NeverForgotten
<1>4. ReadInv'
  BY LeavingIs DEF NeInv, Unwind, Go, NeTypeOK, PlaneStates, SourceStates, Slots, Places, Calls,
     SlotInv, BoundInv, ReadInv
<1>5. ReportInv'
  BY LeavingIs DEF NeInv, Unwind, Go, NeTypeOK, PlaneStates, SourceStates, Slots, Places, Calls,
     SlotInv, BoundInv, ReadInv, ReportInv, Observing, Reports
<1>6. NeverForgotten'
  BY LeavingIs DEF NeInv, Unwind, Go, NeTypeOK, PlaneStates, SourceStates, Slots, Places, Calls,
     SlotInv, BoundInv, NeverForgotten
<1> QED
  BY <1>1, <1>2, <1>3, <1>4, <1>5, <1>6 DEF NeInv

\* A source that was started.
LEMMA StartedStep ==
  ASSUME NeInv, Started
  PROVE  NeInv'
<1>1. NeTypeOK'
  BY DEF NeInv, Started, Go, NeTypeOK, PlaneStates, SourceStates, Slots, Places, Calls, Unknown
<1>2. SlotInv'
  BY DEF NeInv, Started, Go, NeTypeOK, PlaneStates, SourceStates, Slots, Places, Calls, SlotInv
<1>3. BoundInv'
  BY DEF NeInv, Started, Go, NeTypeOK, PlaneStates, SourceStates, Slots, Places, Calls, SlotInv,
     BoundInv, NeverForgotten
<1>4. ReadInv'
  BY DEF NeInv, Started, Go, NeTypeOK, PlaneStates, SourceStates, Slots, Places, Calls, SlotInv,
     BoundInv, ReadInv
<1>5. ReportInv'
  BY DEF NeInv, Started, Go, NeTypeOK, PlaneStates, SourceStates, Slots, Places, Calls, SlotInv,
     BoundInv, ReadInv, ReportInv, Observing, Reports
<1>6. NeverForgotten'
  BY DEF NeInv, Started, Go, NeTypeOK, PlaneStates, SourceStates, Slots, Places, Calls, SlotInv,
     BoundInv, NeverForgotten
<1> QED
  BY <1>1, <1>2, <1>3, <1>4, <1>5, <1>6 DEF NeInv

\* A stop that succeeds.
LEMMA StoppedStep ==
  ASSUME NeInv, Stopped
  PROVE  NeInv'
<1>1. NeTypeOK'
  BY SourceIs, ActivatedIs DEF NeInv, Stopped, Go, Reason, NeTypeOK, PlaneStates, SourceStates,
     Slots, Places, Calls, Unknown
<1>2. SlotInv'
  BY SourceIs, ActivatedIs DEF NeInv, Stopped, Go, Reason, NeTypeOK, PlaneStates, SourceStates,
     Slots, Places, Calls, SlotInv
<1>3. BoundInv'
  BY SourceIs, ActivatedIs DEF NeInv, Stopped, Go, Reason, NeTypeOK, PlaneStates, SourceStates,
     Slots, Places, Calls, SlotInv, BoundInv, NeverForgotten
<1>4. ReadInv'
  BY SourceIs, ActivatedIs DEF NeInv, Stopped, Go, Reason, NeTypeOK, PlaneStates, SourceStates,
     Slots, Places, Calls, SlotInv, BoundInv, ReadInv
<1>5. ReportInv'
  BY SourceIs, ActivatedIs DEF NeInv, Stopped, Go, Reason, NeTypeOK, PlaneStates, SourceStates,
     Slots, Places, Calls, SlotInv, BoundInv, ReadInv, ReportInv, Observing, Reports
<1>6. NeverForgotten'
  BY SourceIs, ActivatedIs DEF NeInv, Stopped, Go, Reason, NeTypeOK, PlaneStates, SourceStates,
     Slots, Places, Calls, SlotInv, BoundInv, NeverForgotten
<1> QED
  BY <1>1, <1>2, <1>3, <1>4, <1>5, <1>6 DEF NeInv

\* A stop that fails quarantines the registration.
LEMMA StopFailsStep ==
  ASSUME NeInv, StopFails
  PROVE  NeInv'
<1>1. NeTypeOK'
  BY SourceIs DEF NeInv, StopFails, Go, Quarantined, Reason, NeTypeOK, PlaneStates,
     SourceStates, Slots, Places, Calls, Unknown
<1>2. SlotInv'
  BY SourceIs DEF NeInv, StopFails, Go, Quarantined, Reason, NeTypeOK, PlaneStates,
     SourceStates, Slots, Places, Calls, SlotInv
<1>3. BoundInv'
  BY SourceIs DEF NeInv, StopFails, Go, Quarantined, Reason, NeTypeOK, PlaneStates,
     SourceStates, Slots, Places, Calls, SlotInv, BoundInv, NeverForgotten
<1>4. ReadInv'
  BY SourceIs DEF NeInv, StopFails, Go, Quarantined, Reason, NeTypeOK, PlaneStates,
     SourceStates, Slots, Places, Calls, SlotInv, BoundInv, ReadInv
<1>5. ReportInv'
  BY SourceIs DEF NeInv, StopFails, Go, Quarantined, Reason, NeTypeOK, PlaneStates,
     SourceStates, Slots, Places, Calls, SlotInv, BoundInv, ReadInv, ReportInv, Observing, Reports
<1>6. NeverForgotten'
  BY SourceIs DEF NeInv, StopFails, Go, Quarantined, Reason, NeTypeOK, PlaneStates,
     SourceStates, Slots, Places, Calls, SlotInv, BoundInv, NeverForgotten
<1> QED
  BY <1>1, <1>2, <1>3, <1>4, <1>5, <1>6 DEF NeInv

\* What a dump makes of the source: a report of the current network, a failure that is
\* remembered, or the end of the thread.
LEMMA DumpIs ==
  ASSUME NeTypeOK, Dump
  PROVE  /\ neSource' \in SourceStates
         /\ neSource'.held = neSource.held /\ neSource'.bound = neSource.bound
         /\ \/ /\ neSource'.alive = neSource.alive /\ neSource'.lost = neSource.lost
               /\ neSource'.read = neSource.read \cup {<<neSource.bound, neWorld.net>>}
            \/ neSource'.alive = neSource.alive /\ neSource'.lost /\ neSource'.read = neSource.read
            \/ ~neSource'.alive /\ neSource'.lost = neSource.lost /\ neSource'.read = neSource.read
<1>1. neSource \in SourceStates /\ neSource.notes - 1 \in Nat
  BY DEF NeTypeOK, SourceStates, Dump
<1>2. neSource.read \cup {<<neSource.bound, neWorld.net>>} \in SUBSET (Nat \X Nets)
  BY <1>1 DEF NeTypeOK, SourceStates
<1>3. CASE neSource' = [neSource EXCEPT !.notes = @ - 1,
                                       !.read = @ \cup {<<neSource.bound, neWorld.net>>}]
  BY <1>1, <1>2, <1>3 DEF SourceStates
<1>4. CASE neSource' = [neSource EXCEPT !.notes = @ - 1, !.lost = TRUE]
  BY <1>1, <1>4 DEF SourceStates
<1>5. CASE neSource' = [neSource EXCEPT !.alive = FALSE, !.notes = 0]
  BY <1>1, <1>5 DEF SourceStates
<1> QED
  BY <1>3, <1>4, <1>5 DEF Dump

\* A notification is answered with a dump, made while no earlier report is on its way.
LEMMA DumpStep ==
  ASSUME NeInv, Dump
  PROVE  NeInv'
<1> neSource.alive /\ (\A r \in neSource.read : r[1] # neSource.bound)
    /\ UNCHANGED <<neKind, nePlane, neCtl, neWorld>>
  BY DEF Dump
<1>1. NeTypeOK'
  BY DumpIs DEF NeInv, NeTypeOK
<1>2. SlotInv'
  BY DEF NeInv, SlotInv
<1>3. BoundInv'
  BY DumpIs DEF NeInv, BoundInv
<1>4. ReadInv'
  <2>1. neSource.bound \in 1..nePlane.gen /\ neCtl.at \notin {"start", "baseline", "thread"}
    BY DEF NeInv, NeTypeOK, PlaneStates, SourceStates, BoundInv, SlotInv
  <2>2. \A r \in neSource'.read : r \in neSource.read \/ r = <<neSource.bound, neWorld.net>>
    BY DumpIs DEF NeInv
  <2>3. neSource'.bound = neSource.bound
    BY DumpIs DEF NeInv
  <2>4. \A r \in neSource'.read : r[1] \in 1..nePlane.gen
    BY <2>1, <2>2 DEF NeInv, ReadInv
  <2>5. \A r \in neSource'.read : r[1] = neSource.bound => r = <<neSource.bound, neWorld.net>>
    BY <2>2
  <2> QED
    BY <2>1, <2>3, <2>4, <2>5 DEF ReadInv
<1>5. ReportInv'
  <2>1. neCtl.at # "thread"
    BY DEF NeInv, BoundInv
  <2> QED
    BY <2>1, DumpIs DEF NeInv, ReportInv, Observing, Reports
<1>6. NeverForgotten'
  BY DumpIs DEF NeInv, NeverForgotten
<1> QED
  BY <1>1, <1>2, <1>3, <1>4, <1>5, <1>6 DEF NeInv

\* A report reaches the plane, maybe late.
LEMMA CallbackStep ==
  ASSUME NeInv, Callback
  PROVE  NeInv'
<1>1. NeTypeOK'
  BY ObservedIs DEF NeInv, Callback, Go, Observe, Current, NeTypeOK, PlaneStates, SourceStates,
     Slots, Places, Calls, Unknown
<1>2. SlotInv'
  BY ObservedIs DEF NeInv, Callback, Go, Observe, Current, NeTypeOK, PlaneStates, SourceStates,
     Slots, Places, Calls, SlotInv
<1>3. BoundInv'
  BY ObservedIs DEF NeInv, Callback, Go, Observe, Current, NeTypeOK, PlaneStates, SourceStates,
     Slots, Places, Calls, SlotInv, BoundInv, NeverForgotten
<1>4. ReadInv'
  BY ObservedIs DEF NeInv, Callback, Go, Observe, Current, NeTypeOK, PlaneStates, SourceStates,
     Slots, Places, Calls, SlotInv, BoundInv, ReadInv
<1>5. ReportInv'
  BY ObservedIs DEF NeInv, Callback, Go, Observe, Current, NeTypeOK, PlaneStates, SourceStates,
     Slots, Places, Calls, SlotInv, BoundInv, ReadInv, ReportInv, Observing, Reports
<1>6. NeverForgotten'
  BY ObservedIs DEF NeInv, Callback, Go, Observe, Current, NeTypeOK, PlaneStates, SourceStates,
     Slots, Places, Calls, SlotInv, BoundInv, NeverForgotten
<1> QED
  BY <1>1, <1>2, <1>3, <1>4, <1>5, <1>6 DEF NeInv

\* The consumer takes an event, or finds the channel ended.
LEMMA ReceiveStep ==
  ASSUME NeInv, Receive
  PROVE  NeInv'
<1>1. NeTypeOK'
  BY UnsubscribesIs DEF NeInv, Receive, Go, NeTypeOK, PlaneStates, SourceStates, Slots, Places,
     Calls, Unknown
<1>2. SlotInv'
  BY UnsubscribesIs DEF NeInv, Receive, Go, NeTypeOK, PlaneStates, SourceStates, Slots, Places,
     Calls, SlotInv
<1>3. BoundInv'
  BY UnsubscribesIs DEF NeInv, Receive, Go, NeTypeOK, PlaneStates, SourceStates, Slots, Places,
     Calls, SlotInv, BoundInv, NeverForgotten
<1>4. ReadInv'
  BY UnsubscribesIs DEF NeInv, Receive, Go, NeTypeOK, PlaneStates, SourceStates, Slots, Places,
     Calls, SlotInv, BoundInv, ReadInv
<1>5. ReportInv'
  BY UnsubscribesIs DEF NeInv, Receive, Go, NeTypeOK, PlaneStates, SourceStates, Slots, Places,
     Calls, SlotInv, BoundInv, ReadInv, ReportInv, Observing, Reports
<1>6. NeverForgotten'
  BY UnsubscribesIs DEF NeInv, Receive, Go, NeTypeOK, PlaneStates, SourceStates, Slots, Places,
     Calls, SlotInv, BoundInv, NeverForgotten
<1> QED
  BY <1>1, <1>2, <1>3, <1>4, <1>5, <1>6 DEF NeInv

\* The diagnostic is taken.
LEMMA TakeDiagnosticStep ==
  ASSUME NeInv, TakeDiagnostic
  PROVE  NeInv'
<1>1. NeTypeOK'
  BY DEF NeInv, TakeDiagnostic, Go, NeTypeOK, PlaneStates, SourceStates, Slots, Places, Calls,
     Unknown
<1>2. SlotInv'
  BY DEF NeInv, TakeDiagnostic, Go, NeTypeOK, PlaneStates, SourceStates, Slots, Places, Calls,
     SlotInv
<1>3. BoundInv'
  BY DEF NeInv, TakeDiagnostic, Go, NeTypeOK, PlaneStates, SourceStates, Slots, Places, Calls,
     SlotInv, BoundInv, NeverForgotten
<1>4. ReadInv'
  BY DEF NeInv, TakeDiagnostic, Go, NeTypeOK, PlaneStates, SourceStates, Slots, Places, Calls,
     SlotInv, BoundInv, ReadInv
<1>5. ReportInv'
  BY DEF NeInv, TakeDiagnostic, Go, NeTypeOK, PlaneStates, SourceStates, Slots, Places, Calls,
     SlotInv, BoundInv, ReadInv, ReportInv, Observing, Reports
<1>6. NeverForgotten'
  BY DEF NeInv, TakeDiagnostic, Go, NeTypeOK, PlaneStates, SourceStates, Slots, Places, Calls,
     SlotInv, BoundInv, NeverForgotten
<1> QED
  BY <1>1, <1>2, <1>3, <1>4, <1>5, <1>6 DEF NeInv

\* Another network becomes the default.
LEMMA NetChangesStep ==
  ASSUME NeInv, NetChanges
  PROVE  NeInv'
<1>1. NeTypeOK'
  <2>1. neSource' \in SourceStates
    BY DEF NeInv, NetChanges, NeTypeOK, SourceStates
  <2>2. PICK n \in Nets : neWorld' = [neWorld EXCEPT !.net = n, !.changes = @ + 1]
    BY DEF NetChanges
  <2>3. neWorld.changes + 1 \in Nat
    BY DEF NeInv, NeTypeOK
  <2>4. neWorld' \in [net : Nets, changes : Nat, required : BOOLEAN, reason : BOOLEAN]
    BY <2>2, <2>3 DEF NeInv, NeTypeOK
  <2> QED
    BY <2>1, <2>4 DEF NeInv, NeTypeOK, NetChanges
<1>2. SlotInv'
  BY DEF NeInv, NetChanges, Go, NeTypeOK, PlaneStates, SourceStates, Slots, Places, Calls,
     SlotInv
<1>3. BoundInv'
  BY DEF NeInv, NetChanges, Go, NeTypeOK, PlaneStates, SourceStates, Slots, Places, Calls,
     SlotInv, BoundInv, NeverForgotten
<1>4. ReadInv'
  BY DEF NeInv, NetChanges, Go, NeTypeOK, PlaneStates, SourceStates, Slots, Places, Calls,
     SlotInv, BoundInv, ReadInv
<1>5. ReportInv'
  BY DEF NeInv, NetChanges, Go, NeTypeOK, PlaneStates, SourceStates, Slots, Places, Calls,
     SlotInv, BoundInv, ReadInv, ReportInv, Observing, Reports
<1>6. NeverForgotten'
  BY DEF NeInv, NetChanges, Go, NeTypeOK, PlaneStates, SourceStates, Slots, Places, Calls,
     SlotInv, BoundInv, NeverForgotten
<1> QED
  BY <1>1, <1>2, <1>3, <1>4, <1>5, <1>6 DEF NeInv

\* An Automation needs the events, or none does any longer.
LEMMA RequireStep ==
  ASSUME NeInv, Require
  PROVE  NeInv'
<1>1. NeTypeOK'
  BY DEF NeInv, Require, Go, NeTypeOK, PlaneStates, SourceStates, Slots, Places, Calls, Unknown
<1>2. SlotInv'
  BY DEF NeInv, Require, Go, NeTypeOK, PlaneStates, SourceStates, Slots, Places, Calls, SlotInv
<1>3. BoundInv'
  BY DEF NeInv, Require, Go, NeTypeOK, PlaneStates, SourceStates, Slots, Places, Calls, SlotInv,
     BoundInv, NeverForgotten
<1>4. ReadInv'
  BY DEF NeInv, Require, Go, NeTypeOK, PlaneStates, SourceStates, Slots, Places, Calls, SlotInv,
     BoundInv, ReadInv
<1>5. ReportInv'
  BY DEF NeInv, Require, Go, NeTypeOK, PlaneStates, SourceStates, Slots, Places, Calls, SlotInv,
     BoundInv, ReadInv, ReportInv, Observing, Reports
<1>6. NeverForgotten'
  BY DEF NeInv, Require, Go, NeTypeOK, PlaneStates, SourceStates, Slots, Places, Calls, SlotInv,
     BoundInv, NeverForgotten
<1> QED
  BY <1>1, <1>2, <1>3, <1>4, <1>5, <1>6 DEF NeInv

-----------------------------------------------------------------------------
\* The inductive invariant of the event plane, its sources and the scheduler that
\* subscribes (NetworkEventPlane and run_route_observer).
THEOREM EventsInductive == NeSpec => []NeInv
<1>1. NeInit => NeInv
  <2> SUFFICES ASSUME NeInit PROVE NeInv
    OBVIOUS
  <2>1. NeTypeOK
    BY DEF NeInit, NeTypeOK, PlaneStates, SourceStates, Slots, Places, Calls, Unknown
  <2>2. SlotInv /\ BoundInv /\ ReadInv /\ ReportInv /\ NeverForgotten
    BY DEF NeInit, SlotInv, BoundInv, ReadInv, ReportInv, Observing, NeverForgotten
  <2> QED
    BY <2>1, <2>2 DEF NeInv
<1>2. NeInv /\ [NeNext]_neVars => NeInv'
  <2>1. ASSUME NeInv, UNCHANGED neVars PROVE NeInv'
    BY <2>1 DEF neVars, NeInv, NeTypeOK, SlotInv, BoundInv, ReadInv, ReportInv, Observing,
       Reports, NeverForgotten
  <2> QED
    BY <2>1, RetryCleanupStep, SubscribeStep, CloseStep, ReplaceSourceStep, StartBeginsStep,
       StartBaselineStep, StartThreadStep, StartAndroidStep, SourceStartFailsStep, UnwindStep,
       StartedStep, StoppedStep, StopFailsStep, DumpStep, CallbackStep, ReceiveStep,
       TakeDiagnosticStep, NetChangesStep, RequireStep DEF NeNext
<1> QED
  BY <1>1, <1>2, PTL DEF NeSpec

\* For any number of registrations and failures: a registration a source holds is the
\* plane's, active, being stopped or quarantined (unsubscribe, retry_cleanup).
THEOREM RegistrationKept == NeSpec => []NeverForgotten
<1>1. NeInv => NeverForgotten
  BY DEF NeInv
<1> QED
  BY <1>1, EventsInductive, PTL

\* For any number of networks and changes: once a running source has nothing left to
\* report, the baseline is the network that is the default now (observe).
THEOREM ChangesSeen == NeSpec => []NoChangeMissed
<1>1. NeInv => NoChangeMissed
  BY DEF NeInv, NeTypeOK, SourceStates, ReportInv, Observing, Reports, NoChangeMissed
<1> QED
  BY <1>1, EventsInductive, PTL

-----------------------------------------------------------------------------
(***************************************************************************)
(* The capture Task.  That it settles whole is a matter of where it        *)
(* stands: what it holds, what it has published and which failure it       *)
(* carries at each of its steps.                                           *)
(***************************************************************************)

CapRecords(by) ==
  [task : {"none", "queued", "running", "completed", "failed", "cancelled",
           "interrupted"}, by : {by},
   at : {"none", "register", "open", "activate", "read", "close", "retire", "publish", "write",
         "rename", "settle"},
   reg : BOOLEAN, open : BOOLEAN, stop : BOOLEAN, cancel : BOOLEAN, committed : BOOLEAN,
   packets : Nat, stream : Nat, persist : BOOLEAN, ref : Nat, dest : {"none", "whole"},
   verified : BOOLEAN, err : {"ok", "stale", "capture_failed", "unsupported", "cancelled", "io"}]

\* A capture stands somewhere while its Task runs; it holds its place in the registry and
\* its device at the steps between taking and giving them up, and works only without a failure.
CapHolds(x) ==
  /\ x.at # "none" <=> x.task = "running"
  /\ x.reg <=> x.at \in {"open", "activate", "read", "close", "retire"}
  /\ x.open <=> x.at \in {"activate", "read", "close"}
  /\ x.at \in {"register", "open", "activate", "read", "publish", "write", "rename"} => x.err = "ok"

\* Every packet it counts is in the stream, which stays within its bounds.
CapStreams(x) ==
  /\ x.stream <= MaxStream /\ x.packets <= MaxPackets
  /\ x.task = "queued" \/ x.at \in {"register", "open", "activate"} => x.packets = 0
  /\ \/ x.at = "read"
     \/ x.err = "ok" /\ x.at \in {"close", "retire", "publish", "write", "rename", "settle"}
     => x.stream >= 1 + x.packets

\* The stream is published once and whole.  A claim that knows of it refuses every
\* cancellation; one that does not has the failure of a publication that took effect.
CapPublishes(x) ==
  /\ x.committed => /\ x.ref = x.stream /\ x.err \in {"ok", "io"} /\ ~x.cancel
                    /\ x.at \in {"write", "rename", "settle", "none"}
  /\ ~x.committed => /\ x.dest = "none" /\ x.at \notin {"write", "rename"}
                     /\ x.ref # 0 => x.err = "io" /\ x.at \in {"settle", "none"}
  /\ x.at = "settle" /\ x.err = "ok" => x.committed /\ (x.persist => x.dest = "whole")
  /\ x.at \in {"write", "rename"} => x.persist
  /\ x.task \in {"none", "queued", "cancelled"} => ~x.committed
  /\ x.task \in {"none", "queued"} => x.ref = 0
  /\ x.task = "completed" => /\ x.committed /\ x.stream >= 1 + x.packets
                             /\ x.persist => x.dest = "whole"

CapOK(x) == (\E by : x \in CapRecords(by)) /\ CapHolds(x) /\ CapStreams(x) /\ CapPublishes(x)
CapInv == CapOK(ntCap)

\* The capture enters the registry.
LEMMA RegistersOK ==
  ASSUME NEW x, CapOK(x), x.at = "register"
  PROVE  CapOK([x EXCEPT !.reg = TRUE, !.at = "open"])
<1>1. PICK by : x \in CapRecords(by)
  BY DEF CapOK
<1>2. CapHolds(x) /\ CapStreams(x) /\ CapPublishes(x) /\ MaxStream \in Nat \ {0} /\ MaxPackets \in Nat
  BY NetworkToolAssumption DEF CapOK
<1> DEFINE y == [x EXCEPT !.reg = TRUE, !.at = "open"]
<1>3. y \in CapRecords(by)
  BY <1>1 DEF CapRecords
<1>4. CapHolds(y)
  BY <1>1, <1>2 DEF CapRecords, CapHolds
<1>5. CapStreams(y)
  BY <1>1, <1>2 DEF CapRecords, CapHolds, CapStreams
<1>6. CapPublishes(y)
  BY <1>1, <1>2 DEF CapRecords, CapHolds, CapStreams, CapPublishes
<1> QED
  BY <1>3, <1>4, <1>5, <1>6 DEF CapOK

\* Its device opens.
LEMMA OpensOK ==
  ASSUME NEW x, CapOK(x), x.at = "open"
  PROVE  CapOK([x EXCEPT !.open = TRUE, !.at = "activate"])
<1>1. PICK by : x \in CapRecords(by)
  BY DEF CapOK
<1>2. CapHolds(x) /\ CapStreams(x) /\ CapPublishes(x) /\ MaxStream \in Nat \ {0} /\ MaxPackets \in Nat
  BY NetworkToolAssumption DEF CapOK
<1> DEFINE y == [x EXCEPT !.open = TRUE, !.at = "activate"]
<1>3. y \in CapRecords(by)
  BY <1>1 DEF CapRecords
<1>4. CapHolds(y)
  BY <1>1, <1>2 DEF CapRecords, CapHolds
<1>5. CapStreams(y)
  BY <1>1, <1>2 DEF CapRecords, CapHolds, CapStreams
<1>6. CapPublishes(y)
  BY <1>1, <1>2 DEF CapRecords, CapHolds, CapStreams, CapPublishes
<1> QED
  BY <1>3, <1>4, <1>5, <1>6 DEF CapOK

\* Its stream begins with the file header.
LEMMA ActivatesOK ==
  ASSUME NEW x, CapOK(x), x.at = "activate"
  PROVE  CapOK([x EXCEPT !.at = "read", !.stream = 1])
<1>1. PICK by : x \in CapRecords(by)
  BY DEF CapOK
<1>2. CapHolds(x) /\ CapStreams(x) /\ CapPublishes(x) /\ MaxStream \in Nat \ {0} /\ MaxPackets \in Nat
  BY NetworkToolAssumption DEF CapOK
<1> DEFINE y == [x EXCEPT !.at = "read", !.stream = 1]
<1>3. y \in CapRecords(by)
  BY <1>1 DEF CapRecords
<1>4. CapHolds(y)
  BY <1>1, <1>2 DEF CapRecords, CapHolds
<1>5. CapStreams(y)
  BY <1>1, <1>2 DEF CapRecords, CapHolds, CapStreams
<1>6. CapPublishes(y)
  BY <1>1, <1>2 DEF CapRecords, CapHolds, CapStreams, CapPublishes
<1> QED
  BY <1>3, <1>4, <1>5, <1>6 DEF CapOK

\* A step fails: what it holds is given up on the way from there.
LEMMA FailsOK ==
  ASSUME NEW x, CapOK(x), 
         x.at \in {"open", "activate", "read", "publish", "write", "rename"}, NEW step,
         step = IF x.at = "open" THEN "retire"
                ELSE IF x.at \in {"activate", "read"} THEN "close" ELSE "settle",
         NEW e \in {"capture_failed", "unsupported", "cancelled", "io"},
         x.at \in {"write", "rename"} => e = "io"
  PROVE  CapOK([x EXCEPT !.at = step, !.err = e])
<1>1. PICK by : x \in CapRecords(by)
  BY DEF CapOK
<1>2. CapHolds(x) /\ CapStreams(x) /\ CapPublishes(x) /\ MaxStream \in Nat \ {0} /\ MaxPackets \in Nat
  BY NetworkToolAssumption DEF CapOK
<1> DEFINE y == [x EXCEPT !.at = step, !.err = e]
<1>3. y \in CapRecords(by)
  BY <1>1 DEF CapRecords
<1>4. CapHolds(y)
  BY <1>1, <1>2 DEF CapRecords, CapHolds
<1>5. CapStreams(y)
  BY <1>1, <1>2 DEF CapRecords, CapHolds, CapStreams
<1>6. CapPublishes(y)
  BY <1>1, <1>2 DEF CapRecords, CapHolds, CapStreams, CapPublishes
<1> QED
  BY <1>3, <1>4, <1>5, <1>6 DEF CapOK

\* The device ends, or a bound does.
LEMMA EndsOK ==
  ASSUME NEW x, CapOK(x), x.at = "read"
  PROVE  CapOK([x EXCEPT !.at = "close"])
<1>1. PICK by : x \in CapRecords(by)
  BY DEF CapOK
<1>2. CapHolds(x) /\ CapStreams(x) /\ CapPublishes(x) /\ MaxStream \in Nat \ {0} /\ MaxPackets \in Nat
  BY NetworkToolAssumption DEF CapOK
<1> DEFINE y == [x EXCEPT !.at = "close"]
<1>3. y \in CapRecords(by)
  BY <1>1 DEF CapRecords
<1>4. CapHolds(y)
  BY <1>1, <1>2 DEF CapRecords, CapHolds
<1>5. CapStreams(y)
  BY <1>1, <1>2 DEF CapRecords, CapHolds, CapStreams
<1>6. CapPublishes(y)
  BY <1>1, <1>2 DEF CapRecords, CapHolds, CapStreams, CapPublishes
<1> QED
  BY <1>3, <1>4, <1>5, <1>6 DEF CapOK

\* A packet and its record header join the stream within both bounds.
LEMMA TakesOK ==
  ASSUME NEW x, CapOK(x), x.at = "read", NEW len \in Nat,
         x.packets < MaxPackets, x.stream + 1 + len <= MaxStream
  PROVE  CapOK([x EXCEPT !.packets = x.packets + 1, !.stream = x.stream + 1 + len])
<1>1. PICK by : x \in CapRecords(by)
  BY DEF CapOK
<1>2. CapHolds(x) /\ CapStreams(x) /\ CapPublishes(x) /\ MaxStream \in Nat \ {0} /\ MaxPackets \in Nat
  BY NetworkToolAssumption DEF CapOK
<1> DEFINE y == [x EXCEPT !.packets = x.packets + 1, !.stream = x.stream + 1 + len]
<1>0. x.packets + 1 \in Nat /\ x.stream + 1 + len \in Nat
  BY <1>1 DEF CapRecords
<1>3. y \in CapRecords(by)
  BY <1>1, <1>0 DEF CapRecords
<1>4. CapHolds(y)
  BY <1>1, <1>2 DEF CapRecords, CapHolds
<1>5. CapStreams(y)
  BY <1>1, <1>2 DEF CapRecords, CapHolds, CapStreams
<1>6. CapPublishes(y)
  BY <1>1, <1>2 DEF CapRecords, CapHolds, CapStreams, CapPublishes
<1> QED
  BY <1>3, <1>4, <1>5, <1>6 DEF CapOK

\* The device closes, with its cleanup verified or not.
LEMMA ClosesOK ==
  ASSUME NEW x, CapOK(x), x.at = "close", NEW v \in BOOLEAN
  PROVE  CapOK([x EXCEPT !.open = FALSE, !.verified = v, !.at = "retire"])
<1>1. PICK by : x \in CapRecords(by)
  BY DEF CapOK
<1>2. CapHolds(x) /\ CapStreams(x) /\ CapPublishes(x) /\ MaxStream \in Nat \ {0} /\ MaxPackets \in Nat
  BY NetworkToolAssumption DEF CapOK
<1> DEFINE y == [x EXCEPT !.open = FALSE, !.verified = v, !.at = "retire"]
<1>3. y \in CapRecords(by)
  BY <1>1 DEF CapRecords
<1>4. CapHolds(y)
  BY <1>1, <1>2 DEF CapRecords, CapHolds
<1>5. CapStreams(y)
  BY <1>1, <1>2 DEF CapRecords, CapHolds, CapStreams
<1>6. CapPublishes(y)
  BY <1>1, <1>2 DEF CapRecords, CapHolds, CapStreams, CapPublishes
<1> QED
  BY <1>3, <1>4, <1>5, <1>6 DEF CapOK

\* It leaves the registry.
LEMMA RetiresOK ==
  ASSUME NEW x, CapOK(x), x.at = "retire"
  PROVE  CapOK([x EXCEPT !.reg = FALSE, !.at = IF x.err = "ok" THEN "publish" ELSE "settle"])
<1>1. PICK by : x \in CapRecords(by)
  BY DEF CapOK
<1>2. CapHolds(x) /\ CapStreams(x) /\ CapPublishes(x) /\ MaxStream \in Nat \ {0} /\ MaxPackets \in Nat
  BY NetworkToolAssumption DEF CapOK
<1> DEFINE y == [x EXCEPT !.reg = FALSE, !.at = IF x.err = "ok" THEN "publish" ELSE "settle"]
<1>3. y \in CapRecords(by)
  BY <1>1 DEF CapRecords
<1>4. CapHolds(y)
  BY <1>1, <1>2 DEF CapRecords, CapHolds
<1>5. CapStreams(y)
  BY <1>1, <1>2 DEF CapRecords, CapHolds, CapStreams
<1>6. CapPublishes(y)
  BY <1>1, <1>2 DEF CapRecords, CapHolds, CapStreams, CapPublishes
<1> QED
  BY <1>3, <1>4, <1>5, <1>6 DEF CapOK

\* The stream is published,
LEMMA PublishesOK ==
  ASSUME NEW x, CapOK(x), x.at = "publish", ~x.cancel
  PROVE  CapOK([x EXCEPT !.ref = x.stream, !.committed = TRUE,
                           !.at = IF x.persist THEN "write" ELSE "settle"])
<1>1. PICK by : x \in CapRecords(by)
  BY DEF CapOK
<1>2. CapHolds(x) /\ CapStreams(x) /\ CapPublishes(x) /\ MaxStream \in Nat \ {0} /\ MaxPackets \in Nat
  BY NetworkToolAssumption DEF CapOK
<1> DEFINE y == [x EXCEPT !.ref = x.stream, !.committed = TRUE,
                           !.at = IF x.persist THEN "write" ELSE "settle"]
<1>3. y \in CapRecords(by)
  BY <1>1 DEF CapRecords
<1>4. CapHolds(y)
  BY <1>1, <1>2 DEF CapRecords, CapHolds
<1>5. CapStreams(y)
  BY <1>1, <1>2 DEF CapRecords, CapHolds, CapStreams
<1>6. CapPublishes(y)
  BY <1>1, <1>2 DEF CapRecords, CapHolds, CapStreams, CapPublishes
<1> QED
  BY <1>3, <1>4, <1>5, <1>6 DEF CapOK

\* or its publication is reported failed, whether it took effect or not.
LEMMA LandsOK ==
  ASSUME NEW x, CapOK(x), x.at = "publish", NEW ref \in {0, x.stream}
  PROVE  CapOK([x EXCEPT !.ref = ref, !.err = "io", !.at = "settle"])
<1>1. PICK by : x \in CapRecords(by)
  BY DEF CapOK
<1>2. CapHolds(x) /\ CapStreams(x) /\ CapPublishes(x) /\ MaxStream \in Nat \ {0} /\ MaxPackets \in Nat
  BY NetworkToolAssumption DEF CapOK
<1> DEFINE y == [x EXCEPT !.ref = ref, !.err = "io", !.at = "settle"]
<1>0. ref \in Nat
  BY <1>1 DEF CapRecords
<1>3. y \in CapRecords(by)
  BY <1>0, <1>1 DEF CapRecords
<1>4. CapHolds(y)
  BY <1>1, <1>2 DEF CapRecords, CapHolds
<1>5. CapStreams(y)
  BY <1>1, <1>2 DEF CapRecords, CapHolds, CapStreams
<1>6. CapPublishes(y)
  BY <1>1, <1>2 DEF CapRecords, CapHolds, CapStreams, CapPublishes
<1> QED
  BY <1>3, <1>4, <1>5, <1>6 DEF CapOK

\* It is written beside its destination,
LEMMA WritesOK ==
  ASSUME NEW x, CapOK(x), x.at = "write"
  PROVE  CapOK([x EXCEPT !.at = "rename"])
<1>1. PICK by : x \in CapRecords(by)
  BY DEF CapOK
<1>2. CapHolds(x) /\ CapStreams(x) /\ CapPublishes(x) /\ MaxStream \in Nat \ {0} /\ MaxPackets \in Nat
  BY NetworkToolAssumption DEF CapOK
<1> DEFINE y == [x EXCEPT !.at = "rename"]
<1>3. y \in CapRecords(by)
  BY <1>1 DEF CapRecords
<1>4. CapHolds(y)
  BY <1>1, <1>2 DEF CapRecords, CapHolds
<1>5. CapStreams(y)
  BY <1>1, <1>2 DEF CapRecords, CapHolds, CapStreams
<1>6. CapPublishes(y)
  BY <1>1, <1>2 DEF CapRecords, CapHolds, CapStreams, CapPublishes
<1> QED
  BY <1>3, <1>4, <1>5, <1>6 DEF CapOK

\* and renamed into place.
LEMMA RenamesOK ==
  ASSUME NEW x, CapOK(x), x.at = "rename", NEW e \in {"ok", "io"}
  PROVE  CapOK([x EXCEPT !.dest = "whole", !.err = e, !.at = "settle"])
<1>1. PICK by : x \in CapRecords(by)
  BY DEF CapOK
<1>2. CapHolds(x) /\ CapStreams(x) /\ CapPublishes(x) /\ MaxStream \in Nat \ {0} /\ MaxPackets \in Nat
  BY NetworkToolAssumption DEF CapOK
<1> DEFINE y == [x EXCEPT !.dest = "whole", !.err = e, !.at = "settle"]
<1>3. y \in CapRecords(by)
  BY <1>1 DEF CapRecords
<1>4. CapHolds(y)
  BY <1>1, <1>2 DEF CapRecords, CapHolds
<1>5. CapStreams(y)
  BY <1>1, <1>2 DEF CapRecords, CapHolds, CapStreams
<1>6. CapPublishes(y)
  BY <1>1, <1>2 DEF CapRecords, CapHolds, CapStreams, CapPublishes
<1> QED
  BY <1>3, <1>4, <1>5, <1>6 DEF CapOK

\* The Task ends as its driver or its canceller says.
LEMMA SettlesOK ==
  ASSUME NEW x, CapOK(x), x.at = "settle",
         NEW end \in {"completed", "failed", "cancelled", "interrupted"},
         end = "completed" => x.err = "ok",
         end = "cancelled" => x.cancel \/ x.err = "cancelled"
  PROVE  CapOK([x EXCEPT !.at = "none", !.task = end])
<1>1. PICK by : x \in CapRecords(by)
  BY DEF CapOK
<1>2. CapHolds(x) /\ CapStreams(x) /\ CapPublishes(x) /\ MaxStream \in Nat \ {0} /\ MaxPackets \in Nat
  BY NetworkToolAssumption DEF CapOK
<1> DEFINE y == [x EXCEPT !.at = "none", !.task = end]
<1>3. y \in CapRecords(by)
  BY <1>1 DEF CapRecords
<1>4. CapHolds(y)
  BY <1>1, <1>2 DEF CapRecords, CapHolds
<1>5. CapStreams(y)
  BY <1>1, <1>2 DEF CapRecords, CapHolds, CapStreams
<1>6. CapPublishes(y)
  BY <1>1, <1>2 DEF CapRecords, CapHolds, CapStreams, CapPublishes
<1> QED
  BY <1>3, <1>4, <1>5, <1>6 DEF CapOK

\* A cancellation or a stop request is noted.
LEMMA AsksOK ==
  ASSUME NEW x, CapOK(x), NEW c \in BOOLEAN, NEW s \in BOOLEAN,
         x.committed => c = x.cancel
  PROVE  CapOK([x EXCEPT !.cancel = c, !.stop = s])
<1>1. PICK by : x \in CapRecords(by)
  BY DEF CapOK
<1>2. CapHolds(x) /\ CapStreams(x) /\ CapPublishes(x) /\ MaxStream \in Nat \ {0} /\ MaxPackets \in Nat
  BY NetworkToolAssumption DEF CapOK
<1> DEFINE y == [x EXCEPT !.cancel = c, !.stop = s]
<1>3. y \in CapRecords(by)
  BY <1>1 DEF CapRecords
<1>4. CapHolds(y)
  BY <1>1, <1>2 DEF CapRecords, CapHolds
<1>5. CapStreams(y)
  BY <1>1, <1>2 DEF CapRecords, CapHolds, CapStreams
<1>6. CapPublishes(y)
  BY <1>1, <1>2 DEF CapRecords, CapHolds, CapStreams, CapPublishes
<1> QED
  BY <1>3, <1>4, <1>5, <1>6 DEF CapOK

\* A capture is admitted, and its Task is started or found cancelled.
LEMMA CapBegins ==
  ASSUME CapInv, CapAdmit \/ CapStart
  PROVE  CapInv'
<1>0. MaxStream \in Nat \ {0} /\ MaxPackets \in Nat
  BY NetworkToolAssumption
<1>1. CASE CapAdmit
  <2>1. PICK by : \E p \in BOOLEAN : ntCap' = [NoCap EXCEPT !.task = "queued", !.by = by, !.persist = p]
    BY <1>1 DEF CapAdmit
  <2>2. PICK p \in BOOLEAN : ntCap' = [NoCap EXCEPT !.task = "queued", !.by = by, !.persist = p]
    BY <2>1
  <2>3. ntCap' \in CapRecords(by)
    BY <2>2 DEF NoCap, CapRecords
  <2>4. CapHolds(ntCap') /\ CapStreams(ntCap') /\ CapPublishes(ntCap')
    BY <1>0, <2>2 DEF NoCap, CapHolds, CapStreams, CapPublishes
  <2> QED
    BY <2>3, <2>4 DEF CapInv, CapOK
<1>2. CASE CapStart
  <2>1. PICK by : ntCap \in CapRecords(by)
    BY DEF CapInv, CapOK
  <2>2. CapHolds(ntCap) /\ CapStreams(ntCap) /\ CapPublishes(ntCap)
    BY DEF CapInv, CapOK
  <2>3. ntCap' \in CapRecords(by)
    BY <1>2, <2>1 DEF CapStart, CapRecords
  <2>4. CapHolds(ntCap')
    BY <1>0, <1>2, <2>1, <2>2 DEF CapStart, CapRecords, CapHolds
  <2>5. CapStreams(ntCap')
    BY <1>0, <1>2, <2>1, <2>2 DEF CapStart, CapRecords, CapHolds, CapStreams
  <2>6. CapPublishes(ntCap')
    BY <1>0, <1>2, <2>1, <2>2 DEF CapStart, CapRecords, CapHolds, CapPublishes
  <2> QED
    BY <2>3, <2>4, <2>5, <2>6 DEF CapInv, CapOK
<1> QED
  BY <1>1, <1>2

\* The steps up to the end of the device.
LEMMA CapWorks ==
  ASSUME CapInv, CapRegister \/ CapOpen \/ CapActivate \/ CapRead
  PROVE  CapInv'
<1>1. CapOK(ntCap) /\ ntCap.packets \in Nat /\ ntCap.stream \in Nat
  BY DEF CapInv, CapOK, CapRecords
<1>2. CASE CapRegister
  BY <1>1, <1>2, RegistersOK DEF CapRegister, CapInv
<1>3. CASE CapOpen
  <2>1. ntCap.at = "open"
    BY <1>3 DEF CapOpen
  <2>2. \/ ntCap' = [ntCap EXCEPT !.open = TRUE, !.at = "activate"]
        \/ ntCap' = [ntCap EXCEPT !.at = "retire", !.err = "capture_failed"]
    BY <1>3 DEF CapOpen, CapFails
  <2>3. CapOK([ntCap EXCEPT !.at = "retire", !.err = "capture_failed"])
    BY <1>1, <2>1, FailsOK
  <2> QED
    BY <1>1, <2>1, <2>2, <2>3, OpensOK DEF CapInv
<1>4. CASE CapActivate
  <2>1. ntCap.at = "activate"
    BY <1>4 DEF CapActivate
  <2>2. \/ ntCap' = [ntCap EXCEPT !.at = "read", !.stream = 1]
        \/ \E e \in {"capture_failed", "unsupported"} : ntCap' = [ntCap EXCEPT !.at = "close", !.err = e]
    BY <1>4 DEF CapActivate, CapFails
  <2>3. \A e \in {"capture_failed", "unsupported"} : CapOK([ntCap EXCEPT !.at = "close", !.err = e])
    BY <1>1, <2>1, FailsOK
  <2> QED
    BY <1>1, <2>1, <2>2, <2>3, ActivatesOK DEF CapInv
<1>5. CASE CapRead
  <2>1. ntCap.at = "read"
    BY <1>5 DEF CapRead
  <2>2. \/ \E e \in {"cancelled", "capture_failed"} : ntCap' = [ntCap EXCEPT !.at = "close", !.err = e]
        \/ ntCap' = [ntCap EXCEPT !.at = "close"]
        \/ \E len \in 0..2 :
             /\ admits(len)
             /\ ntCap' = [ntCap EXCEPT !.packets = ntCap.packets + 1, !.stream = ntCap.stream + 1 + len]
    BY <1>5 DEF CapRead, CapFails, CapTo
  <2>3. CASE \E e \in {"cancelled", "capture_failed"} : ntCap' = [ntCap EXCEPT !.at = "close", !.err = e]
    <3>1. \A e \in {"cancelled", "capture_failed"} : CapOK([ntCap EXCEPT !.at = "close", !.err = e])
      BY <1>1, <2>1, FailsOK
    <3> QED
      BY <2>3, <3>1 DEF CapInv
  <2>4. CASE ntCap' = [ntCap EXCEPT !.at = "close"]
    BY <1>1, <2>1, <2>4, EndsOK DEF CapInv
  <2>5. ASSUME NEW len \in 0..2, admits(len),
               ntCap' = [ntCap EXCEPT !.packets = ntCap.packets + 1, !.stream = ntCap.stream + 1 + len]
        PROVE  CapInv'
    <3>1. len \in Nat /\ ntCap.packets < MaxPackets /\ ntCap.stream + 1 + len <= MaxStream
      BY <2>5 DEF admits
    <3>2. CapOK([ntCap EXCEPT !.packets = ntCap.packets + 1, !.stream = ntCap.stream + 1 + len])
      BY <1>1, <2>1, <3>1, TakesOK
    <3> QED
      BY <2>5, <3>2 DEF CapInv
  <2> QED
    BY <2>2, <2>3, <2>4, <2>5
<1> QED
  BY <1>2, <1>3, <1>4, <1>5

\* The steps that give up the device, publish, and end the Task.
LEMMA CapFinishes ==
  ASSUME CapInv, CapClose \/ CapRetire \/ CapPublish \/ CapWrite \/ CapRename \/ CapSettle
  PROVE  CapInv'
<1>1. CapOK(ntCap)
  BY DEF CapInv
<1>0. ntCap.verified \in BOOLEAN /\ (\E by : ntCap \in CapRecords(by)) /\ CapHolds(ntCap)
  BY DEF CapInv, CapOK, CapRecords
<1>2. CASE CapClose
  <2>1. ntCap.at = "close"
    BY <1>2 DEF CapClose
  <2>2. [ntCap EXCEPT !.open = FALSE, !.at = "retire"]
          = [ntCap EXCEPT !.open = FALSE, !.verified = ntCap.verified, !.at = "retire"]
    BY <1>0 DEF CapRecords
  <2>3. \E v \in BOOLEAN : ntCap' = [ntCap EXCEPT !.open = FALSE, !.verified = v, !.at = "retire"]
    BY <1>0, <1>2, <2>2 DEF CapClose
  <2>4. \A v \in BOOLEAN : CapOK([ntCap EXCEPT !.open = FALSE, !.verified = v, !.at = "retire"])
    BY <1>1, <2>1, ClosesOK
  <2> QED
    BY <2>3, <2>4 DEF CapInv
<1>3. CASE CapRetire
  BY <1>1, <1>3, RetiresOK DEF CapRetire, CapInv
<1>4. CASE CapPublish
  <2>1. ntCap.at = "publish"
    BY <1>4 DEF CapPublish
  <2>2. \/ ntCap' = [ntCap EXCEPT !.at = "settle", !.err = "cancelled"]
        \/ /\ ~ntCap.cancel
           /\ ntCap' = [ntCap EXCEPT !.ref = ntCap.stream, !.committed = TRUE,
                                     !.at = IF ntCap.persist THEN "write" ELSE "settle"]
        \/ \E ref \in {0, ntCap.stream} :
             ntCap' = [ntCap EXCEPT !.ref = ref, !.err = "io", !.at = "settle"]
    BY <1>4 DEF CapPublish, CapFails
  <2>3. CapOK([ntCap EXCEPT !.at = "settle", !.err = "cancelled"])
    BY <1>1, <2>1, FailsOK
  <2>4. \A ref \in {0, ntCap.stream} :
          CapOK([ntCap EXCEPT !.ref = ref, !.err = "io", !.at = "settle"])
    BY <1>1, <2>1, LandsOK
  <2> QED
    BY <1>1, <2>1, <2>2, <2>3, <2>4, PublishesOK DEF CapInv
<1>5. CASE CapWrite
  <2>1. ntCap.at = "write"
    BY <1>5 DEF CapWrite
  <2>2. \/ ntCap' = [ntCap EXCEPT !.at = "rename"]
        \/ ntCap' = [ntCap EXCEPT !.at = "settle", !.err = "io"]
    BY <1>5 DEF CapWrite, CapFails, CapTo
  <2>3. CapOK([ntCap EXCEPT !.at = "settle", !.err = "io"])
    BY <1>1, <2>1, FailsOK
  <2> QED
    BY <1>1, <2>1, <2>2, <2>3, WritesOK DEF CapInv
<1>6. CASE CapRename
  <2>1. ntCap.at = "rename" /\ ntCap.err = "ok"
    BY <1>0, <1>6 DEF CapRename, CapHolds
  <2>2. [ntCap EXCEPT !.dest = "whole", !.at = "settle"]
          = [ntCap EXCEPT !.dest = "whole", !.err = "ok", !.at = "settle"]
    BY <1>0, <2>1 DEF CapRecords
  <2>3. \/ \E e \in {"ok", "io"} : ntCap' = [ntCap EXCEPT !.dest = "whole", !.err = e, !.at = "settle"]
        \/ ntCap' = [ntCap EXCEPT !.at = "settle", !.err = "io"]
    BY <1>6, <2>2 DEF CapRename, CapFails
  <2>4. CapOK([ntCap EXCEPT !.at = "settle", !.err = "io"])
    BY <1>1, <2>1, FailsOK
  <2>5. \A e \in {"ok", "io"} : CapOK([ntCap EXCEPT !.dest = "whole", !.err = e, !.at = "settle"])
    BY <1>1, <2>1, RenamesOK
  <2> QED
    BY <2>3, <2>4, <2>5 DEF CapInv
<1>7. CASE CapSettle
  <2>1. ntCap.at = "settle"
    BY <1>7 DEF CapSettle
  <2>2. PICK end \in CapEnds : ntCap' = [ntCap EXCEPT !.at = "none", !.task = end]
    BY <1>7 DEF CapSettle
  <2>3. /\ end \in {"completed", "failed", "cancelled", "interrupted"}
        /\ end = "completed" => ntCap.err = "ok"
        /\ end = "cancelled" => ntCap.cancel \/ ntCap.err = "cancelled"
    BY <2>2 DEF CapEnds, CapOutcome
  <2> QED
    BY <1>1, <2>1, <2>2, <2>3, SettlesOK DEF CapInv
<1> QED
  BY <1>2, <1>3, <1>4, <1>5, <1>6, <1>7

\* The Task is cancelled, or its capture asked to stop.
LEMMA CapAsked ==
  ASSUME CapInv, CapCancel \/ StopAsk
  PROVE  CapInv'
<1>1. CapOK(ntCap)
  BY DEF CapInv
<1>2. PICK by : ntCap \in CapRecords(by)
  BY DEF CapInv, CapOK
<1>3. CASE CapCancel
  <2>1. /\ ntCap' = [ntCap EXCEPT !.cancel = TRUE, !.stop = ntCap.stop] /\ ntCap.stop \in BOOLEAN
        /\ ~ntCap.committed
    BY <1>2, <1>3 DEF CapCancel, CapRecords
  <2> QED
    BY <1>1, <2>1, AsksOK DEF CapInv
<1>4. CASE StopAsk
  <2>1. /\ ntCap' = [ntCap EXCEPT !.cancel = ntCap.cancel, !.stop = ntCap.stop \/ ntCap.reg]
        /\ ntCap.cancel \in BOOLEAN /\ (ntCap.stop \/ ntCap.reg) \in BOOLEAN
    BY <1>2, <1>4 DEF StopAsk, CapRecords
  <2> QED
    BY <1>1, <2>1, AsksOK DEF CapInv
<1> QED
  BY <1>3, <1>4

\* The network tool keeps the invariant of its capture Task for every frame, row, packet
\* and stream bound and any number of failed operations.
THEOREM CaptureInductive == NtSpec => []CapInv
<1>1. NtInit => CapInv
  <2> SUFFICES ASSUME NtInit PROVE CapInv
    OBVIOUS
  <2>1. MaxStream \in Nat /\ MaxPackets \in Nat /\ ntCap = NoCap
    BY NetworkToolAssumption DEF NtInit
  <2>2. ntCap \in CapRecords(NoExecutor)
    BY <2>1 DEF NoCap, CapRecords
  <2> QED
    BY <2>1, <2>2 DEF CapInv, CapOK, NoCap, CapHolds, CapStreams, CapPublishes
<1>2. CapInv /\ [NtNext]_ntVars => CapInv'
  <2> SUFFICES ASSUME CapInv, [NtNext]_ntVars PROVE CapInv'
    OBVIOUS
  <2>1. CASE UNCHANGED ntCap
    BY <2>1 DEF CapInv
  <2>2. CASE NtSubmit \/ NtStart \/ NtDecode \/ NtBuild \/ NtInspect \/ NtFit \/ NtDiagnose \/ NtPage
               \/ NtInject \/ NtCancel \/ StopCall \/ StopPoll \/ NtChange
    <3>1. UNCHANGED ntCap
      BY <2>2 DEF NtSubmit, NtStart, NtDecode, NtBuild, NtInspect, NtFit, NtDiagnose, NtPage, NtInject,
                  NtCancel, StopCall, StopPoll, NtChange, NtRest
    <3> QED
      BY <2>1, <3>1
  <2> QED
    BY <2>1, <2>2, CapBegins, CapWorks, CapFinishes, CapAsked DEF NtNext, ntVars
<1> QED
  BY <1>1, <1>2, PTL DEF NtSpec

\* A completed capture has published one whole stream within its bounds; a cancelled one has
\* written no file, and has an artifact only if its publication took effect and was reported
\* failed; and none that is over keeps its device or its place in the registry.
THEOREM CapturesSettle == NtSpec => []CaptureSettles
<1>1. CapInv => CaptureSettles
  <2> SUFFICES ASSUME CapInv PROVE CaptureSettles
    OBVIOUS
  <2>1. PICK by : ntCap \in CapRecords(by)
    BY DEF CapInv, CapOK
  <2>2. CapHolds(ntCap) /\ CapStreams(ntCap) /\ CapPublishes(ntCap)
    BY DEF CapInv, CapOK
  <2>3. /\ ntCap.stream <= MaxStream /\ ntCap.packets <= MaxPackets
        /\ CapEnded => ~ntCap.open /\ ~ntCap.reg
    BY <2>1, <2>2 DEF CapEnded, CapHolds, CapStreams, CapRecords
  <2>4. ntCap.task = "completed" => /\ ntCap.ref = ntCap.stream /\ ntCap.ref >= 1 + ntCap.packets
                                    /\ ntCap.persist => ntCap.dest = "whole"
    BY <2>1, <2>2 DEF CapPublishes, CapRecords
  <2>5. ntCap.task = "cancelled" => /\ ~ntCap.committed /\ ntCap.dest = "none"
                                    /\ ntCap.ref # 0 => ntCap.err = "io"
    BY <2>1, <2>2 DEF CapPublishes, CapRecords
  <2> QED
    BY <2>3, <2>4, <2>5 DEF CaptureSettles
<1> QED
  BY <1>1, CaptureInductive, PTL

(***************************************************************************)
(* The answer of a call.  It is whole for a reason that no step shows by   *)
(* itself: a family is cut to what just fills the frame, so that the ones  *)
(* after it in the same pass keep what they have, and a page of a capture  *)
(* is never empty before its end.  Both rest on what the code's bisection  *)
(* and its sum of rows compute.                                            *)
(***************************************************************************)

\* A set of numbers has a least one.
LEMMA HasLeast ==
  ASSUME NEW I \in SUBSET Nat, I # {}
  PROVE  \E m \in I : \A n \in I : m <= n
<1>1. PICK m \in I : \A n \in I : ~(<<n, m>> \in OpToRel(<, Nat))
  BY WFMin, NatLessThanWellFounded
<1>2. \A n \in I : ~(n < m)
  <2>1. ASSUME NEW n \in I, n < m PROVE <<n, m>> \in OpToRel(<, Nat)
    <3>1. <<n, m>> \in Nat \X Nat
      OBVIOUS
    <3> QED
      BY <2>1, <3>1 DEF OpToRel
  <2> QED
    BY <1>1, <2>1
<1> QED
  BY <1>2

\* What a family adds to an answer that carries the families of P, and what all four add.
Share(c, P, f) == IF f \in P THEN c[f] ELSE 0
Total(c, P) == Share(c, P, "interfaces") + Share(c, P, "routes") + Share(c, P, "dns") + Share(c, P, "sockets")
\* One step of the fold that sums the rows of the families of s.
Chosen(s) == CHOOSE x \in s : TRUE
SumOf(c, g, s) == IF s = {} THEN 0 ELSE c[Chosen(s)] + g[s \ {Chosen(s)}]

\* A total is a number.
LEMMA TotalNat ==
  ASSUME NEW c \in [Families -> Nat], NEW P
  PROVE  Total(c, P) \in Nat
<1>1. \A f \in Families : Share(c, P, f) \in Nat
  BY DEF Share
<1> QED
  BY <1>1 DEF Total, Families

\* A family of the set enters its total once.
LEMMA TotalLess ==
  ASSUME NEW c \in [Families -> Nat], NEW P \in SUBSET Families, NEW x \in P
  PROVE  Total(c, P) = c[x] + Total(c, P \ {x})
<1>1. \A f \in Families : Share(c, P, f) \in Nat
  BY DEF Share
<1>2. \A f \in Families : f # x => Share(c, P \ {x}, f) = Share(c, P, f)
  BY DEF Share
<1>3. Share(c, P, x) = c[x] /\ Share(c, P \ {x}, x) = 0 /\ c[x] \in Nat
  BY DEF Share
<1> QED
  BY <1>1, <1>2, <1>3 DEF Total, Families

\* The fold over the families of a set is their total: it satisfies the recursion, and of two
\* functions that do a smallest set cannot tell one from the other.
LEMMA SumIs ==
  ASSUME NEW c \in [Families -> Nat], NEW P \in SUBSET Families
  PROVE  MapThenSumSet(LAMBDA f : c[f], P) = Total(c, P)
<1> DEFINE w == [s \in SUBSET P |-> Total(c, s)]
           eq(g) == g = [s \in SUBSET P |-> SumOf(c, g, s)]
           sum == CHOOSE g : eq(g)
<1>1. eq(w)
  <2> SUFFICES ASSUME NEW s \in SUBSET P PROVE Total(c, s) = SumOf(c, w, s)
    OBVIOUS
  <2>1. CASE s = {}
    BY <2>1 DEF Total, Share, SumOf
  <2>2. CASE s # {}
    <3>1. Chosen(s) \in s
      BY <2>2 DEF Chosen
    <3>2. Total(c, s) = c[Chosen(s)] + Total(c, s \ {Chosen(s)})
      BY <3>1, TotalLess
    <3> QED
      BY <2>2, <3>1, <3>2 DEF SumOf
  <2> QED
    BY <2>1, <2>2
<1>2. eq(sum)
  BY <1>1
<1>3. MapThenSumSet(LAMBDA f : c[f], P) = sum[P]
  BY DEF MapThenSumSet, MapThenFoldSet, SumOf, Chosen
<1>4. IsFiniteSet(P)
  <2>1. IsFiniteSet({}) /\ IsFiniteSet({} \cup {"interfaces"})
    BY FS_EmptySet, FS_AddElement
  <2>2. IsFiniteSet({} \cup {"interfaces"} \cup {"routes"})
    BY <2>1, FS_AddElement
  <2>3. IsFiniteSet({} \cup {"interfaces"} \cup {"routes"} \cup {"dns"})
    BY <2>2, FS_AddElement
  <2>4. IsFiniteSet({} \cup {"interfaces"} \cup {"routes"} \cup {"dns"} \cup {"sockets"})
    BY <2>3, FS_AddElement
  <2>5. P \subseteq {} \cup {"interfaces"} \cup {"routes"} \cup {"dns"} \cup {"sockets"}
    BY DEF Families
  <2> QED
    BY <2>4, <2>5, FS_Subset
<1>5. \A s \in SUBSET P : sum[s] = SumOf(c, sum, s) /\ w[s] = SumOf(c, w, s)
  BY <1>1, <1>2
<1> HIDE DEF sum, w
<1>6. \A s \in SUBSET P : sum[s] = w[s]
  <2> DEFINE wrong == {s \in SUBSET P : sum[s] # w[s]}
             sizes == {Cardinality(s) : s \in wrong}
  <2> SUFFICES ASSUME wrong # {} PROVE FALSE
    OBVIOUS
  <2>1. \A s \in SUBSET P : IsFiniteSet(s) /\ Cardinality(s) \in Nat
    BY <1>4, FS_Subset, FS_CardinalityType
  <2>2. PICK m \in sizes : \A n \in sizes : m <= n
    <3>1. sizes \in SUBSET Nat /\ sizes # {}
      BY <2>1
    <3> HIDE DEF sizes
    <3> QED
      BY <3>1, HasLeast
  <2>3. PICK s \in wrong : Cardinality(s) = m
    BY <2>2
  <2>4. s # {}
    BY <1>5, <2>3 DEF SumOf
  <2>5. Chosen(s) \in s
    BY <2>4 DEF Chosen
  <2> DEFINE t == s \ {Chosen(s)}
  <2>6. t \in SUBSET P /\ Cardinality(t) = Cardinality(s) - 1
    BY <2>1, <2>5, FS_RemoveElement
  <2>7. t \notin wrong
    <3>1. ~(Cardinality(s) <= Cardinality(t))
      BY <2>1, <2>6
    <3> QED
      BY <2>2, <2>3, <3>1
  <2> QED
    BY <1>5, <2>4, <2>6, <2>7 DEF SumOf
<1> QED
  BY <1>3, <1>6 DEF w

\* largest_fitting finds the bound by bisection.
Capped(r, k) == IF r[1] >= r[2] \/ k <= r[1] THEN r[1] ELSE IF r[2] <= k THEN r[2] ELSE k
Middle(r) == r[1] + (r[2] - r[1] + 1) \div 2
Halves(g, fitting, r) ==
  IF r[1] >= r[2] THEN r[1]
  ELSE IF Middle(r) \in fitting THEN g[<<Middle(r), r[2]>>]
  ELSE g[<<r[1], Middle(r) - 1>>]

\* The middle lies above the lower end of an interval and not above its upper one.
LEMMA MiddleIs ==
  ASSUME NEW a \in Nat, NEW b \in Nat, a < b
  PROVE  Middle(<<a, b>>) \in Nat /\ a < Middle(<<a, b>>) /\ Middle(<<a, b>>) <= b
BY DEF Middle

\* The bisection finds the largest number that fits, or the whole interval.
LEMMA FittingIs ==
  ASSUME NEW upper \in Nat, NEW k \in Nat
  PROVE  largest_fitting(upper, {n \in 0..upper : n <= k}) = {IF upper <= k THEN upper ELSE k}
<1> DEFINE fits == {n \in 0..upper : n <= k}
           D == (0..upper) \X (0..upper)
           w == [r \in D |-> Capped(r, k)]
           eq(g) == g = [r \in D |-> Halves(g, fits, r)]
           bis == CHOOSE g : eq(g)
<1>0. \A a, b \in 0..upper : a < b => /\ Middle(<<a, b>>) \in 0..upper /\ Middle(<<a, b>>) - 1 \in 0..upper
                                     /\ a < Middle(<<a, b>>) /\ Middle(<<a, b>>) <= b
  <2> SUFFICES ASSUME NEW a \in 0..upper, NEW b \in 0..upper, a < b
               PROVE  /\ Middle(<<a, b>>) \in 0..upper /\ Middle(<<a, b>>) - 1 \in 0..upper
                      /\ a < Middle(<<a, b>>) /\ Middle(<<a, b>>) <= b
    OBVIOUS
  <2>1. Middle(<<a, b>>) \in Nat /\ a < Middle(<<a, b>>) /\ Middle(<<a, b>>) <= b
    BY MiddleIs
  <2> HIDE DEF Middle
  <2> QED
    BY <2>1
<1>1. eq(w)
  <2> SUFFICES ASSUME NEW a \in 0..upper, NEW b \in 0..upper
               PROVE  Capped(<<a, b>>, k) = Halves(w, fits, <<a, b>>)
    OBVIOUS
  <2>1. CASE a >= b
    BY <2>1 DEF Capped, Halves
  <2>2. CASE a < b
    <3>1. PICK m \in 0..upper : m = Middle(<<a, b>>) /\ a < m /\ m <= b /\ m - 1 \in 0..upper
      BY <1>0, <2>2
    <3>2. CASE m <= k
      <4>1. Halves(w, fits, <<a, b>>) = Capped(<<m, b>>, k)
        BY <2>2, <3>1, <3>2 DEF Halves
      <4> QED
        BY <2>2, <3>1, <3>2, <4>1 DEF Capped
    <3>3. CASE ~(m <= k)
      <4>1. Halves(w, fits, <<a, b>>) = Capped(<<a, m - 1>>, k)
        BY <2>2, <3>1, <3>3 DEF Halves
      <4> QED
        BY <2>2, <3>1, <3>3, <4>1 DEF Capped
    <3> QED
      BY <3>2, <3>3
  <2> QED
    BY <2>1, <2>2
<1>2. eq(bis)
  BY <1>1
<1>3. largest_fitting(upper, fits) = {bis[<<0, upper>>]}
  <2>1. 0 \in fits
    OBVIOUS
  <2> QED
    BY <2>1 DEF largest_fitting, Halves, Middle
<1>5. \A r \in D : bis[r] = Halves(bis, fits, r) /\ w[r] = Halves(w, fits, r)
  BY <1>1, <1>2
<1> HIDE DEF bis, w
<1>6. \A r \in D : bis[r] = w[r]
  <2> DEFINE wrong == {r \in D : bis[r] # w[r] /\ r[1] <= r[2]}
             sizes == {r[2] - r[1] : r \in wrong}
  <2>0. \A r \in D : r[1] >= r[2] => bis[r] = w[r]
    BY <1>5 DEF Halves
  <2> SUFFICES ASSUME wrong # {} PROVE FALSE
    BY <2>0
  <2>2. PICK m \in sizes : \A n \in sizes : m <= n
    <3>1. sizes \in SUBSET Nat /\ sizes # {}
      OBVIOUS
    <3> HIDE DEF sizes
    <3> QED
      BY <3>1, HasLeast
  <2>3. PICK r \in wrong : r[2] - r[1] = m
    BY <2>2
  <2>4. PICK a \in 0..upper, b \in 0..upper : r = <<a, b>> /\ a < b
    BY <2>0, <2>3
  <2>5. PICK mid \in 0..upper : mid = Middle(r) /\ a < mid /\ mid <= b /\ mid - 1 \in 0..upper
    BY <1>0, <2>4
  <2>6. <<mid, b>> \notin wrong /\ <<a, mid - 1>> \notin wrong
    <3>1. ~(m <= b - mid) /\ ~(m <= (mid - 1) - a)
      BY <2>3, <2>4, <2>5
    <3>2. b - mid \notin sizes /\ (mid - 1) - a \notin sizes
      BY <2>2, <3>1
    <3> QED
      BY <3>2
  <2>7. bis[<<mid, b>>] = w[<<mid, b>>] /\ bis[<<a, mid - 1>>] = w[<<a, mid - 1>>]
    BY <2>4, <2>5, <2>6
  <2> QED
    BY <1>5, <2>3, <2>4, <2>5, <2>7 DEF Halves
<1>7. bis[<<0, upper>>] = Capped(<<0, upper>>, k)
  BY <1>6 DEF w
<1> QED
  BY <1>3, <1>7 DEF Capped

\* How a call may end.
CallErrors == {"ok", "invalid", "unavailable", "stale", "cancelled", "notfound", "io", "resource_limit"}

RowCounts == [Families -> Nat]
FamilyReads == [Families -> {Unread} \cup [n : Nat, truncated : BOOLEAN]]
Cursors == 0..MaxPackets

\* The fields of a call, for one executor and one source plan.
CallRecords(by, plan) ==
  [phase : {"idle", "admitted", "page", "inline", "inject", "inspect", "fit", "diagnose", "done"},
   call : NtCalls, by : {by}, rows : RowCounts, read : FamilyReads, counts : RowCounts, at : 0..5, progressed : BOOLEAN, plan : {plan}, seen : Nat,
   cursor : Cursors, sent : Nat, open : BOOLEAN, verified : BOOLEAN, cancel : BOOLEAN,
   err : CallErrors]

\* Which call stands at which step.
CallAt(x) ==
  /\ x.phase = "admitted" => x.call.op # "invalid"
  /\ x.phase = "page" => x.call.op = "read"
  /\ x.phase \in {"inspect", "fit"} => x.call.op = "inspect"
  /\ x.phase \in {"inline", "inject", "diagnose"} => x.call.op \notin {"read", "inspect"}

\* A reader has seen what lies before its cursor, and ends at the last packet.
CallPages(x) ==
  /\ x.seen = x.cursor
  /\ x.phase = "done" /\ x.err = "ok" /\ x.call.op = "read" => x.cursor = MaxPackets

\* The families an answer carries, and the rows it would like to carry of one.
Present(x) == {f \in Families : x.read[f] # Unread}
Wanted(x, f) == Min({x.read[f].n, x.call.limit})

\* A family is cut below what it would carry only when the frame is then full.
CallFits(x) ==
  /\ \A f \in Present(x) : /\ x.counts[f] <= Wanted(x, f)
                           /\ ~x.read[f].truncated => x.read[f].n = x.rows[f]
  /\ (\E f \in Present(x) : x.counts[f] < Wanted(x, f)) => 1 + Total(x.counts, Present(x)) = Frame

CallOK(x) ==
  /\ \E by, plan : x \in CallRecords(by, plan)
  /\ CallAt(x) /\ CallPages(x)
  /\ x.phase = "fit" => CallFits(x)
  /\ x.phase = "done" /\ x.err = "ok" /\ x.call.op = "inspect" =>
       CallFits(x) /\ 1 + Total(x.counts, Present(x)) <= Frame
CallInv == CallOK(ntCall)

\* The answer's units, for an answer that carries the families of P.
LEMMA EncodedIs ==
  ASSUME NEW c \in [Families -> Nat]
  PROVE  Encoded(c) = 1 + Total(c, Present(ntCall))
<1>1. Present(ntCall) = {f \in Families : is_present(f)} /\ Present(ntCall) \in SUBSET Families
  BY DEF Present, is_present
<1>2. MapThenSumSet(LAMBDA f : c[f], {f \in Families : is_present(f)}) = Total(c, Present(ntCall))
  BY <1>1, SumIs
<1> QED
  BY <1>2 DEF Encoded

\* A family's count enters the total as it is.
LEMMA TotalWith ==
  ASSUME NEW c \in [Families -> Nat], NEW P \in SUBSET Families, NEW f \in P, NEW n \in Nat
  PROVE  Total([c EXCEPT ![f] = n], P) = Total(c, P \ {f}) + n
<1> DEFINE d == [c EXCEPT ![f] = n]
<1>1. d \in [Families -> Nat] /\ d[f] = n
  BY DEF Families
<1>2. Total(d, P) = d[f] + Total(d, P \ {f})
  BY <1>1, TotalLess
<1>3. \A g \in Families : Share(d, P \ {f}, g) = Share(c, P \ {f}, g)
  BY DEF Share
<1>4. Total(d, P \ {f}) = Total(c, P \ {f})
  BY <1>3 DEF Total, Families
<1> HIDE DEF d
<1>5. Total(c, P \ {f}) \in Nat
  BY TotalNat
<1> QED
  BY <1>1, <1>2, <1>4, <1>5 DEF d

\* The lesser of two numbers.
LEMMA LesserIs ==
  ASSUME NEW a \in Nat, NEW b \in Nat
  PROVE  Min({a, b}) = IF a <= b THEN a ELSE b
<1> DEFINE m == IF a <= b THEN a ELSE b
<1>1. m \in {a, b} /\ \A y \in {a, b} : m <= y
  OBVIOUS
<1>2. \A x \in {a, b} : (\A y \in {a, b} : x <= y) => x = m
  OBVIOUS
<1> QED
  BY <1>1, <1>2 DEF Min

\* What a call may ask for.
LEMMA CallsAre ==
  ASSUME NEW c \in NtCalls
  PROVE  c.limit \in Nat /\ (c.op \in {"inspect", "read"} => c.limit \in Nat \ {0})
BY NetworkToolAssumption DEF NtCalls, NtCall

\* A family of the App host says that it is truncated when it carries less than its source held.
LEMMA EstablishedIs ==
  ASSUME NEW rows \in Nat, NEW limit \in Nat, NEW cut \in BOOLEAN
  PROVE  /\ established(rows, limit, cut) \in [n : Nat, truncated : BOOLEAN]
         /\ ~established(rows, limit, cut).truncated => established(rows, limit, cut).n = rows
BY DEF established, Row

\* A family is unread, truncated, or has every row of its source.
LEMMA ReadIs ==
  ASSUME NEW ask \in Answers, NEW rows \in [Families -> Nat], NEW c \in NtCalls
  PROVE  /\ ReadAll(ask, rows, c) \in [Families -> {Unread} \cup [n : Nat, truncated : BOOLEAN]]
         /\ \A f \in Families : LET r == ReadAll(ask, rows, c)[f]
                                IN  r # Unread /\ ~r.truncated => r.n = rows[f]
<1>1. c.limit \in Nat
  BY CallsAre
<1> DEFINE Good(r, n) == \/ r = Unread
                         \/ r \in [n : Nat, truncated : BOOLEAN] /\ (~r.truncated => r.n = n)
<1>2. \A f \in Families : \A src : Good(AppRead(f, src, ask, rows[f], c.limit), rows[f])
  <2> SUFFICES ASSUME NEW f \in Families, NEW src
               PROVE  Good(AppRead(f, src, ask, rows[f], c.limit), rows[f])
    OBVIOUS
  <2>1. \A cut \in BOOLEAN : Good(established(rows[f], c.limit, cut), rows[f])
    BY <1>1, EstablishedIs
  <2>2. Good(established(rows[f], c.limit, FALSE), rows[f])
        /\ Good(established(rows[f], c.limit, ask.files = "cut"), rows[f]) /\ Good(Unread, rows[f])
    BY <2>1
  <2> HIDE DEF Good
  <2> QED
    BY <2>2 DEF AppRead, framework_interfaces, framework_routes, supplement_routes, supplement_sockets
<1>3. \A f \in Families : Good(DaemonRead(f, ask, rows[f]), rows[f])
  <2> SUFFICES ASSUME NEW f \in Families PROVE Good(DaemonRead(f, ask, rows[f]), rows[f])
    OBVIOUS
  <2>1. \A cut \in BOOLEAN : Good(Row(rows[f], cut), rows[f])
    BY DEF Row
  <2>2. Good(Row(rows[f], FALSE), rows[f]) /\ Good(Row(rows[f], ask.files = "cut"), rows[f])
        /\ Good(Unread, rows[f])
    BY <2>1
  <2> HIDE DEF Good
  <2> QED
    BY <2>2 DEF DaemonRead, daemon_interfaces, daemon_routes, daemon_dns, daemon_sockets, Families
<1>4. \A f \in Families : Good(ReadAll(ask, rows, c)[f], rows[f])
  <2>1. \A f \in Families : Good(Unread, rows[f])
    OBVIOUS
  <2> HIDE DEF Good
  <2> QED
    BY <1>2, <1>3, <2>1 DEF ReadAll
<1>5. ReadAll(ask, rows, c) = [f \in Families |-> ReadAll(ask, rows, c)[f]]
  BY DEF ReadAll
<1> QED
  BY <1>4, <1>5

\* A call that fails, or ends without being a read or an inspection, keeps the invariant.
LEMMA EndsCallOK ==
  ASSUME NEW x, CallOK(x), NEW e \in CallErrors, e # "ok" \/ x.call.op \notin {"read", "inspect"}
  PROVE  CallOK([x EXCEPT !.phase = "done", !.err = e])
<1> DEFINE y == [x EXCEPT !.phase = "done", !.err = e]
<1>1. PICK by, plan : x \in CallRecords(by, plan)
  BY DEF CallOK
<1>2. y \in CallRecords(by, plan) /\ y.phase = "done" /\ y.err = e /\ y.call = x.call /\ y.seen = x.seen
        /\ y.cursor = x.cursor
  BY <1>1 DEF CallRecords
<1>3. CallAt(y) /\ CallPages(y)
  BY <1>2 DEF CallOK, CallAt, CallPages
<1> HIDE DEF y
<1>4. CallOK(y)
  BY <1>2, <1>3 DEF CallOK
<1> QED
  BY <1>4 DEF y

\* Before the call.
LEMMA NoCallIs == NoNtCall \in CallRecords(NoExecutor, [f \in Families |-> "nobody"])
<1>1. MaxPackets \in Nat
  BY NetworkToolAssumption
<1>2. NtCall("invalid", "none", 0) \in NtCalls
  BY DEF NtCalls
<1>3. [f \in Families |-> <<>>] \in [Families -> {Unread} \cup [n : Nat, truncated : BOOLEAN]]
  BY DEF Unread
<1>4. [f \in Families |-> 0] \in [Families -> Nat]
  OBVIOUS
<1> QED
  BY <1>1, <1>2, <1>3, <1>4 DEF NoNtCall, CallRecords, CallErrors, RowCounts, FamilyReads, Cursors

\* A call is taken, refused, started, or cancelled.
LEMMA CallBegins ==
  ASSUME CallInv, NtSubmit \/ NtStart \/ NtCancel
  PROVE  CallInv'
<1>0. MaxPackets \in Nat
  BY NetworkToolAssumption
<1>1. CASE NtSubmit
  <2>1. PICK c \in NtCalls :
          ntCall' = IF NtRefusal(c) # "ok"
                    THEN [NoNtCall EXCEPT !.phase = "done", !.call = c, !.err = NtRefusal(c)]
                    ELSE [NoNtCall EXCEPT !.phase = "admitted", !.call = c,
                                          !.by = network_executor_request(c)]
    BY <1>1 DEF NtSubmit
  <2>2. NtRefusal(c) \in CallErrors /\ (NtRefusal(c) = "ok" => c.op # "invalid")
    BY DEF NtRefusal, CallErrors, validate_network_input
  <2> DEFINE plan == [f \in Families |-> "nobody"]
  <2>3. CASE NtRefusal(c) # "ok"
    <3>1. ntCall' \in CallRecords(NoExecutor, plan)
      BY <2>1, <2>2, <2>3, NoCallIs DEF CallRecords
    <3>2. /\ ntCall'.phase = "done" /\ ntCall'.err # "ok"
          /\ ntCall'.seen = 0 /\ ntCall'.cursor = 0
      BY <2>1, <2>3 DEF NoNtCall
    <3> QED
      BY <3>1, <3>2 DEF CallInv, CallOK, CallAt, CallPages
  <2>4. CASE NtRefusal(c) = "ok"
    <3>1. ntCall' \in CallRecords(network_executor_request(c), plan)
      BY <2>1, <2>2, <2>4, NoCallIs DEF CallRecords
    <3>2. ntCall'.phase = "admitted" /\ ntCall'.call = c /\ ntCall'.seen = 0 /\ ntCall'.cursor = 0
      BY <2>1, <2>4 DEF NoNtCall
    <3> QED
      BY <2>2, <2>4, <3>1, <3>2 DEF CallInv, CallOK, CallAt, CallPages
  <2> QED
    BY <2>3, <2>4
<1>2. PICK by, plan : ntCall \in CallRecords(by, plan)
  BY DEF CallInv, CallOK
<1>3. CASE NtStart
  <2> DEFINE next == CASE ntCall.call.op = "read" -> "page"
                       [] ntCall.call.op # "read" /\ runs_inline(ntCall.call) -> "inline"
                       [] ntCall.call.arg = "inject" -> "inject"
                       [] OTHER -> ntCall.call.op
  <2>0. ntCall.phase = "admitted"
    BY <1>3 DEF NtStart
  <2>1. CASE NtFail("stale") \/ NtFail("cancelled")
    BY <2>1, EndsCallOK DEF CallInv, NtFail, CallErrors
  <2>2. CASE \E pl : ntCall' = [ntCall EXCEPT !.plan = pl, !.phase = next]
    <3>1. PICK pl : ntCall' = [ntCall EXCEPT !.plan = pl, !.phase = next]
      BY <2>2
    <3>2. ntCall.call \in NtCalls /\ ntCall.call.op # "invalid"
      BY <1>2, <2>0 DEF CallRecords, CallInv, CallOK, CallAt
    <3>3. /\ next \in {"page", "inline", "inject", "inspect", "diagnose"}
          /\ next = "page" => ntCall.call.op = "read"
          /\ next = "inspect" => ntCall.call.op = "inspect"
          /\ next \in {"inline", "inject", "diagnose"} => ntCall.call.op \notin {"read", "inspect"}
      BY <3>2 DEF NtCalls, NtCall, runs_inline
    <3> HIDE DEF next
    <3>4. ntCall' \in CallRecords(by, pl)
      BY <1>2, <3>1, <3>3 DEF CallRecords
    <3>5. ntCall'.phase = next /\ ntCall'.call = ntCall.call /\ ntCall'.seen = ntCall.seen
          /\ ntCall'.cursor = ntCall.cursor
      BY <1>2, <3>1 DEF CallRecords
    <3>6. CallAt(ntCall') /\ CallPages(ntCall')
      BY <3>3, <3>5 DEF CallInv, CallOK, CallAt, CallPages
    <3> QED
      BY <3>3, <3>4, <3>5, <3>6 DEF CallInv, CallOK
  <2> QED
    BY <1>3, <2>1, <2>2 DEF NtStart
<1>4. CASE NtCancel
  <2>1. ntCall' = [ntCall EXCEPT !.cancel = TRUE] /\ ntCall.phase \in {"admitted", "inline", "inject"}
    BY <1>4 DEF NtCancel
  <2>2. ntCall' \in CallRecords(by, plan)
    BY <1>2, <2>1 DEF CallRecords
  <2>3. ntCall'.phase = ntCall.phase /\ ntCall'.call = ntCall.call /\ ntCall'.seen = ntCall.seen
        /\ ntCall'.cursor = ntCall.cursor
    BY <1>2, <2>1 DEF CallRecords
  <2>4. CallAt(ntCall') /\ CallPages(ntCall')
    BY <2>1, <2>3 DEF CallInv, CallOK, CallAt, CallPages
  <2> QED
    BY <2>1, <2>2, <2>3, <2>4 DEF CallInv, CallOK
<1> QED
  BY <1>1, <1>3, <1>4

\* A call that is neither a read nor an inspection.
LEMMA OtherCalls ==
  ASSUME CallInv, NtDecode \/ NtBuild \/ NtDiagnose \/ NtInject
  PROVE  CallInv'
<1>1. PICK by, plan : ntCall \in CallRecords(by, plan)
  BY DEF CallInv, CallOK
<1>2. ntCall.phase \in {"inline", "diagnose", "inject"} /\ ntCall.call.op \notin {"read", "inspect"}
  BY DEF CallInv, CallOK, CallAt, NtDecode, NtBuild, NtDiagnose, NtInject
<1>3. ASSUME NEW e \in CallErrors, NtFail(e) PROVE CallInv'
  BY <1>2, <1>3, EndsCallOK DEF CallInv, NtFail
<1>4. ASSUME ntCall' \in CallRecords(by, plan), ntCall'.phase \in {"inline", "diagnose", "inject", "done"},
             ntCall'.call = ntCall.call, ntCall'.seen = ntCall.seen, ntCall'.cursor = ntCall.cursor
      PROVE  CallInv'
  <2>1. CallAt(ntCall') /\ CallPages(ntCall')
    BY <1>2, <1>4 DEF CallInv, CallOK, CallAt, CallPages
  <2> QED
    BY <1>2, <1>4, <2>1 DEF CallInv, CallOK
<1>5. CASE NtTo("done")
  <2>1. /\ ntCall' \in CallRecords(by, plan) /\ ntCall'.phase = "done" /\ ntCall'.call = ntCall.call
        /\ ntCall'.seen = ntCall.seen /\ ntCall'.cursor = ntCall.cursor
    BY <1>1, <1>5 DEF NtTo, CallRecords
  <2> QED
    BY <1>4, <2>1
<1>6. CASE NtDecode
  BY <1>3, <1>5, <1>6 DEF NtDecode, CallErrors
<1>7. CASE NtBuild
  BY <1>3, <1>5, <1>7 DEF NtBuild, CallErrors
<1>8. CASE NtDiagnose
  <2>1. \A e \in CASE ntCall.call.arg = "connectivity" -> diagnose_connectivity
                   [] ntCall.call.arg = "route" -> diagnose_route
                   [] OTHER -> network_probe : e \in CallErrors
    BY DEF diagnose_connectivity, diagnose_route, network_probe, CallErrors
  <2> QED
    BY <1>3, <1>8, <2>1 DEF NtDiagnose
<1>9. CASE NtInject
  <2>1. CASE NtFail("io")
    BY <1>3, <2>1 DEF CallErrors
  <2>2. CASE \/ ntCall' = [ntCall EXCEPT !.open = TRUE]
             \/ ntCall' = [ntCall EXCEPT !.err = "cancelled"]
             \/ ntCall' = [ntCall EXCEPT !.sent = @ + 1]
             \/ ntCall' = [ntCall EXCEPT !.err = "io"]
             \/ ntCall' = [ntCall EXCEPT !.open = FALSE, !.phase = "done"]
             \/ ntCall' = [ntCall EXCEPT !.open = FALSE, !.phase = "done", !.verified = FALSE,
                                         !.err = IF @ = "ok" THEN "io" ELSE @]
    <3>0. \A e \in CallErrors : (IF e = "ok" THEN "io" ELSE e) \in CallErrors
      BY DEF CallErrors
    <3>3. "io" \in CallErrors /\ "cancelled" \in CallErrors
      BY DEF CallErrors
    <3>1. ntCall' \in CallRecords(by, plan)
      <4>4. CASE ntCall' = [ntCall EXCEPT !.open = TRUE]
        BY <1>1, <4>4 DEF CallRecords
      <4>5. CASE ntCall' = [ntCall EXCEPT !.err = "cancelled"]
        BY <1>1, <3>3, <4>5 DEF CallRecords
      <4>6. CASE ntCall' = [ntCall EXCEPT !.sent = @ + 1]
        BY <1>1, <4>6 DEF CallRecords
      <4>7. CASE ntCall' = [ntCall EXCEPT !.err = "io"]
        BY <1>1, <3>3, <4>7 DEF CallRecords
      <4>8. CASE ntCall' = [ntCall EXCEPT !.open = FALSE, !.phase = "done"]
        BY <1>1, <4>8 DEF CallRecords
      <4>9. CASE ntCall' = [ntCall EXCEPT !.open = FALSE, !.phase = "done", !.verified = FALSE,
                                           !.err = IF @ = "ok" THEN "io" ELSE @]
        <5>1. PICK e \in CallErrors : ntCall' = [ntCall EXCEPT !.open = FALSE, !.phase = "done",
                                                             !.verified = FALSE, !.err = e]
          BY <1>1, <3>0, <4>9 DEF CallRecords
        <5> QED
          BY <1>1, <5>1 DEF CallRecords
      <4> QED
        BY <2>2, <4>4, <4>5, <4>6, <4>7, <4>8, <4>9
    <3>2. /\ ntCall'.phase \in {ntCall.phase, "done"} /\ ntCall'.call = ntCall.call
          /\ ntCall'.seen = ntCall.seen /\ ntCall'.cursor = ntCall.cursor
      BY <1>1, <2>2 DEF CallRecords
    <3> QED
      BY <1>2, <1>4, <3>1, <3>2
  <2> QED
    BY <1>9, <2>1, <2>2 DEF NtInject
<1> QED
  BY <1>6, <1>7, <1>8, <1>9

\* What a page of a capture carries.
LEMMA WindowIs ==
  ASSUME NEW cursor \in 0..MaxPackets, NEW limit \in Nat \ {0}
  PROVE  LET w == ReadWindow(cursor, limit)
         IN  /\ w.n \in Nat /\ cursor + w.n <= MaxPackets
             /\ ~(w.more /\ w.n > 0) => cursor + w.n = MaxPackets
<1>1. Frame \in Nat /\ Frame >= 2 /\ MaxPackets \in Nat /\ cursor \in Nat
  BY NetworkToolAssumption
<1> DEFINE start == Min({cursor, MaxPackets})
           end == Min({start + limit, MaxPackets})
           fits == {n \in 0..(end - start) : encoded_fits(1 + n)}
           got == CHOOSE n \in largest_fitting(end - start, fits) : TRUE
<1>2. start = cursor
  BY <1>1, LesserIs
<1>3. end = IF cursor + limit <= MaxPackets THEN cursor + limit ELSE MaxPackets
  <2> HIDE DEF start
  <2>1. cursor + limit \in Nat
    BY <1>1
  <2> QED
    BY <1>1, <1>2, <2>1, LesserIs
<1> DEFINE room == end - start
<1> HIDE DEF start, end
<1>4. room \in Nat /\ room = end - cursor
  BY <1>1, <1>2, <1>3
<1>5. fits = {n \in 0..room : n <= Frame - 1}
  BY <1>1, <1>4 DEF encoded_fits
<1>6. largest_fitting(room, fits) = {IF room <= Frame - 1 THEN room ELSE Frame - 1}
  BY <1>1, <1>4, <1>5, FittingIs
<1>7. got = IF room <= Frame - 1 THEN room ELSE Frame - 1
  BY <1>6
<1>8. ReadWindow(cursor, limit) =
        [start |-> start, n |-> got, more |-> got < end - start \/ end < MaxPackets]
  BY DEF ReadWindow, start, end
<1> HIDE DEF got, room
<1>9. got \in Nat /\ cursor + got <= MaxPackets
  BY <1>1, <1>3, <1>4, <1>7
<1>10. ~((got < end - start \/ end < MaxPackets) /\ got > 0) => cursor + got = MaxPackets
  BY <1>1, <1>2, <1>3, <1>4, <1>7
<1>11. /\ ReadWindow(cursor, limit).n = got
       /\ ReadWindow(cursor, limit).more = (got < end - start \/ end < MaxPackets)
  BY <1>8
<1> QED
  BY <1>9, <1>10, <1>11

\* A page of a capture.
LEMMA PageKeeps ==
  ASSUME CallInv, NtPage
  PROVE  CallInv'
<1>1. PICK by, plan : ntCall \in CallRecords(by, plan)
  BY DEF CallInv, CallOK
<1>2. ntCall.phase = "page" /\ ntCall.call.op = "read" /\ ntCall.seen = ntCall.cursor
  BY DEF NtPage, CallInv, CallOK, CallAt, CallPages
<1>3. ntCall.call.limit \in Nat \ {0} /\ ntCall.cursor \in 0..MaxPackets /\ MaxPackets \in Nat
  BY <1>1, <1>2, CallsAre, NetworkToolAssumption DEF CallRecords, Cursors
<1>4. CASE NtFail("unavailable") \/ NtFail("io")
  BY <1>4, EndsCallOK DEF CallInv, NtFail, CallErrors
<1> DEFINE w == ReadWindow(ntCall.cursor, ntCall.call.limit)
<1>5. CASE ntCall' = [ntCall EXCEPT !.seen = @ + w.n, !.cursor = ntCall.cursor + w.n,
                                    !.phase = IF w.more /\ w.n > 0 THEN "page" ELSE "done"]
  <2>1. /\ w.n \in Nat /\ ntCall.cursor + w.n <= MaxPackets
        /\ ~(w.more /\ w.n > 0) => ntCall.cursor + w.n = MaxPackets
    BY <1>3, WindowIs
  <2> HIDE DEF w
  <2> DEFINE p == IF w.more /\ w.n > 0 THEN "page" ELSE "done"
  <2>0. /\ p \in {"page", "done"} /\ ntCall.cursor + w.n \in Nat /\ ntCall.cursor + w.n \in Cursors
    BY <1>3, <2>1 DEF Cursors
  <2> HIDE DEF p
  <2>5. ntCall' = [ntCall EXCEPT !.seen = ntCall.cursor + w.n, !.cursor = ntCall.cursor + w.n, !.phase = p]
    BY <1>2, <1>5 DEF p
  <2>2. ntCall' \in CallRecords(by, plan)
    BY <1>1, <2>0, <2>5 DEF CallRecords
  <2>3. /\ ntCall'.phase = p
        /\ ntCall'.call = ntCall.call
        /\ ntCall'.seen = ntCall.cursor + w.n /\ ntCall'.cursor = ntCall.cursor + w.n
    BY <1>1, <2>5 DEF CallRecords
  <2>4. CallAt(ntCall') /\ CallPages(ntCall')
    BY <1>2, <2>0, <2>1, <2>3 DEF CallAt, CallPages, p
  <2> QED
    BY <1>2, <2>0, <2>2, <2>3, <2>4 DEF CallInv, CallOK
<1> QED
  BY <1>4, <1>5 DEF NtPage

\* What an inspection reads is what it would carry.
LEMMA InspectKeeps ==
  ASSUME CallInv, NtInspect
  PROVE  CallInv'
<1>1. PICK by, plan : ntCall \in CallRecords(by, plan)
  BY DEF CallInv, CallOK
<1>2. ntCall.phase = "inspect" /\ ntCall.call.op = "inspect" /\ CallPages(ntCall)
  BY DEF NtInspect, CallInv, CallOK, CallAt
<1>3. ntCall.call \in NtCalls /\ ntCall.call.limit \in Nat
  BY <1>1, CallsAre DEF CallRecords
<1>4. CASE NtFail("io")
  BY <1>4, EndsCallOK DEF CallInv, NtFail, CallErrors
<1>5. CASE \E ask \in Answers, rows \in [Families -> {0, MaxRows}] :
             ntCall' = [ntCall EXCEPT !.phase = "fit", !.rows = rows,
                          !.read = ReadAll(ask, rows, ntCall.call), !.at = 0,
                          !.counts = [f \in Families |->
                             IF ReadAll(ask, rows, ntCall.call)[f] = Unread THEN 0
                             ELSE Min({ReadAll(ask, rows, ntCall.call)[f].n, ntCall.call.limit})]]
  <2>1. PICK ask \in Answers, rows \in [Families -> {0, MaxRows}] :
             ntCall' = [ntCall EXCEPT !.phase = "fit", !.rows = rows,
                          !.read = ReadAll(ask, rows, ntCall.call), !.at = 0,
                          !.counts = [f \in Families |->
                             IF ReadAll(ask, rows, ntCall.call)[f] = Unread THEN 0
                             ELSE Min({ReadAll(ask, rows, ntCall.call)[f].n, ntCall.call.limit})]]
    BY <1>5
  <2> DEFINE got == ReadAll(ask, rows, ntCall.call)
             counts == [f \in Families |-> IF got[f] = Unread THEN 0
                                           ELSE Min({got[f].n, ntCall.call.limit})]
  <2>2. rows \in [Families -> Nat]
    BY NetworkToolAssumption
  <2>3. /\ got \in [Families -> {Unread} \cup [n : Nat, truncated : BOOLEAN]]
        /\ \A f \in Families : got[f] # Unread /\ ~got[f].truncated => got[f].n = rows[f]
    BY <1>3, <2>2, ReadIs
  <2>4. ntCall' = [ntCall EXCEPT !.phase = "fit", !.rows = rows, !.read = got, !.at = 0, !.counts = counts]
    BY <2>1
  <2> HIDE DEF got
  <2>5. \A f \in Families : got[f] # Unread => Min({got[f].n, ntCall.call.limit}) \in Nat
    <3> SUFFICES ASSUME NEW f \in Families, got[f] # Unread PROVE Min({got[f].n, ntCall.call.limit}) \in Nat
      OBVIOUS
    <3>1. got[f].n \in Nat
      BY <2>3
    <3> QED
      BY <1>3, <3>1, LesserIs
  <2>6. counts \in [Families -> Nat]
    BY <2>5
  <2>7. \A f \in Families : got[f] # Unread => counts[f] = Min({got[f].n, ntCall.call.limit})
    OBVIOUS
  <2> HIDE DEF counts
  <2>8. ntCall' \in CallRecords(by, plan)
    <3>1. rows \in RowCounts /\ got \in FamilyReads /\ counts \in RowCounts
      BY <2>2, <2>3, <2>6 DEF RowCounts, FamilyReads
    <3> DEFINE mid == [ntCall EXCEPT !.rows = rows, !.read = got, !.counts = counts]
    <3>2. mid \in CallRecords(by, plan)
      BY <1>1, <3>1 DEF CallRecords
    <3>3. PICK at \in 0..5 : at = 0
      OBVIOUS
    <3>4. ntCall' = [mid EXCEPT !.phase = "fit", !.at = at]
      BY <1>1, <2>4, <3>3 DEF CallRecords
    <3> HIDE DEF mid
    <3> QED
      BY <3>2, <3>4 DEF CallRecords
  <2>9. /\ ntCall'.phase = "fit" /\ ntCall'.call = ntCall.call /\ ntCall'.rows = rows /\ ntCall'.read = got
        /\ ntCall'.counts = counts /\ ntCall'.seen = ntCall.seen /\ ntCall'.cursor = ntCall.cursor
    BY <1>1, <2>4 DEF CallRecords
  <2>10. CallAt(ntCall') /\ CallPages(ntCall')
    BY <1>2, <2>9 DEF CallAt, CallPages
  <2>11. \A f \in Present(ntCall') : counts[f] = Wanted(ntCall', f) /\ counts[f] \in Nat
    BY <2>6, <2>7, <2>9 DEF Present, Wanted
  <2>12. CallFits(ntCall')
    BY <2>3, <2>9, <2>11 DEF CallFits, Present
  <2> QED
    BY <2>8, <2>9, <2>10, <2>12 DEF CallInv, CallOK
<1> QED
  BY <1>4, <1>5 DEF NtInspect

\* The step of a fit that changes neither what is read nor how much of it is carried.
LEMMA FitMoves ==
  ASSUME CallInv, ntCall.phase = "fit", NEW at \in 0..5, NEW pr \in BOOLEAN,
         ntCall' = [ntCall EXCEPT !.at = at, !.progressed = pr]
  PROVE  CallInv'
<1>1. PICK by, plan : ntCall \in CallRecords(by, plan)
  BY DEF CallInv, CallOK
<1>2. ntCall' \in CallRecords(by, plan)
  BY <1>1 DEF CallRecords
<1>3. /\ ntCall'.phase = "fit" /\ ntCall'.call = ntCall.call /\ ntCall'.rows = ntCall.rows
      /\ ntCall'.read = ntCall.read /\ ntCall'.counts = ntCall.counts
      /\ ntCall'.seen = ntCall.seen /\ ntCall'.cursor = ntCall.cursor
  BY <1>1 DEF CallRecords
<1>4. CallAt(ntCall') /\ CallPages(ntCall')
  BY <1>3 DEF CallInv, CallOK, CallAt, CallPages
<1>5. Present(ntCall') = Present(ntCall) /\ \A f : Wanted(ntCall', f) = Wanted(ntCall, f)
  BY <1>3 DEF Present, Wanted
<1>6. CallFits(ntCall')
  BY <1>3, <1>5 DEF CallInv, CallOK, CallFits
<1> QED
  BY <1>2, <1>3, <1>4, <1>6 DEF CallInv, CallOK

\* A family is cut to what fills the frame.
LEMMA CutFills ==
  ASSUME NEW c \in [Families -> Nat], NEW f \in Present(ntCall),
         NEW n \in largest_fitting(c[f], {m \in 0..c[f] : encoded_fits(Encoded([c EXCEPT ![f] = m]))}),
         n < c[f]
  PROVE  n \in Nat /\ 1 + Total([c EXCEPT ![f] = n], Present(ntCall)) = Frame
<1> DEFINE P == Present(ntCall)
           base == 1 + Total(c, P \ {f})
           fits == {m \in 0..c[f] : encoded_fits(Encoded([c EXCEPT ![f] = m]))}
<1>1. P \in SUBSET Families /\ f \in Families /\ Frame \in Nat
  BY NetworkToolAssumption DEF Present
<1>2. base \in Nat /\ c[f] \in Nat
  BY <1>1, TotalNat
<1>3. \A m \in Nat : Encoded([c EXCEPT ![f] = m]) = base + m /\ 1 + Total([c EXCEPT ![f] = m], P) = base + m
  <2> SUFFICES ASSUME NEW m \in Nat
               PROVE  Encoded([c EXCEPT ![f] = m]) = base + m /\ 1 + Total([c EXCEPT ![f] = m], P) = base + m
    OBVIOUS
  <2>1. [c EXCEPT ![f] = m] \in [Families -> Nat]
    OBVIOUS
  <2>2. Total([c EXCEPT ![f] = m], P) = Total(c, P \ {f}) + m /\ Total(c, P \ {f}) \in Nat
    BY <1>1, TotalWith, TotalNat
  <2>3. Encoded([c EXCEPT ![f] = m]) = 1 + Total([c EXCEPT ![f] = m], P)
    BY <2>1, EncodedIs
  <2> QED
    BY <2>2, <2>3
<1> HIDE DEF base
<1>4. fits = {m \in 0..c[f] : base + m <= Frame}
  BY <1>2, <1>3 DEF encoded_fits
<1>10. n \in largest_fitting(c[f], fits)
  OBVIOUS
<1> HIDE DEF fits
<1>5. base <= Frame
  <2> SUFFICES ASSUME ~(base <= Frame) PROVE FALSE
    OBVIOUS
  <2>1. 0 \notin fits
    BY <1>1, <1>2, <1>4
  <2>2. largest_fitting(c[f], fits) = {}
    BY <2>1 DEF largest_fitting
  <2> QED
    BY <1>10, <2>2
<1>6. fits = {m \in 0..c[f] : m <= Frame - base} /\ Frame - base \in Nat
  BY <1>1, <1>2, <1>4, <1>5
<1>7. largest_fitting(c[f], fits) = {IF c[f] <= Frame - base THEN c[f] ELSE Frame - base}
  BY <1>2, <1>6, FittingIs
<1>8. n = IF c[f] <= Frame - base THEN c[f] ELSE Frame - base
  BY <1>7, <1>10
<1>9. n = Frame - base /\ n \in Nat
  BY <1>2, <1>6, <1>8
<1>11. 1 + Total([c EXCEPT ![f] = n], P) = base + n
  BY <1>3, <1>9
<1>12. base + n = Frame
  BY <1>1, <1>2, <1>9
<1> QED
  BY <1>9, <1>11, <1>12

\* One step of a fit.
LEMMA FitKeeps ==
  ASSUME CallInv, NtFit
  PROVE  CallInv'
<1>1. PICK by, plan : ntCall \in CallRecords(by, plan)
  BY DEF CallInv, CallOK
<1>2. ntCall.phase = "fit" /\ ntCall.call.op = "inspect" /\ CallFits(ntCall) /\ CallPages(ntCall)
  BY DEF NtFit, CallInv, CallOK, CallAt
<1>3. /\ ntCall.counts \in RowCounts /\ ntCall.at \in 0..5 /\ ntCall.progressed \in BOOLEAN
      /\ ntCall.read \in FamilyReads
      /\ ntCall.call \in NtCalls
  BY <1>1 DEF CallRecords
<1> DEFINE f      == FamilyOrder[ntCall.at]
           fitted == largest_fitting(ntCall.counts[f],
                       {n \in 0..ntCall.counts[f] : encoded_fits(Encoded([ntCall.counts EXCEPT ![f] = n]))})
           fits == encoded_fits(Encoded(ntCall.counts))
           cuts == (\E n \in fitted : n < ntCall.counts[f]) /\ is_present(f)
           cut == CHOOSE n \in fitted : TRUE
<1>4. ntCall' =
        CASE ntCall.at = 0 /\ fits -> [ntCall EXCEPT !.phase = "done"]
          [] ntCall.at = 0 /\ ~fits -> [ntCall EXCEPT !.at = 1, !.progressed = FALSE]
          [] ntCall.at \in 1..4 /\ cuts ->
               [ntCall EXCEPT !.counts[f] = cut, !.at = @ + 1, !.progressed = TRUE]
          [] ntCall.at = 5 /\ ntCall.progressed -> [ntCall EXCEPT !.at = 0]
          [] ntCall.at = 5 /\ ~ntCall.progressed ->
               [ntCall EXCEPT !.phase = "done", !.err = "resource_limit"]
          [] OTHER -> [ntCall EXCEPT !.at = @ + 1]
  BY DEF NtFit
<1> HIDE DEF f, fitted, fits, cuts, cut
<1>5. CASE ntCall.at = 0 /\ fits
  <2>1. ntCall' = [ntCall EXCEPT !.phase = "done"]
    BY <1>4, <1>5
  <2>2. ntCall' \in CallRecords(by, plan)
    BY <1>1, <2>1 DEF CallRecords
  <2>3. /\ ntCall'.phase = "done" /\ ntCall'.call = ntCall.call /\ ntCall'.rows = ntCall.rows
        /\ ntCall'.read = ntCall.read /\ ntCall'.counts = ntCall.counts
        /\ ntCall'.seen = ntCall.seen /\ ntCall'.cursor = ntCall.cursor
    BY <1>1, <2>1 DEF CallRecords
  <2>4. CallAt(ntCall') /\ CallPages(ntCall')
    BY <1>2, <2>3 DEF CallAt, CallPages
  <2>5. Present(ntCall') = Present(ntCall) /\ \A g : Wanted(ntCall', g) = Wanted(ntCall, g)
    BY <2>3 DEF Present, Wanted
  <2>6. CallFits(ntCall')
    BY <1>2, <2>3, <2>5 DEF CallFits
  <2>7. 1 + Total(ntCall'.counts, Present(ntCall')) <= Frame
    <3>1. Encoded(ntCall.counts) = 1 + Total(ntCall.counts, Present(ntCall))
      BY <1>3, EncodedIs DEF RowCounts
    <3>2. 1 + Total(ntCall.counts, Present(ntCall)) <= Frame
      BY <1>5, <3>1 DEF fits, encoded_fits
    <3> QED
      BY <2>3, <2>5, <3>2
  <2> QED
    BY <2>2, <2>3, <2>4, <2>6, <2>7 DEF CallInv, CallOK
<1>6. CASE ntCall.at = 0 /\ ~fits
  <2>1. ntCall' = [ntCall EXCEPT !.at = 1, !.progressed = FALSE]
    BY <1>4, <1>6
  <2>2. PICK at \in 0..5 : at = 1
    OBVIOUS
  <2>3. PICK pr \in BOOLEAN : pr = FALSE
    OBVIOUS
  <2>4. ntCall' = [ntCall EXCEPT !.at = at, !.progressed = pr]
    BY <2>1, <2>2, <2>3
  <2> QED
    BY <1>2, <2>4, FitMoves
<1>7. CASE ntCall.at \in 1..4 /\ cuts
  <2>1. ntCall' = [ntCall EXCEPT !.counts[f] = cut, !.at = @ + 1, !.progressed = TRUE]
    BY <1>4, <1>7
  <2>2. f \in Present(ntCall) /\ f \in Families
    BY <1>7 DEF cuts, f, is_present, Present, Families, FamilyOrder
  <2>3. fitted = {cut}
    <3>1. PICK n : fitted \subseteq {n}
      BY DEF fitted, largest_fitting
    <3> QED
      BY <1>7, <3>1 DEF cuts, cut
  <2>4. cut \in fitted /\ cut < ntCall.counts[f]
    BY <1>7, <2>3 DEF cuts
  <2> DEFINE counts == [ntCall.counts EXCEPT ![f] = cut]
             P == Present(ntCall)
  <2>5. cut \in Nat /\ 1 + Total(counts, P) = Frame
    BY <1>3, <2>2, <2>4, CutFills DEF fitted, RowCounts
  <2>6. counts \in RowCounts
    BY <1>3, <2>5 DEF RowCounts
  <2>7. \A g \in Families : counts[g] <= ntCall.counts[g]
    <3>1. \A g \in Families : ntCall.counts[g] \in Nat
      BY <1>3 DEF RowCounts
    <3> QED
      BY <1>3, <2>2, <2>4, <2>5, <3>1 DEF RowCounts
  <2>8. PICK at \in 0..5 : at = ntCall.at + 1
    BY <1>7
  <2>9. ntCall' = [ntCall EXCEPT !.counts = counts, !.at = at, !.progressed = TRUE]
    BY <1>1, <2>1, <2>8 DEF CallRecords
  <2> HIDE DEF counts
  <2>10. ntCall' \in CallRecords(by, plan)
    BY <1>1, <2>6, <2>9 DEF CallRecords
  <2>11. /\ ntCall'.phase = "fit" /\ ntCall'.call = ntCall.call /\ ntCall'.rows = ntCall.rows
         /\ ntCall'.read = ntCall.read /\ ntCall'.counts = counts
         /\ ntCall'.seen = ntCall.seen /\ ntCall'.cursor = ntCall.cursor
    BY <1>1, <1>2, <2>9 DEF CallRecords
  <2>12. CallAt(ntCall') /\ CallPages(ntCall')
    BY <1>2, <2>11 DEF CallAt, CallPages
  <2>13. Present(ntCall') = P /\ \A g : Wanted(ntCall', g) = Wanted(ntCall, g)
    BY <2>11 DEF Present, Wanted
  <2>14. \A g \in P : counts[g] <= Wanted(ntCall, g)
    <3> SUFFICES ASSUME NEW g \in P PROVE counts[g] <= Wanted(ntCall, g)
      OBVIOUS
    <3>1. g \in Families /\ ntCall.read[g].n \in Nat
      BY <1>3 DEF Present, FamilyReads
    <3>2. Wanted(ntCall, g) \in Nat
      BY <1>3, <3>1, CallsAre, LesserIs DEF Wanted
    <3>3. counts[g] <= ntCall.counts[g] /\ ntCall.counts[g] <= Wanted(ntCall, g)
      BY <1>2, <2>7, <3>1 DEF CallFits
    <3>4. counts[g] \in Nat /\ ntCall.counts[g] \in Nat
      BY <1>3, <2>6, <3>1 DEF RowCounts
    <3> QED
      BY <3>2, <3>3, <3>4
  <2>15. CallFits(ntCall')
    BY <1>2, <2>5, <2>11, <2>13, <2>14 DEF CallFits, counts
  <2> QED
    BY <2>10, <2>11, <2>12, <2>15 DEF CallInv, CallOK
<1>8. CASE ntCall.at = 5 /\ ntCall.progressed
  <2>1. ntCall' = [ntCall EXCEPT !.at = 0]
    BY <1>3, <1>4, <1>8
  <2>2. PICK at \in 0..5 : at = 0
    OBVIOUS
  <2>3. ntCall' = [ntCall EXCEPT !.at = at, !.progressed = ntCall.progressed]
    BY <1>1, <2>1, <2>2 DEF CallRecords
  <2> QED
    BY <1>2, <1>3, <2>3, FitMoves
<1>9. CASE ntCall.at = 5 /\ ~ntCall.progressed
  <2>1. ntCall' = [ntCall EXCEPT !.phase = "done", !.err = "resource_limit"]
    BY <1>3, <1>4, <1>9
  <2> QED
    BY <2>1, EndsCallOK DEF CallInv, CallErrors
<1>10. CASE ntCall.at \in 1..4 /\ ~cuts
  <2>1. ntCall' = [ntCall EXCEPT !.at = @ + 1]
    BY <1>4, <1>10
  <2>2. ntCall' = [ntCall EXCEPT !.at = ntCall.at + 1, !.progressed = ntCall.progressed]
    BY <1>1, <2>1 DEF CallRecords
  <2>3. ntCall.at + 1 \in 0..5
    BY <1>10
  <2> QED
    BY <1>2, <1>3, <2>2, <2>3, FitMoves
<1> QED
  BY <1>3, <1>5, <1>6, <1>7, <1>8, <1>9, <1>10

\* The network tool keeps the invariant of its call for every frame, row and packet bound.
THEOREM AnswersInductive == NtSpec => []CallInv
<1>1. NtInit => CallInv
  <2> SUFFICES ASSUME NtInit PROVE CallInv
    OBVIOUS
  <2>1. ntCall = NoNtCall
    BY DEF NtInit
  <2>2. ntCall.phase = "idle" /\ ntCall.seen = 0 /\ ntCall.cursor = 0
    BY <2>1 DEF NoNtCall
  <2> QED
    BY <2>1, <2>2, NoCallIs DEF CallInv, CallOK, CallAt, CallPages
<1>2. CallInv /\ [NtNext]_ntVars => CallInv'
  <2> SUFFICES ASSUME CallInv, [NtNext]_ntVars PROVE CallInv'
    OBVIOUS
  <2>1. CASE UNCHANGED ntCall
    BY <2>1 DEF CallInv
  <2>2. CASE \/ CapAdmit \/ CapStart \/ CapRegister \/ CapOpen \/ CapActivate \/ CapRead \/ CapClose
             \/ CapRetire \/ CapPublish \/ CapWrite \/ CapRename \/ CapSettle \/ CapCancel
             \/ StopCall \/ StopAsk \/ StopPoll \/ NtChange
    <3>1. UNCHANGED ntCall
      BY <2>2 DEF CapAdmit, CapStart, CapRegister, CapOpen, CapActivate, CapRead, CapClose, CapRetire,
                  CapPublish, CapWrite, CapRename, CapSettle, CapCancel, StopCall, StopAsk, StopPoll,
                  NtChange, CapRest
    <3> QED
      BY <2>1, <3>1
  <2>3. CASE UNCHANGED ntVars
    BY <2>1, <2>3 DEF ntVars
  <2> QED
    BY <2>2, <2>3, CallBegins, OtherCalls, PageKeeps, InspectKeeps, FitKeeps DEF NtNext
<1> QED
  BY <1>1, <1>2, PTL DEF NtSpec

\* An inspection is answered within the frame, says of each family whether it is whole, and
\* leaves no room in the frame that a cut row could take; the pages of a capture are all of it.
THEOREM AnswersAreWhole == NtSpec => []AnswersWhole
<1>1. CallInv => AnswersWhole
  <2> SUFFICES ASSUME CallInv, ntCall.phase = "done", ntCall.err = "ok"
               PROVE  /\ ntCall.call.op = "inspect" =>
                         /\ encoded_fits(Encoded(ntCall.counts))
                         /\ \A f \in {g \in Families : is_present(g)} :
                              /\ ~Truncated(f) => ntCall.counts[f] = ntCall.rows[f]
                              /\ ntCall.counts[f] < Min({ntCall.read[f].n, ntCall.call.limit})
                                   => Encoded(ntCall.counts) = Frame
                      /\ ntCall.call.op = "read" => ntCall.seen = MaxPackets
    BY DEF AnswersWhole
  <2>1. PICK by, plan : ntCall \in CallRecords(by, plan)
    BY DEF CallInv, CallOK
  <2>2. /\ ntCall.counts \in [Families -> Nat] /\ ntCall.rows \in [Families -> Nat]
        /\ ntCall.read \in [Families -> {Unread} \cup [n : Nat, truncated : BOOLEAN]]
        /\ ntCall.call \in NtCalls
    BY <2>1 DEF CallRecords, RowCounts, FamilyReads
  <2>3. ntCall.call.op = "read" => ntCall.seen = MaxPackets
    BY DEF CallInv, CallOK, CallPages
  <2>4. ASSUME ntCall.call.op = "inspect"
        PROVE  /\ encoded_fits(Encoded(ntCall.counts))
               /\ \A f \in {g \in Families : is_present(g)} :
                    /\ ~Truncated(f) => ntCall.counts[f] = ntCall.rows[f]
                    /\ ntCall.counts[f] < Min({ntCall.read[f].n, ntCall.call.limit})
                         => Encoded(ntCall.counts) = Frame
    <3>1. CallFits(ntCall) /\ 1 + Total(ntCall.counts, Present(ntCall)) <= Frame
      BY <2>4 DEF CallInv, CallOK
    <3>2. Encoded(ntCall.counts) = 1 + Total(ntCall.counts, Present(ntCall))
      BY <2>2, EncodedIs
    <3>3. encoded_fits(Encoded(ntCall.counts))
      BY <3>1, <3>2 DEF encoded_fits
    <3>4. ASSUME NEW f \in {g \in Families : is_present(g)}
          PROVE  /\ ~Truncated(f) => ntCall.counts[f] = ntCall.rows[f]
                 /\ ntCall.counts[f] < Min({ntCall.read[f].n, ntCall.call.limit})
                      => Encoded(ntCall.counts) = Frame
      <4>1. f \in Present(ntCall) /\ f \in Families
        BY DEF Present, is_present
      <4>2. /\ ntCall.counts[f] <= Wanted(ntCall, f)
            /\ ~ntCall.read[f].truncated => ntCall.read[f].n = ntCall.rows[f]
            /\ ntCall.counts[f] < Wanted(ntCall, f) => Encoded(ntCall.counts) = Frame
        BY <3>1, <3>2, <4>1 DEF CallFits
      <4>3. ntCall.read[f].n \in Nat /\ ntCall.counts[f] \in Nat /\ ntCall.call.limit \in Nat
        BY <2>2, <4>1, CallsAre DEF Present
      <4>4. Wanted(ntCall, f) \in Nat /\ Wanted(ntCall, f) <= ntCall.read[f].n
        BY <4>3, LesserIs DEF Wanted
      <4>5. ASSUME ~Truncated(f) PROVE ntCall.counts[f] = ntCall.rows[f]
        <5>1. ntCall.counts[f] = ntCall.read[f].n
          BY <4>2, <4>3, <4>4, <4>5 DEF Truncated
        <5> QED
          BY <4>2, <4>5, <5>1 DEF Truncated
      <4> QED
        BY <4>2, <4>5 DEF Wanted
    <3> QED
      BY <3>3, <3>4
  <2> QED
    BY <2>3, <2>4
<1> QED
  BY <1>1, AnswersInductive, PTL

-----------------------------------------------------------------------------
(***************************************************************************)
(* The visual tool.  Pins count the calls that hold a record, so the       *)
(* invariant says who may hold what, and when: only an observation that    *)
(* was answered is pinned, only one in the making holds its reservation.   *)
(***************************************************************************)

Scenes == [window : Nat, node : Nat, rest : Nat]
Executors == [gen : Nat, reader : Readers]
VsRecords ==
  [created : Nat, display : Nat, executor : Executors, proof : Scenes \cup {Absent},
   observed : BOOLEAN, nodes : BOOLEAN, image : BOOLEAN, shot : Scenes \cup {Absent}, pins : Nat]
ReservingPcs == {"display", "image", "hierarchy", "complete", "undo"}
PinningPcs == {"open", "unpin", "package", "check", "scene", "deliver"}
VsPcs == {"idle", "admitted", "settle", "target", "publish", "note", "done"} \cup ReservingPcs \cup PinningPcs
CallStates ==
  [pc : VsPcs, form : Forms \cup {"none"}, at : Nat, exec : Executors, nodes : BOOLEAN,
   about : VsCalls \cup {NoOne}, lease : Nat, until : Int, display : Nat,
   shot : Scenes \cup {Absent}, scene : Scenes \cup {Absent}, observed : BOOLEAN,
   pinned : VsCalls \cup {NoOne}, ok : BOOLEAN, grants : Nat]
RecordMaps == UNION {[S -> VsRecords] : S \in SUBSET VsCalls}
Caches ==
  [lease : {Absent} \cup [id : Nat, expires : Nat],
   records : RecordMaps,
   nodes : SUBSET VsCalls, images : SUBSET VsCalls, lastInput : Int]

VsTypeOK ==
  /\ vsCache \in Caches
  /\ vsCall \in [VsCalls -> CallStates]
  /\ vsScreen \in [display : Nat, window : Nat, node : Nat, rest : Nat]
  /\ vsCap \in Executors
  /\ vsClock \in Nat /\ vsGrants \in Nat

\* A call names and pins only observations that are over, and pins only on its way.
Refers ==
  \A c \in VsCalls :
    /\ vsCall[c].about # NoOne => Stands(vsCall[c].about, "done")
    /\ vsCall[c].pinned # NoOne => /\ Stands(vsCall[c].pinned, "done")
                                   /\ vsCall[c].pc \in PinningPcs

\* A record belongs to an observation in the making, whose reservation it is, or to one
\* that is over.
Reserved ==
  /\ \A o \in Known(vsCache) : Reserving(o) \/ Stands(o, "done")
  /\ \A c \in VsCalls : Reserving(c) => c \in Known(vsCache)

\* Past its check, a call presents the lease that is held, or was checked before it.
LeaseChecked ==
  /\ vsCache.lease # Absent => vsCache.lease.id <= vsGrants
  /\ \A c \in VsCalls :
       /\ vsCall[c].grants <= vsGrants
       /\ vsCall[c].form \in Interacts /\ vsCall[c].pc \notin {"idle", "admitted", "done"}
          /\ vsCache.lease # Absent
          => vsCall[c].lease = vsCache.lease.id \/ vsCall[c].grants < vsCache.lease.id
       /\ vsCall[c].pc \in {"target", "package", "check", "scene", "deliver"}
          => vsCall[c].form \in Interacts

VsInv == VsTypeOK /\ Refers /\ Reserved /\ PinsHeld /\ LeaseChecked

-----------------------------------------------------------------------------
(* The cache.                                                              *)

\* The indexes lead to the records that own what they index.
Indexed(k) ==
  /\ k \in Caches
  /\ k.nodes = {o \in Known(k) : k.records[o].nodes}
  /\ k.images = {o \in Known(k) : k.records[o].image}

\* What a cache keeps of another: the records of the calls `kept`, its lease and the time
\* of the last input.
Keeps(k, j, kept) ==
  /\ Known(j) = kept
  /\ \A o \in kept : j.records[o] = k.records[o]
  /\ j.lease = k.lease /\ j.lastInput = k.lastInput

\* The records of a cache are those of calls.
LEMMA RecordsAre ==
  ASSUME NEW k \in Caches
  PROVE  /\ Known(k) \subseteq VsCalls
         /\ k.records \in [Known(k) -> VsRecords]
         /\ IsFiniteSet(Known(k)) /\ Cardinality(Known(k)) \in Nat
<1>1. k.records \in RecordMaps
  BY DEF Caches
<1>2. PICK S \in SUBSET VsCalls : k.records \in [S -> VsRecords]
  BY <1>1 DEF RecordMaps
<1>3. Known(k) = S
  BY <1>2 DEF Known
<1>4. IsFiniteSet(S)
  BY VisualAssumption, FS_Subset
<1> QED
  BY <1>2, <1>3, <1>4, FS_CardinalityType

\* Drop takes the records out of the indexes too.
LEMMA DropIs ==
  ASSUME NEW k, Indexed(k), NEW gone
  PROVE  Indexed(Drop(k, gone)) /\ Keeps(k, Drop(k, gone), Known(k) \ gone)
<1> DEFINE r == [o \in Known(k) \ gone |-> k.records[o]]
           n == k.nodes \ {o \in gone \cap Known(k) : k.records[o].nodes}
           i == k.images \ {o \in gone \cap Known(k) : k.records[o].image}
           S == Known(k) \ gone
           j == [k EXCEPT !.records = r, !.nodes = n, !.images = i]
<1>1. k \in Caches /\ Known(k) \subseteq VsCalls /\ k.records \in [Known(k) -> VsRecords]
  BY RecordsAre DEF Indexed
<1>2. n = {o \in S : k.records[o].nodes} /\ i = {o \in S : k.records[o].image}
  BY DEF Indexed
<1>3. r \in [S -> VsRecords] /\ S \in SUBSET VsCalls /\ n \in SUBSET VsCalls /\ i \in SUBSET VsCalls
  BY <1>1, <1>2
<1>4. \A o \in S : r[o] = k.records[o]
  OBVIOUS
<1>5. Drop(k, gone) = j
  BY DEF Drop
<1>6. r \in RecordMaps /\ DOMAIN r = S
  BY <1>3 DEF RecordMaps
<1> HIDE DEF r, n, i, S
<1>7. /\ j \in Caches /\ j.records = r /\ j.nodes = n /\ j.images = i
      /\ j.lease = k.lease /\ j.lastInput = k.lastInput
  BY <1>1, <1>3, <1>6 DEF Caches
<1> HIDE DEF j
<1>8. Known(j) = S
  BY <1>7, <1>6 DEF Known
<1>9. Indexed(j)
  BY <1>2, <1>4, <1>7, <1>8 DEF Indexed
<1>10. Keeps(k, j, S)
  BY <1>4, <1>7, <1>8 DEF Keeps
<1> QED
  BY <1>5, <1>9, <1>10 DEF S

\* There is an oldest record that nobody pins, as long as there is one.
LEMMA OldestIs ==
  ASSUME NEW k \in Caches, Evictable(k) # {}
  PROVE  Oldest(k) \in Evictable(k)
<1>1. Known(k) \subseteq VsCalls /\ k.records \in [Known(k) -> VsRecords]
  BY RecordsAre
<1>2. \A o \in Evictable(k) : o \in Known(k) /\ o \in Nat /\ k.records[o].created \in Nat
  BY <1>1, VisualAssumption DEF Evictable, VsRecords
<1> DEFINE times == {k.records[o].created : o \in Evictable(k)}
<1>3. PICK t \in times : \A u \in times : t <= u
  <2>1. times \in SUBSET Nat /\ times # {}
    BY <1>2
  <2> HIDE DEF times
  <2> QED
    BY <2>1, HasLeast
<1> DEFINE first == {o \in Evictable(k) : k.records[o].created = t}
<1>4. PICK o \in first : \A p \in first : o <= p
  <2>1. first \in SUBSET Nat /\ first # {}
    BY <1>2
  <2> HIDE DEF first
  <2> QED
    BY <2>1, HasLeast
<1>5. \A p \in Evictable(k) : \/ k.records[o].created < k.records[p].created
                              \/ k.records[o].created = k.records[p].created /\ o <= p
  <2> SUFFICES ASSUME NEW p \in Evictable(k), ~(k.records[o].created < k.records[p].created)
               PROVE  k.records[o].created = k.records[p].created /\ o <= p
    OBVIOUS
  <2>1. k.records[o].created = t /\ t <= k.records[p].created /\ t \in Nat
    BY <1>2, <1>3
  <2>2. k.records[p].created = t
    BY <1>2, <2>1
  <2> QED
    BY <1>4, <2>1, <2>2
<1> QED
  BY <1>5 DEF Oldest

\* remove_expired takes unpinned records only.
LEMMA RemoveIs ==
  ASSUME NEW k, Indexed(k), NEW now
  PROVE  /\ Indexed(remove_expired(k, now))
         /\ \E kept \in SUBSET Known(k) :
              /\ Keeps(k, remove_expired(k, now), kept)
              /\ \A o \in Known(k) \ kept : k.records[o].pins = 0
<1> DEFINE gone == {o \in Known(k) : k.records[o].pins = 0 /\ Expired(k, o, now)}
<1>1. Indexed(Drop(k, gone)) /\ Keeps(k, Drop(k, gone), Known(k) \ gone)
  BY DropIs
<1>2. \A o \in Known(k) \ (Known(k) \ gone) : k.records[o].pins = 0
  OBVIOUS
<1>3. Known(k) \ gone \in SUBSET Known(k)
  OBVIOUS
<1>4. remove_expired(k, now) = Drop(k, gone)
  BY DEF remove_expired
<1> HIDE DEF gone
<1> QED
  BY <1>1, <1>2, <1>3, <1>4

\* reserve: a record of its own for the observation, in the place of unpinned ones.
LEMMA ReserveIs ==
  ASSUME NEW k, Indexed(k), Cardinality(Known(k)) <= VsLimit, NEW c \in VsCalls, c \notin Known(k),
         NEW now \in Nat, HasPlace(k, now)
  PROVE  LET j == reserve(k, c, now) IN
         /\ Indexed(j) /\ j.lease = k.lease
         /\ c \in Known(j) /\ Known(j) \ {c} \subseteq Known(k) /\ j.records[c] = Observation(now)
         /\ \A o \in Known(j) \ {c} : j.records[o] = k.records[o]
         /\ \A o \in Known(k) \ Known(j) : k.records[o].pins = 0
         /\ Cardinality(Known(j)) <= VsLimit
<1> DEFINE r == remove_expired(k, now)
           room == IF Full(r) THEN Drop(r, {Oldest(r)}) ELSE r
<1>0. VsLimit \in Nat /\ k \in Caches
  BY VisualAssumption DEF Indexed
<1>1. Indexed(r)
  BY RemoveIs
<1>2. PICK kept \in SUBSET Known(k) :
        Keeps(k, r, kept) /\ \A o \in Known(k) \ kept : k.records[o].pins = 0
  BY RemoveIs
<1>3. r \in Caches /\ (Full(r) => Evictable(r) # {})
  BY <1>1 DEF HasPlace, Indexed
<1>4. reserve(k, c, now) = [room EXCEPT !.records = [p \in Known(room) \cup {c} |->
                               IF p = c THEN Observation(now) ELSE room.records[p]]]
  BY DEF reserve
<1> HIDE DEF r
<1>5. /\ IsFiniteSet(kept) /\ Cardinality(kept) <= VsLimit /\ Cardinality(kept) \in Nat
      /\ Known(r) = kept
  <2>1. IsFiniteSet(Known(k)) /\ Cardinality(Known(k)) \in Nat
    BY <1>0, RecordsAre
  <2>2. IsFiniteSet(kept) /\ Cardinality(kept) <= Cardinality(Known(k))
    BY <2>1, FS_Subset
  <2> QED
    BY <1>0, <1>2, <2>1, <2>2, FS_CardinalityType DEF Keeps
<1>6. PICK S \in SUBSET kept :
        /\ Keeps(r, room, S) /\ Indexed(room)
        /\ \A o \in kept \ S : k.records[o].pins = 0
        /\ Cardinality(S) + 1 <= VsLimit
  <2>1. CASE Full(r)
    <3>1. Oldest(r) \in Evictable(r)
      BY <1>3, <2>1, OldestIs
    <3>2. Oldest(r) \in kept /\ r.records[Oldest(r)].pins = 0
      BY <1>5, <3>1 DEF Evictable
    <3>3. k.records[Oldest(r)].pins = 0
      BY <1>2, <3>2 DEF Keeps
    <3> DEFINE o1 == Oldest(r)
    <3> HIDE DEF o1
    <3>4. Indexed(Drop(r, {o1})) /\ Keeps(r, Drop(r, {o1}), kept \ {o1})
      BY <1>1, <1>5, DropIs
    <3>5. Cardinality(kept \ {o1}) = Cardinality(kept) - 1
      BY <1>5, <3>2, FS_RemoveElement DEF o1
    <3>6. room = Drop(r, {o1})
      BY <2>1 DEF o1
    <3>7. \A o \in kept \ (kept \ {o1}) : k.records[o].pins = 0
      BY <3>3 DEF o1
    <3>8. Cardinality(kept \ {o1}) + 1 <= VsLimit
      BY <1>0, <1>5, <3>5
    <3> QED
      BY <3>4, <3>6, <3>7, <3>8
  <2>2. CASE ~Full(r)
    <3>1. room = r /\ Keeps(r, r, kept)
      BY <1>5, <2>2 DEF Keeps
    <3>2. Cardinality(kept) + 1 <= VsLimit
      BY <1>0, <1>5, <2>2 DEF Full
    <3> QED
      BY <1>1, <3>1, <3>2
  <2> QED
    BY <2>1, <2>2
<1> HIDE DEF room
<1>7. /\ room \in Caches /\ Known(room) = S /\ c \notin S /\ S \subseteq Known(k) /\ S \subseteq VsCalls
      /\ room.records \in [S -> VsRecords] /\ room.lease = k.lease
      /\ \A o \in S : room.records[o] = k.records[o]
      /\ room.nodes = {o \in S : room.records[o].nodes}
      /\ room.images = {o \in S : room.records[o].image}
  BY <1>2, <1>6, RecordsAre DEF Keeps, Indexed
<1> DEFINE f == [p \in S \cup {c} |-> IF p = c THEN Observation(now) ELSE room.records[p]]
           j == [room EXCEPT !.records = f]
<1>8. Observation(now) \in VsRecords /\ ~Observation(now).nodes /\ ~Observation(now).image
  BY DEF Observation, VsRecords, Unstated, Executors, Readers
<1>9. /\ f \in [S \cup {c} -> VsRecords] /\ f[c] = Observation(now)
      /\ \A o \in S : f[o] = room.records[o]
  BY <1>7, <1>8
<1>10. f \in RecordMaps /\ DOMAIN f = S \cup {c}
  <2>1. S \cup {c} \in SUBSET VsCalls
    BY <1>7
  <2> HIDE DEF f
  <2> QED
    BY <1>9, <2>1 DEF RecordMaps
<1>11. reserve(k, c, now) = j
  BY <1>4, <1>7
<1> HIDE DEF f
<1>12. j \in Caches /\ j.records = f /\ j.nodes = room.nodes /\ j.images = room.images /\ j.lease = room.lease
  BY <1>7, <1>10 DEF Caches
<1> HIDE DEF j
<1>13. Known(j) = S \cup {c}
  BY <1>10, <1>12 DEF Known
<1>14. Indexed(j)
  BY <1>7, <1>8, <1>9, <1>12, <1>13 DEF Indexed
<1>15. Cardinality(S \cup {c}) <= VsLimit
  <2>1. IsFiniteSet(S)
    BY <1>5, FS_Subset
  <2> QED
    BY <1>6, <1>7, <2>1, FS_AddElement
<1>16. \A o \in Known(k) \ (S \cup {c}) : k.records[o].pins = 0
  BY <1>2, <1>6
<1> QED
  BY <1>7, <1>9, <1>11, <1>12, <1>13, <1>14, <1>15, <1>16

\* complete: the finished record, indexed by what it holds.
LEMMA CompleteIs ==
  ASSUME NEW k, Indexed(k), NEW c \in VsCalls, NEW record \in VsRecords
  PROVE  LET j == complete(k, c, record) IN
         /\ Indexed(j) /\ j.lease = k.lease /\ Known(j) = Known(k) \cup {c}
         /\ j.records[c] = record /\ \A o \in Known(k) \ {c} : j.records[o] = k.records[o]
<1> DEFINE f == [p \in Known(k) \cup {c} |-> IF p = c THEN record ELSE k.records[p]]
           n == IF record.nodes THEN k.nodes \cup {c} ELSE k.nodes \ {c}
           i == IF record.image THEN k.images \cup {c} ELSE k.images \ {c}
           j == [k EXCEPT !.records = f, !.nodes = n, !.images = i]
<1>1. k \in Caches /\ Known(k) \subseteq VsCalls /\ k.records \in [Known(k) -> VsRecords]
  BY RecordsAre DEF Indexed
<1>2. complete(k, c, record) = j
  BY DEF complete
<1>3. /\ f \in [Known(k) \cup {c} -> VsRecords] /\ f[c] = record
      /\ \A o \in Known(k) \ {c} : f[o] = k.records[o]
  BY <1>1
<1>4. f \in RecordMaps /\ DOMAIN f = Known(k) \cup {c}
  BY <1>1, <1>3 DEF RecordMaps
<1> HIDE DEF f
<1>5. k.nodes = {o \in Known(k) : k.records[o].nodes} /\ k.images = {o \in Known(k) : k.records[o].image}
  BY DEF Indexed
<1>6. /\ n = {o \in Known(k) \cup {c} : f[o].nodes} /\ n \in SUBSET VsCalls
      /\ i = {o \in Known(k) \cup {c} : f[o].image} /\ i \in SUBSET VsCalls
  BY <1>1, <1>3, <1>5
<1> HIDE DEF n, i
<1>7. j \in Caches /\ j.records = f /\ j.nodes = n /\ j.images = i /\ j.lease = k.lease
  BY <1>1, <1>4, <1>6 DEF Caches
<1> HIDE DEF j
<1>8. Known(j) = Known(k) \cup {c}
  BY <1>4, <1>7 DEF Known
<1> QED
  BY <1>2, <1>3, <1>6, <1>7, <1>8 DEF Indexed

\* A pin more or less on one record.
LEMMA PinsIs ==
  ASSUME NEW k, Indexed(k), NEW o \in Known(k), NEW n \in Nat,
         NEW j, j = [k EXCEPT !.records = [k.records EXCEPT ![o] = [k.records[o] EXCEPT !.pins = n]]]
  PROVE  /\ Indexed(j) /\ j.lease = k.lease /\ Known(j) = Known(k)
         /\ j.records[o].pins = n /\ \A p \in Known(k) \ {o} : j.records[p] = k.records[p]
<1> DEFINE x == [k.records[o] EXCEPT !.pins = n]
           f == [k.records EXCEPT ![o] = x]
<1>1. k \in Caches /\ Known(k) \subseteq VsCalls /\ k.records \in [Known(k) -> VsRecords]
  BY RecordsAre DEF Indexed
<1>2. x \in VsRecords /\ x.nodes = k.records[o].nodes /\ x.image = k.records[o].image /\ x.pins = n
  BY <1>1 DEF VsRecords
<1> HIDE DEF x
<1>3. f \in [Known(k) -> VsRecords] /\ f[o] = x /\ \A p \in Known(k) \ {o} : f[p] = k.records[p]
  BY <1>1, <1>2
<1>4. f \in RecordMaps /\ DOMAIN f = Known(k)
  BY <1>1, <1>3 DEF RecordMaps
<1>5. j = [k EXCEPT !.records = f]
  BY DEF x
<1> HIDE DEF f
<1>6. j \in Caches /\ j.records = f /\ j.nodes = k.nodes /\ j.images = k.images /\ j.lease = k.lease
  BY <1>1, <1>4, <1>5 DEF Caches
<1>7. Known(j) = Known(k)
  BY <1>4, <1>6 DEF Known
<1>8. \A p \in Known(k) : j.records[p].nodes = k.records[p].nodes /\ j.records[p].image = k.records[p].image
  BY <1>2, <1>3, <1>6
<1> QED
  BY <1>2, <1>3, <1>6, <1>7, <1>8 DEF Indexed

-----------------------------------------------------------------------------
(* Who holds a record.                                                     *)

\* The calls of `calls` that hold the record of o.
HoldersIn(calls, o) ==
  {c \in VsCalls : calls[c].pinned = o \/ (c = o /\ calls[c].pc \in ReservingPcs)}

\* The holders of a state, and of the next one.
LEMMA HoldersAre ==
  /\ \A o : Holders(o) = HoldersIn(vsCall, o)
  /\ (\A o \in Known(vsCache) : vsCache.records[o].pins = Cardinality(Holders(o)))'
       = \A o \in Known(vsCache') : vsCache'.records[o].pins = Cardinality(HoldersIn(vsCall', o))
BY DEF Holders, HoldersIn, Reserving, ReservingPcs, Known

\* They are finitely many.
LEMMA HoldersFinite ==
  ASSUME NEW calls, NEW o
  PROVE  IsFiniteSet(HoldersIn(calls, o)) /\ Cardinality(HoldersIn(calls, o)) \in Nat
<1>1. HoldersIn(calls, o) \subseteq VsCalls
  BY DEF HoldersIn
<1> QED
  BY <1>1, VisualAssumption, FS_Subset, FS_CardinalityType

\* A call that moves without taking or giving up a pin changes no holders.
LEMMA HoldersSame ==
  ASSUME NEW calls \in [VsCalls -> CallStates], NEW c \in VsCalls, NEW y \in CallStates,
         y.pinned = calls[c].pinned,
         y.pc \in ReservingPcs <=> calls[c].pc \in ReservingPcs, NEW o
  PROVE  HoldersIn([calls EXCEPT ![c] = y], o) = HoldersIn(calls, o)
BY DEF HoldersIn

\* One that takes a pin is a holder more.
LEMMA HoldersMore ==
  ASSUME NEW c \in VsCalls, \A d \in VsCalls \ {c} : vsCall'[d] = vsCall[d],
         vsCall[c].pinned = NoOne, NEW o \in VsCalls, vsCall'[c].pinned = o,
         vsCall'[c].pc \notin ReservingPcs, vsCall[c].pc \notin ReservingPcs
  PROVE  /\ Cardinality(HoldersIn(vsCall', o)) = Cardinality(HoldersIn(vsCall, o)) + 1
         /\ \A p \in VsCalls \ {o} : HoldersIn(vsCall', p) = HoldersIn(vsCall, p)
<1>0. NoOne \notin VsCalls
  BY VisualAssumption DEF NoOne
<1>1. c \notin HoldersIn(vsCall, o) /\ HoldersIn(vsCall', o) = HoldersIn(vsCall, o) \cup {c}
  BY <1>0 DEF HoldersIn
<1>2. Cardinality(HoldersIn(vsCall, o) \cup {c}) = Cardinality(HoldersIn(vsCall, o)) + 1
  BY <1>1, HoldersFinite, FS_AddElement
<1>3. \A p \in VsCalls \ {o} : HoldersIn(vsCall', p) = HoldersIn(vsCall, p)
  BY <1>0 DEF HoldersIn
<1> QED
  BY <1>1, <1>2, <1>3

\* One that gives its pin up is a holder less.
LEMMA HoldersLess ==
  ASSUME NEW c \in VsCalls, \A d \in VsCalls \ {c} : vsCall'[d] = vsCall[d],
         vsCall'[c].pinned = NoOne, NEW o \in VsCalls, vsCall[c].pinned = o,
         vsCall'[c].pc \notin ReservingPcs, vsCall[c].pc \notin ReservingPcs
  PROVE  /\ Cardinality(HoldersIn(vsCall, o)) > 0
         /\ Cardinality(HoldersIn(vsCall', o)) = Cardinality(HoldersIn(vsCall, o)) - 1
         /\ \A p \in VsCalls \ {o} : HoldersIn(vsCall', p) = HoldersIn(vsCall, p)
<1>0. NoOne \notin VsCalls
  BY VisualAssumption DEF NoOne
<1>1. c \in HoldersIn(vsCall, o) /\ HoldersIn(vsCall', o) = HoldersIn(vsCall, o) \ {c}
  BY <1>0 DEF HoldersIn
<1>2. Cardinality(HoldersIn(vsCall, o) \ {c}) = Cardinality(HoldersIn(vsCall, o)) - 1
  BY <1>1, HoldersFinite, FS_RemoveElement
<1>3. Cardinality(HoldersIn(vsCall, o) \ {c}) \in Nat /\ Cardinality(HoldersIn(vsCall, o)) \in Nat
  BY <1>1, HoldersFinite
<1>4. \A p \in VsCalls \ {o} : HoldersIn(vsCall', p) = HoldersIn(vsCall, p)
  BY <1>0 DEF HoldersIn
<1>5. Cardinality(HoldersIn(vsCall, o)) > 0
  BY <1>2, <1>3
<1> QED
  BY <1>1, <1>2, <1>4, <1>5

\* A record in the making has a holder.
LEMMA ReservingHolds ==
  ASSUME NEW calls, NEW c \in VsCalls, calls[c].pc \in ReservingPcs
  PROVE  Cardinality(HoldersIn(calls, c)) # 0
<1>1. c \in HoldersIn(calls, c)
  BY DEF HoldersIn
<1> QED
  BY <1>1, HoldersFinite, FS_EmptySet

-----------------------------------------------------------------------------
(* How a call moves.                                                       *)

\* What every step of a call does, apart from its pin: it ends, it is admitted, it passes
\* its lease check, or it goes on with what it has.
Advances(x, y) ==
  /\ y \in CallStates /\ x.pc # "done"
  /\ y.pinned # NoOne => y.pc \in PinningPcs
  /\ \/ y.pc = "done" /\ y.about = NoOne /\ y.pinned = NoOne /\ y.grants = 0
     \/ /\ y.pc = "admitted" /\ y.pinned = NoOne /\ y.grants = 0
        /\ y.about = NoOne \/ (y.about \in VsCalls /\ Stands(y.about, "done"))
     \/ /\ y.pc = "target" /\ y.form \in Interacts /\ y.about = x.about /\ y.grants = vsGrants
        /\ vsCache'.lease # Absent => y.lease = vsCache'.lease.id
     \/ /\ y.pc \notin {"idle", "admitted", "done"} /\ y.about = x.about
        /\ y.grants = x.grants /\ y.lease = x.lease /\ y.form = x.form
        /\ x.pc = "admitted" => y.form \notin Interacts
        /\ x.pc # "idle"
        /\ y.pc \in {"target", "package", "check", "scene", "deliver"} => y.form \in Interacts

\* The rest of the state keeps its type.
RestOK ==
  /\ vsScreen' = vsScreen /\ vsCap' = vsCap /\ vsClock' = vsClock /\ vsGrants' = vsGrants

\* What the call names and pins is over, as what every other call does.
LEMMA AdvanceRefers ==
  ASSUME VsInv, NEW c \in VsCalls, NEW y, Advances(vsCall[c], y),
         vsCall' = [vsCall EXCEPT ![c] = y], y.pinned # NoOne => Stands(y.pinned, "done")
  PROVE  Refers' /\ vsCall' \in [VsCalls -> CallStates]
<1>1. vsCall \in [VsCalls -> CallStates] /\ Refers
  BY DEF VsInv, VsTypeOK
<1>2. vsCall' \in [VsCalls -> CallStates] /\ vsCall'[c] = y /\ \A d \in VsCalls \ {c} : vsCall'[d] = vsCall[d]
  BY <1>1 DEF Advances
<1>3. \A d \in VsCalls : Stands(d, "done") => vsCall'[d].pc = "done"
  BY <1>2 DEF Advances, Stands
<1>4. \A d \in VsCalls : /\ vsCall[d].about \in VsCalls \cup {NoOne}
                         /\ vsCall[d].pinned \in VsCalls \cup {NoOne}
  BY <1>1 DEF CallStates
<1>5. /\ y.pinned \in VsCalls \cup {NoOne}
      /\ y.about = NoOne \/ y.about = vsCall[c].about \/ (y.about \in VsCalls /\ Stands(y.about, "done"))
  BY DEF Advances, CallStates
<1>6. ASSUME NEW d \in VsCalls, d # c
      PROVE  /\ vsCall'[d].about # NoOne => vsCall'[vsCall'[d].about].pc = "done"
             /\ vsCall'[d].pinned # NoOne => /\ vsCall'[vsCall'[d].pinned].pc = "done"
                                             /\ vsCall'[d].pc \in PinningPcs
  <2>1. vsCall'[d] = vsCall[d]
    BY <1>2, <1>6
  <2> QED
    BY <1>1, <1>3, <1>4, <2>1 DEF Refers, Stands
<1>7. /\ y.about # NoOne => vsCall'[y.about].pc = "done"
      /\ y.pinned # NoOne => vsCall'[y.pinned].pc = "done" /\ y.pc \in PinningPcs
  BY <1>1, <1>3, <1>4, <1>5 DEF Refers, Stands, Advances
<1> QED
  BY <1>2, <1>6, <1>7 DEF Refers, Stands

\* The lease is the one that was held, or there is none.
LEMMA AdvanceLease ==
  ASSUME VsInv, NEW c \in VsCalls, NEW y, Advances(vsCall[c], y),
         vsCall' = [vsCall EXCEPT ![c] = y], vsGrants' = vsGrants,
         vsCache'.lease # Absent => vsCache.lease # Absent /\ vsCache'.lease.id = vsCache.lease.id
  PROVE  LeaseChecked'
<1>1. vsCall \in [VsCalls -> CallStates] /\ LeaseChecked /\ vsGrants \in Nat
  BY DEF VsInv, VsTypeOK
<1>2. vsCall'[c] = y /\ \A d \in VsCalls \ {c} : vsCall'[d] = vsCall[d]
  BY <1>1
<1>3. y.grants <= vsGrants
  BY <1>1 DEF Advances, LeaseChecked
<1>4. ASSUME vsCache'.lease # Absent, y.form \in Interacts, y.pc \notin {"idle", "admitted", "done"}
      PROVE  y.lease = vsCache'.lease.id \/ y.grants < vsCache'.lease.id
  <2>1. CASE y.grants = vsGrants /\ y.lease = vsCache'.lease.id
    BY <2>1
  <2>2. CASE /\ y.grants = vsCall[c].grants /\ y.lease = vsCall[c].lease
             /\ vsCall[c].pc \notin {"idle", "admitted", "done"} /\ vsCall[c].form \in Interacts
    BY <1>1, <1>4, <2>2 DEF LeaseChecked
  <2> QED
    BY <1>4, <2>1, <2>2 DEF Advances
<1>5. y.pc \in {"target", "package", "check", "scene", "deliver"} => y.form \in Interacts
  BY DEF Advances
<1> QED
  BY <1>1, <1>2, <1>3, <1>4, <1>5 DEF LeaseChecked

\* A step that leaves its call's pin and reservation alone, and keeps of the cache some
\* records, with every reservation among them.
LEMMA AdvanceInv ==
  ASSUME VsInv, NEW c \in VsCalls, NEW y, Advances(vsCall[c], y),
         vsCall' = [vsCall EXCEPT ![c] = y], RestOK,
         y.pinned = vsCall[c].pinned,
         y.pc \in ReservingPcs <=> vsCall[c].pc \in ReservingPcs,
         Indexed(vsCache'), NEW kept \in SUBSET Known(vsCache), Known(vsCache') = kept,
         \A o \in kept : vsCache'.records[o] = vsCache.records[o],
         \A d \in VsCalls : Reserving(d) => d \in kept,
         vsCache'.lease # Absent => vsCache.lease # Absent /\ vsCache'.lease.id = vsCache.lease.id
  PROVE  VsInv'
<1>0. /\ vsCall \in [VsCalls -> CallStates] /\ vsCache \in Caches /\ y \in CallStates
      /\ IsFiniteSet(Known(vsCache)) /\ Cardinality(Known(vsCache)) \in Nat
      /\ Known(vsCache) \subseteq VsCalls
  BY RecordsAre DEF VsInv, VsTypeOK, Advances
<1>1. Refers' /\ vsCall' \in [VsCalls -> CallStates]
  <2>1. y.pinned # NoOne => Stands(y.pinned, "done")
    BY DEF VsInv, Refers
  <2> QED
    BY <2>1, AdvanceRefers
<1>2. LeaseChecked'
  BY AdvanceLease DEF RestOK
<1>3. VsTypeOK'
  BY <1>1 DEF VsInv, VsTypeOK, RestOK, Indexed
<1>4. vsCall'[c] = y /\ \A d \in VsCalls \ {c} : vsCall'[d] = vsCall[d]
  BY <1>0
<1>5. Reserved'
  <2>1. \A d \in VsCalls : vsCall'[d].pc \in ReservingPcs <=> vsCall[d].pc \in ReservingPcs
    BY <1>4
  <2>2. \A d \in VsCalls : vsCall[d].pc = "done" => vsCall'[d].pc = "done"
    BY <1>4 DEF Advances
  <2>3. \A d \in VsCalls : Reserving(d) <=> vsCall[d].pc \in ReservingPcs
    BY DEF Reserving, ReservingPcs
  <2>4. \A d \in VsCalls : Reserving(d)' <=> vsCall'[d].pc \in ReservingPcs
    BY DEF Reserving, ReservingPcs
  <2> QED
    BY <1>0, <2>1, <2>2, <2>3, <2>4 DEF VsInv, Reserved, Stands
<1>6. PinsHeld'
  <2>1. \A o \in Known(vsCache) : vsCache.records[o].pins = Cardinality(HoldersIn(vsCall, o))
    BY HoldersAre DEF VsInv, PinsHeld
  <2>2. \A o : HoldersIn(vsCall', o) = HoldersIn(vsCall, o)
    BY <1>0, HoldersSame
  <2>3. \A o \in Known(vsCache') : vsCache'.records[o].pins = Cardinality(HoldersIn(vsCall', o))
    BY <2>1, <2>2
  <2>4. Cardinality(kept) <= VsLimit
    <3>1. Cardinality(Known(vsCache)) <= VsLimit /\ VsLimit \in Nat
      BY VisualAssumption DEF VsInv, PinsHeld
    <3>2. IsFiniteSet(kept) /\ Cardinality(kept) <= Cardinality(Known(vsCache))
      BY <1>0, FS_Subset
    <3>3. Cardinality(kept) \in Nat
      BY <3>2, FS_CardinalityType
    <3> QED
      BY <1>0, <3>1, <3>2, <3>3
  <2>5. (\A o \in Known(vsCache) : vsCache.records[o].pins = Cardinality(Holders(o)))'
    BY <2>3, HoldersAre
  <2>6. Cardinality(Known(vsCache)')  <= VsLimit /\ Known(vsCache') = Known(vsCache)'
    BY <2>4 DEF Known
  <2> QED
    BY <2>5, <2>6 DEF PinsHeld, Indexed, Known
<1> QED
  BY <1>1, <1>2, <1>3, <1>5, <1>6 DEF VsInv

\* The same with the cache as it was.
LEMMA QuietInv ==
  ASSUME VsInv, NEW c \in VsCalls, NEW y, Advances(vsCall[c], y),
         vsCall' = [vsCall EXCEPT ![c] = y], RestOK, vsCache' = vsCache,
         y.pinned = vsCall[c].pinned,
         y.pc \in ReservingPcs <=> vsCall[c].pc \in ReservingPcs
  PROVE  VsInv'
<1>1. Indexed(vsCache') /\ Known(vsCache') = Known(vsCache)
  BY DEF VsInv, VsTypeOK, PinsHeld, Indexed
<1>2. \A d \in VsCalls : Reserving(d) => d \in Known(vsCache)
  BY DEF VsInv, Reserved
<1> QED
  BY <1>1, <1>2, AdvanceInv

\* A call that was not made.
LEMMA FreshIs ==
  /\ Fresh \in CallStates /\ Fresh.about = NoOne /\ Fresh.pinned = NoOne /\ Fresh.grants = 0
  /\ Fresh.pc = "idle" /\ Fresh.form = "none"
<1>1. Unstated \in Executors /\ "idle" \in VsPcs /\ NoOne \in Nat
  BY DEF Unstated, Executors, Readers, VsPcs, NoOne
<1> QED
  BY <1>1 DEF Fresh, CallStates

\* Of a call that is over nothing is left that holds anything.
LEMMA OverIs ==
  ASSUME VsInv, NEW c \in VsCalls, NEW ok \in BOOLEAN, vsCall[c].pc # "done"
  PROVE  Advances(vsCall[c], Over(c, ok)) /\ Over(c, ok).pinned = NoOne /\ Over(c, ok).pc = "done"
<1> DEFINE form == IF ok /\ vsCall[c].form = "observe" THEN "observe" ELSE "none"
           y == [Fresh EXCEPT !.pc = "done", !.ok = ok, !.form = form]
<1>1. form \in Forms \cup {"none"}
  BY DEF Forms
<1>2. Over(c, ok) = y
  BY DEF Over
<1> HIDE DEF form
<1>3. /\ y \in CallStates /\ y.pc = "done" /\ y.about = NoOne /\ y.pinned = NoOne /\ y.grants = 0
  <2>1. Fresh \in CallStates /\ Fresh.about = NoOne /\ Fresh.pinned = NoOne /\ Fresh.grants = 0
    BY FreshIs
  <2>2. "done" \in VsPcs
    BY DEF VsPcs
  <2> QED
    BY <1>1, <2>1, <2>2 DEF CallStates
<1> HIDE DEF y
<1> QED
  BY <1>2, <1>3 DEF Advances

\* Goes, as it is seen from the whole call.
LEMMA GoesInv ==
  ASSUME VsInv, NEW c \in VsCalls, vsCall[c].pc \notin {"idle", "admitted", "done"},
         NEW pc \in VsPcs, pc \notin {"idle", "admitted", "done"},
         vsCall[c].pinned # NoOne => pc \in PinningPcs,
         pc \in {"target", "package", "check", "scene", "deliver"} => vsCall[c].form \in Interacts,
         Goes(c, pc), RestOK, vsCache' = vsCache,
         pc \in ReservingPcs <=> vsCall[c].pc \in ReservingPcs
  PROVE  VsInv'
<1>1. vsCall \in [VsCalls -> CallStates] /\ vsCall[c] \in CallStates /\ vsCall[c].ok \in BOOLEAN
  BY DEF VsInv, VsTypeOK, CallStates
<1> DEFINE y == [vsCall[c] EXCEPT !.pc = pc]
<1>2. vsCall' = [vsCall EXCEPT ![c] = y]
  BY <1>1 DEF Goes, CallStates
<1>3. /\ y \in CallStates /\ y.pc = pc /\ y.pinned = vsCall[c].pinned /\ y.about = vsCall[c].about
      /\ y.grants = vsCall[c].grants /\ y.lease = vsCall[c].lease /\ y.form = vsCall[c].form
  BY <1>1 DEF CallStates
<1> HIDE DEF y
<1>4. Advances(vsCall[c], y)
  BY <1>3 DEF Advances
<1> QED
  BY <1>2, <1>3, <1>4, QuietInv

\* Closes without anything held.
LEMMA ClosesInv ==
  ASSUME VsInv, NEW c \in VsCalls, vsCall[c].pc # "done", NEW ok \in BOOLEAN, Closes(c, ok),
         RestOK, vsCache' = vsCache, vsCall[c].pinned = NoOne, vsCall[c].pc \notin ReservingPcs
  PROVE  VsInv'
<1>1. vsCall' = [vsCall EXCEPT ![c] = Over(c, ok)]
  BY DEF Closes
<1>2. "done" \notin ReservingPcs
  BY DEF ReservingPcs
<1> QED
  BY <1>1, <1>2, OverIs, QuietInv

\* Fails: the pin is given back first.
LEMMA FailsInv ==
  ASSUME VsInv, NEW c \in VsCalls, vsCall[c].pc \notin {"idle", "admitted", "done"},
         vsCall[c].pc \notin ReservingPcs, Fails(c), RestOK, vsCache' = vsCache
  PROVE  VsInv'
<1>1. CASE vsCall[c].pinned = NoOne
  BY <1>1, ClosesInv DEF Fails
<1>2. CASE vsCall[c].pinned # NoOne
  <2>1. vsCall \in [VsCalls -> CallStates] /\ vsCall[c] \in CallStates
    BY DEF VsInv, VsTypeOK
  <2> DEFINE y == [vsCall[c] EXCEPT !.pc = "unpin", !.ok = FALSE]
  <2>2. vsCall' = [vsCall EXCEPT ![c] = y]
    BY <1>2, <2>1 DEF Fails, CallStates
  <2>3. "unpin" \in VsPcs /\ "unpin" \in PinningPcs /\ "unpin" \notin ReservingPcs
    BY DEF VsPcs, PinningPcs, ReservingPcs
  <2>4. /\ y \in CallStates /\ y.pc = "unpin" /\ y.pinned = vsCall[c].pinned
        /\ y.about = vsCall[c].about /\ y.grants = vsCall[c].grants
        /\ y.lease = vsCall[c].lease /\ y.form = vsCall[c].form
    BY <2>1, <2>3 DEF CallStates
  <2> HIDE DEF y
  <2>5. Advances(vsCall[c], y)
    BY <2>3, <2>4 DEF Advances
  <2> QED
    BY <2>2, <2>3, <2>4, <2>5, QuietInv
<1> QED
  BY <1>1, <1>2

-----------------------------------------------------------------------------
(* Steps that take, give up or drop a record.                              *)

\* What a step that touches pins, reservations or the lease has to show.
LEMMA CoreInv ==
  ASSUME VsInv, NEW c \in VsCalls, NEW y, Advances(vsCall[c], y),
         vsCall' = [vsCall EXCEPT ![c] = y], UNCHANGED <<vsScreen, vsCap, vsClock>>, vsGrants' \in Nat,
         y.pinned # NoOne => Stands(y.pinned, "done"),
         Indexed(vsCache'), Cardinality(Known(vsCache')) <= VsLimit,
         \A o \in Known(vsCache') : vsCall'[o].pc \in ReservingPcs \/ vsCall'[o].pc = "done",
         \A d \in VsCalls : vsCall'[d].pc \in ReservingPcs => d \in Known(vsCache'),
         \A o \in Known(vsCache') : vsCache'.records[o].pins = Cardinality(HoldersIn(vsCall', o)),
         LeaseChecked'
  PROVE  VsInv'
<1>1. Refers' /\ vsCall' \in [VsCalls -> CallStates]
  BY AdvanceRefers
<1>3. VsTypeOK'
  BY <1>1 DEF VsInv, VsTypeOK, Indexed
<1>4. Reserved'
  <2>1. \A d : Reserving(d)' <=> vsCall'[d].pc \in ReservingPcs
    BY DEF Reserving, ReservingPcs
  <2>2. Known(vsCache)' = Known(vsCache')
    BY DEF Known
  <2> QED
    BY <2>1, <2>2 DEF Reserved, Stands
<1>5. PinsHeld'
  <2>1. (\A o \in Known(vsCache) : vsCache.records[o].pins = Cardinality(Holders(o)))'
    BY HoldersAre
  <2>2. Cardinality(Known(vsCache)') <= VsLimit /\ Known(vsCache') = Known(vsCache)'
    BY DEF Known
  <2> QED
    BY <2>1, <2>2 DEF PinsHeld, Indexed, Known
<1> QED
  BY <1>1, <1>3, <1>4, <1>5 DEF VsInv

\* The same for a step that grants no lease.
LEMMA StepInv ==
  ASSUME VsInv, NEW c \in VsCalls, NEW y, Advances(vsCall[c], y),
         vsCall' = [vsCall EXCEPT ![c] = y], RestOK,
         y.pinned # NoOne => Stands(y.pinned, "done"),
         Indexed(vsCache'), Cardinality(Known(vsCache')) <= VsLimit,
         \A o \in Known(vsCache') : vsCall'[o].pc \in ReservingPcs \/ vsCall'[o].pc = "done",
         \A d \in VsCalls : vsCall'[d].pc \in ReservingPcs => d \in Known(vsCache'),
         \A o \in Known(vsCache') : vsCache'.records[o].pins = Cardinality(HoldersIn(vsCall', o)),
         vsCache'.lease # Absent => vsCache.lease # Absent /\ vsCache'.lease.id = vsCache.lease.id
  PROVE  VsInv'
<1>1. LeaseChecked'
  BY AdvanceLease DEF RestOK
<1>2. UNCHANGED <<vsScreen, vsCap, vsClock>> /\ vsGrants' \in Nat
  BY DEF RestOK, VsInv, VsTypeOK
<1> QED
  BY <1>1, <1>2, CoreInv

\* What the invariant says of the state, in the terms of these lemmas.
LEMMA NowIs ==
  ASSUME VsInv
  PROVE  /\ Indexed(vsCache) /\ vsCache \in Caches /\ vsCall \in [VsCalls -> CallStates]
         /\ Known(vsCache) \subseteq VsCalls /\ Cardinality(Known(vsCache)) <= VsLimit
         /\ vsCache.records \in [Known(vsCache) -> VsRecords]
         /\ \A o \in Known(vsCache) : vsCall[o].pc \in ReservingPcs \/ vsCall[o].pc = "done"
         /\ \A d \in VsCalls : vsCall[d].pc \in ReservingPcs => d \in Known(vsCache)
         /\ \A o \in Known(vsCache) : vsCache.records[o].pins = Cardinality(HoldersIn(vsCall, o))
         /\ vsScreen \in [display : Nat, window : Nat, node : Nat, rest : Nat]
         /\ vsCap \in Executors /\ vsClock \in Nat /\ vsGrants \in Nat
<1>1. vsCache \in Caches /\ vsCall \in [VsCalls -> CallStates] /\ Indexed(vsCache)
  BY DEF VsInv, VsTypeOK, PinsHeld, Indexed
<1>2. \A d : Reserving(d) <=> vsCall[d].pc \in ReservingPcs
  BY DEF Reserving, ReservingPcs
<1>3. \A o \in Known(vsCache) : vsCall[o].pc \in ReservingPcs \/ vsCall[o].pc = "done"
  BY <1>2 DEF VsInv, Reserved, Stands
<1>4. \A d \in VsCalls : vsCall[d].pc \in ReservingPcs => d \in Known(vsCache)
  BY <1>2 DEF VsInv, Reserved
<1>5. \A o \in Known(vsCache) : vsCache.records[o].pins = Cardinality(HoldersIn(vsCall, o))
  BY HoldersAre DEF VsInv, PinsHeld
<1>6. Cardinality(Known(vsCache)) <= VsLimit
  BY DEF VsInv, PinsHeld
<1>7. /\ vsScreen \in [display : Nat, window : Nat, node : Nat, rest : Nat]
      /\ vsCap \in Executors /\ vsClock \in Nat /\ vsGrants \in Nat
  BY DEF VsInv, VsTypeOK
<1> QED
  BY <1>1, <1>3, <1>4, <1>5, <1>6, <1>7, RecordsAre

\* A call of which nothing else is known stays where it was.
LEMMA MovesOne ==
  ASSUME VsInv, NEW c \in VsCalls, NEW y, vsCall' = [vsCall EXCEPT ![c] = y]
  PROVE  vsCall'[c] = y /\ \A d \in VsCalls \ {c} : vsCall'[d] = vsCall[d]
BY DEF VsInv, VsTypeOK

\* pin_key on a record that is there: one pin more, one holder more.
LEMMA PinTaken ==
  ASSUME VsInv, NEW c \in VsCalls, NEW y, Advances(vsCall[c], y),
         vsCall' = [vsCall EXCEPT ![c] = y], RestOK,
         vsCall[c].pinned = NoOne, vsCall[c].pc \notin ReservingPcs, y.pc \in PinningPcs,
         NEW o \in Known(vsCache), y.pinned = o, Stands(o, "done"),
         vsCache' = [vsCache EXCEPT !.records[o].pins = @ + 1]
  PROVE  VsInv'
<1>0. vsCache \in Caches /\ vsCall \in [VsCalls -> CallStates] /\ o \in VsCalls /\ y \in CallStates
  BY NowIs DEF Advances
<1>1. vsCache.records[o].pins \in Nat
  BY NowIs DEF VsRecords
<1> DEFINE n == vsCache.records[o].pins + 1
<1>2. vsCache' = [vsCache EXCEPT !.records = [vsCache.records EXCEPT ![o] =
                    [vsCache.records[o] EXCEPT !.pins = n]]]
  OBVIOUS
<1>3. n \in Nat /\ n = vsCache.records[o].pins + 1
  BY <1>1
<1> HIDE DEF n
<1>4. /\ Indexed(vsCache') /\ vsCache'.lease = vsCache.lease /\ Known(vsCache') = Known(vsCache)
      /\ vsCache'.records[o].pins = n
      /\ \A p \in Known(vsCache) \ {o} : vsCache'.records[p] = vsCache.records[p]
  BY <1>2, <1>3, PinsIs, NowIs
<1>5. y.pc \notin ReservingPcs /\ y.pc # "done"
  BY DEF PinningPcs, ReservingPcs
<1>7. vsCall'[c] = y /\ \A d \in VsCalls \ {c} : vsCall'[d] = vsCall[d]
  BY MovesOne
<1>6. /\ Cardinality(HoldersIn(vsCall', o)) = Cardinality(HoldersIn(vsCall, o)) + 1
      /\ \A p \in VsCalls \ {o} : HoldersIn(vsCall', p) = HoldersIn(vsCall, p)
  <2>1. /\ Cardinality(HoldersIn(vsCall', o)) = Cardinality(HoldersIn(vsCall, o)) + 1
        /\ \A p \in VsCalls \ {o} : HoldersIn(vsCall', p) = HoldersIn(vsCall, p)
    BY <1>0, <1>5, <1>7, HoldersMore
  <2> QED
    BY <2>1
<1>8. \A p \in Known(vsCache') : vsCache'.records[p].pins = Cardinality(HoldersIn(vsCall', p))
  <2>1. \A p \in Known(vsCache) : p \in VsCalls /\ vsCache.records[p].pins = Cardinality(HoldersIn(vsCall, p))
    BY NowIs
  <2> QED
    BY <1>3, <1>4, <1>6, <2>1
<1>9. vsCall[c].pc # "done" /\ c \notin Known(vsCache)
  BY NowIs DEF Advances
<1>10. \A p \in Known(vsCache') : vsCall'[p].pc \in ReservingPcs \/ vsCall'[p].pc = "done"
  BY <1>4, <1>7, <1>9, NowIs
<1>11. \A d \in VsCalls : vsCall'[d].pc \in ReservingPcs => d \in Known(vsCache')
  BY <1>4, <1>5, <1>7, NowIs
<1> QED
  BY <1>4, <1>8, <1>10, <1>11, NowIs, StepInv

\* unpin: the record may be gone by then.
LEMMA PinGiven ==
  ASSUME VsInv, NEW c \in VsCalls, NEW y, Advances(vsCall[c], y),
         vsCall' = [vsCall EXCEPT ![c] = y], RestOK,
         vsCall[c].pinned # NoOne, vsCall[c].pc \notin ReservingPcs,
         y.pinned = NoOne, y.pc \notin ReservingPcs,
         vsCache' = unpin(vsCache, vsCall[c].pinned)
  PROVE  VsInv'
<1>1. PICK o : o = vsCall[c].pinned
  OBVIOUS
<1>0. vsCache \in Caches /\ vsCall \in [VsCalls -> CallStates] /\ o \in VsCalls /\ y \in CallStates
  BY <1>1, NowIs DEF Advances, CallStates
<1>7. vsCall'[c] = y /\ \A d \in VsCalls \ {c} : vsCall'[d] = vsCall[d]
  BY MovesOne
<1>6. /\ Cardinality(HoldersIn(vsCall, o)) > 0
      /\ Cardinality(HoldersIn(vsCall', o)) = Cardinality(HoldersIn(vsCall, o)) - 1
      /\ \A p \in VsCalls \ {o} : HoldersIn(vsCall', p) = HoldersIn(vsCall, p)
  <2>1. vsCall[c].pinned = o
    BY <1>1
  <2>2. /\ Cardinality(HoldersIn(vsCall, o)) > 0
        /\ Cardinality(HoldersIn(vsCall', o)) = Cardinality(HoldersIn(vsCall, o)) - 1
        /\ \A p \in VsCalls \ {o} : HoldersIn(vsCall', p) = HoldersIn(vsCall, p)
    BY <1>0, <1>7, <2>1, HoldersLess
  <2> QED
    BY <2>2
<1>9. vsCall[c].pc # "done" /\ c \notin Known(vsCache)
  BY NowIs DEF Advances
<1>4. /\ Indexed(vsCache') /\ vsCache'.lease = vsCache.lease /\ Known(vsCache') = Known(vsCache)
      /\ \A p \in Known(vsCache') : vsCache'.records[p].pins = Cardinality(HoldersIn(vsCall', p))
  <2>1. CASE o \in Known(vsCache)
    <3>1. vsCache.records[o].pins \in Nat /\ vsCache.records[o].pins > 0
      BY <1>6, <2>1, NowIs DEF VsRecords
    <3>2. PICK n \in Nat : n = vsCache.records[o].pins - 1
      BY <3>1
    <3>3. vsCache' = [vsCache EXCEPT !.records = [vsCache.records EXCEPT ![o] =
                        [vsCache.records[o] EXCEPT !.pins = n]]]
      BY <1>1, <2>1, <3>1, <3>2 DEF unpin
    <3>4. /\ Indexed(vsCache') /\ vsCache'.lease = vsCache.lease /\ Known(vsCache') = Known(vsCache)
          /\ vsCache'.records[o].pins = n
          /\ \A p \in Known(vsCache) \ {o} : vsCache'.records[p] = vsCache.records[p]
      <4>1. Indexed(vsCache)
        BY NowIs
      <4> QED
        BY <2>1, <3>3, <4>1, PinsIs, NowIs, SMTT(60)
    <3> QED
      BY <1>6, <3>2, <3>4, NowIs
  <2>2. CASE o \notin Known(vsCache)
    <3>1. vsCache' = vsCache
      BY <1>1, <2>2 DEF unpin
    <3> QED
      BY <1>6, <2>2, <3>1, NowIs
  <2> QED
    BY <2>1, <2>2
<1>10. \A p \in Known(vsCache') : vsCall'[p].pc \in ReservingPcs \/ vsCall'[p].pc = "done"
  BY <1>4, <1>7, <1>9, NowIs
<1>11. \A d \in VsCalls : vsCall'[d].pc \in ReservingPcs => d \in Known(vsCache')
  BY <1>4, <1>7, NowIs
<1> QED
  BY <1>4, <1>10, <1>11, NowIs, StepInv

\* A step that drops the record of an observation that is over, or nothing.
LEMMA RecordDropped ==
  ASSUME VsInv, NEW c \in VsCalls, NEW y, Advances(vsCall[c], y),
         vsCall' = [vsCall EXCEPT ![c] = y], RestOK,
         y.pinned = vsCall[c].pinned,
         y.pc \in ReservingPcs <=> vsCall[c].pc \in ReservingPcs,
         NEW o, o \in VsCalls => Stands(o, "done"), vsCache' = Drop(vsCache, {o})
  PROVE  VsInv'
<1>1. Indexed(vsCache') /\ Keeps(vsCache, vsCache', Known(vsCache) \ {o})
  BY DropIs, NowIs
<1>2. \A d \in VsCalls : Reserving(d) => d \in Known(vsCache) \ {o}
  BY NowIs DEF Stands, Reserving, ReservingPcs
<1>3. Known(vsCache) \ {o} \in SUBSET Known(vsCache)
  OBVIOUS
<1> DEFINE kept == Known(vsCache) \ {o}
<1>4. /\ kept \in SUBSET Known(vsCache) /\ Known(vsCache') = kept
      /\ \A p \in kept : vsCache'.records[p] = vsCache.records[p]
      /\ \A d \in VsCalls : Reserving(d) => d \in kept
      /\ vsCache'.lease = vsCache.lease
  BY <1>1, <1>2 DEF Keeps
<1> HIDE DEF kept
<1> QED
  BY <1>1, <1>4, AdvanceInv

-----------------------------------------------------------------------------
(* The actions that move no record.                                        *)

\* What RestOK asks for is unchanged in nearly every action.
LEMMA RestIs ==
  ASSUME UNCHANGED <<vsScreen, vsCap, vsClock, vsGrants>>
  PROVE  RestOK
BY DEF RestOK

\* A call holds a pin only where it may.
LEMMA Unpinned ==
  ASSUME VsInv, NEW c \in VsCalls, vsCall[c].pc \notin PinningPcs
  PROVE  vsCall[c].pinned = NoOne
BY DEF VsInv, Refers

\* An asked call is fresh: it holds nothing yet.
LEMMA AskInv ==
  ASSUME VsInv, NEW c \in VsCalls, NEW form \in Forms, VsAsk(c, form)
  PROVE  VsInv'
<1>1. PICK nodes \in BOOLEAN, about \in Named(form), lease \in Presented(form) :
        vsCall' = [vsCall EXCEPT ![c] = [Fresh EXCEPT
                     !.pc = "admitted", !.form = form, !.nodes = nodes, !.about = about,
                     !.lease = lease, !.at = vsClock, !.exec = vsCap]]
  BY DEF VsAsk
<1>2. about \in Returned \cup {NoOne} /\ lease \in Nat
  BY NowIs DEF Named, Presented, Points, Interacts, NoOne
<1> DEFINE y == [Fresh EXCEPT !.pc = "admitted", !.form = form, !.nodes = nodes, !.about = about,
                   !.lease = lease, !.at = vsClock, !.exec = vsCap]
<1>3. about \in VsCalls \cup {NoOne} /\ (about # NoOne => Stands(about, "done"))
  BY <1>2 DEF Returned
<1>4. /\ y \in CallStates /\ y.pc = "admitted" /\ y.pinned = NoOne /\ y.grants = 0 /\ y.about = about
  <2>1. Fresh \in CallStates /\ Fresh.pinned = NoOne /\ Fresh.grants = 0
    BY FreshIs
  <2>2. "admitted" \in VsPcs /\ vsCap \in Executors /\ vsClock \in Nat
    BY NowIs DEF VsPcs
  <2> QED
    BY <1>2, <1>3, <2>1, <2>2 DEF CallStates
<1>5. vsCall' = [vsCall EXCEPT ![c] = y]
  BY <1>1
<1> HIDE DEF y
<1>6. vsCall[c].pc = "idle" /\ "idle" \notin PinningPcs /\ "idle" \notin ReservingPcs
      /\ "admitted" \notin ReservingPcs
  BY DEF VsAsk, Stands, PinningPcs, ReservingPcs
<1>7. Advances(vsCall[c], y)
  BY <1>3, <1>4, <1>6 DEF Advances
<1>8. RestOK /\ vsCache' = vsCache
  BY DEF VsAsk, RestOK
<1>9. y.pinned = vsCall[c].pinned
  BY <1>4, <1>6, Unpinned
<1> QED
  BY <1>4, <1>5, <1>6, <1>7, <1>8, <1>9, QuietInv

\* A call whose executor was replaced ends before it holds anything.
LEMMA StaleInv ==
  ASSUME VsInv, NEW c \in VsCalls, VsStale(c)
  PROVE  VsInv'
<1>1. /\ vsCall[c].pc = "admitted" /\ Closes(c, FALSE) /\ RestOK /\ vsCache' = vsCache
      /\ "admitted" \notin PinningPcs /\ "admitted" \notin ReservingPcs
  BY DEF VsStale, Stands, RestOK, PinningPcs, ReservingPcs
<1> QED
  BY <1>1, Unpinned, ClosesInv

\* An observation waits, and holds nothing while it does.
LEMMA SettleInv ==
  ASSUME VsInv, NEW c \in VsCalls, VsSettle(c)
  PROVE  VsInv'
<1>1. /\ vsCall[c].pc = "admitted" /\ vsCall[c].form = "observe" /\ RestOK /\ vsCache' = vsCache
      /\ "admitted" \notin PinningPcs /\ "admitted" \notin ReservingPcs
      /\ "settle" \notin PinningPcs /\ "settle" \notin ReservingPcs /\ "settle" \in VsPcs
      /\ "observe" \notin Interacts
  BY DEF VsSettle, Starts, Stands, RestOK, PinningPcs, ReservingPcs, VsPcs, Interacts, Points
<1>2. vsCall[c] \in CallStates /\ vsCache.lastInput \in Int /\ vsCall[c].pinned = NoOne
      /\ vsCall \in [VsCalls -> CallStates]
  BY <1>1, NowIs, Unpinned DEF Caches
<1> DEFINE t == vsCache.lastInput + 1
           y == [vsCall[c] EXCEPT !.pc = "settle", !.until = t]
<1>3. t \in Int
  BY <1>2
<1>4. vsCall' = [vsCall EXCEPT ![c] = y]
  BY <1>2 DEF VsSettle, CallStates
<1> HIDE DEF t
<1>5. /\ y \in CallStates /\ y.pc = "settle" /\ y.pinned = NoOne /\ y.about = vsCall[c].about
      /\ y.grants = vsCall[c].grants /\ y.lease = vsCall[c].lease /\ y.form = vsCall[c].form
  BY <1>1, <1>2, <1>3 DEF CallStates
<1> HIDE DEF y
<1>6. Advances(vsCall[c], y)
  BY <1>1, <1>5 DEF Advances
<1> QED
  BY <1>1, <1>2, <1>4, <1>5, <1>6, QuietInv

\* An observation in the making goes on with its reservation.
LEMMA MakingInv ==
  ASSUME VsInv, NEW c \in VsCalls, vsCall[c].pc \in ReservingPcs,
         NEW y \in CallStates, vsCall' = [vsCall EXCEPT ![c] = y], RestOK, vsCache' = vsCache,
         y.pc \in ReservingPcs, y.pinned = vsCall[c].pinned, y.about = vsCall[c].about,
         y.grants = vsCall[c].grants, y.lease = vsCall[c].lease, y.form = vsCall[c].form
  PROVE  VsInv'
<1>1. /\ vsCall[c].pc \notin {"idle", "admitted", "done"} /\ vsCall[c].pc \notin PinningPcs
      /\ y.pc \notin {"idle", "admitted", "done", "target", "package", "check", "scene", "deliver"}
  BY DEF ReservingPcs, PinningPcs
<1>2. vsCall[c].pinned = NoOne
  BY <1>1, Unpinned
<1>3. Advances(vsCall[c], y)
  BY <1>1, <1>2 DEF Advances
<1> QED
  BY <1>3, QuietInv

\* So does Goes.
LEMMA MakingGoes ==
  ASSUME VsInv, NEW c \in VsCalls, vsCall[c].pc \in ReservingPcs,
         NEW pc \in ReservingPcs, Goes(c, pc), RestOK, vsCache' = vsCache
  PROVE  VsInv'
<1>1. /\ vsCall[c].pc \notin {"idle", "admitted", "done"} /\ vsCall[c].pc \notin PinningPcs
      /\ pc \notin {"idle", "admitted", "done", "target", "package", "check", "scene", "deliver"}
      /\ pc \in VsPcs
  BY DEF ReservingPcs, PinningPcs, VsPcs
<1> QED
  BY <1>1, Unpinned, GoesInv

\* The display is read under the reservation.
LEMMA DisplayInv ==
  ASSUME VsInv, NEW c \in VsCalls, VsDisplay(c)
  PROVE  VsInv'
<1>1. /\ vsCall[c].pc = "display" /\ RestOK /\ vsCache' = vsCache
      /\ {"display", "image", "undo"} \subseteq ReservingPcs /\ "image" \in VsPcs
  BY DEF VsDisplay, Stands, RestOK, ReservingPcs, VsPcs
<1>2. CASE Goes(c, "undo")
  BY <1>1, <1>2, MakingGoes
<1>3. CASE vsCall' = [vsCall EXCEPT ![c].pc = "image", ![c].display = vsScreen.display]
  <2>1. vsCall[c] \in CallStates /\ vsCall \in [VsCalls -> CallStates] /\ vsScreen.display \in Nat
    BY NowIs
  <2> DEFINE d == vsScreen.display
             y == [vsCall[c] EXCEPT !.pc = "image", !.display = d]
  <2>2. vsCall' = [vsCall EXCEPT ![c] = y]
    BY <1>3, <2>1 DEF CallStates
  <2>3. d \in Nat
    BY <2>1
  <2> HIDE DEF d
  <2>4. /\ y \in CallStates /\ y.pc = "image" /\ y.pinned = vsCall[c].pinned
        /\ y.about = vsCall[c].about /\ y.grants = vsCall[c].grants
        /\ y.lease = vsCall[c].lease /\ y.form = vsCall[c].form
    BY <1>1, <2>1, <2>3 DEF CallStates
  <2> HIDE DEF y
  <2> QED
    BY <1>1, <2>2, <2>4, MakingInv
<1> QED
  BY <1>2, <1>3 DEF VsDisplay

\* The scene on the screen is a scene.
LEMMA SceneIs == VsInv => Scene \in Scenes
BY NowIs DEF Scene, Scenes

\* So is the image.
LEMMA ImageInv ==
  ASSUME VsInv, NEW c \in VsCalls, VsImage(c)
  PROVE  VsInv'
<1>1. /\ vsCall[c].pc = "image" /\ RestOK /\ vsCache' = vsCache
      /\ {"image", "hierarchy", "undo"} \subseteq ReservingPcs /\ "hierarchy" \in VsPcs
  BY DEF VsImage, Stands, RestOK, ReservingPcs, VsPcs
<1>2. CASE Goes(c, "undo") \/ Goes(c, "hierarchy")
  BY <1>1, <1>2, MakingGoes
<1>3. CASE vsCall' = [vsCall EXCEPT ![c].pc = "hierarchy", ![c].shot = Scene]
  <2>1. vsCall[c] \in CallStates /\ vsCall \in [VsCalls -> CallStates] /\ Scene \in Scenes \cup {Absent}
    BY NowIs, SceneIs
  <2> DEFINE y == [vsCall[c] EXCEPT !.pc = "hierarchy", !.shot = Scene]
  <2>2. vsCall' = [vsCall EXCEPT ![c] = y]
    BY <1>3, <2>1 DEF CallStates
  <2>4. /\ y \in CallStates /\ y.pc = "hierarchy" /\ y.pinned = vsCall[c].pinned
        /\ y.about = vsCall[c].about /\ y.grants = vsCall[c].grants
        /\ y.lease = vsCall[c].lease /\ y.form = vsCall[c].form
    BY <1>1, <2>1 DEF CallStates
  <2> HIDE DEF y
  <2> QED
    BY <1>1, <2>2, <2>4, MakingInv
<1> QED
  BY <1>2, <1>3 DEF VsImage

\* So is the hierarchy.
LEMMA HierarchyInv ==
  ASSUME VsInv, NEW c \in VsCalls, VsHierarchy(c)
  PROVE  VsInv'
<1>1. /\ vsCall[c].pc = "hierarchy" /\ RestOK /\ vsCache' = vsCache
      /\ {"complete", "hierarchy", "undo"} \subseteq ReservingPcs /\ "complete" \in VsPcs
  BY DEF VsHierarchy, Stands, RestOK, ReservingPcs, VsPcs
<1>2. CASE Goes(c, "undo") \/ Goes(c, "complete")
  BY <1>1, <1>2, MakingGoes
<1>3. CASE vsCall' = [vsCall EXCEPT ![c].pc = "complete", ![c].scene = Scene,
                        ![c].observed = vsCall[c].nodes]
  <2>1. /\ vsCall[c] \in CallStates /\ vsCall \in [VsCalls -> CallStates]
        /\ Scene \in Scenes \cup {Absent} /\ vsCall[c].nodes \in BOOLEAN
    BY NowIs, SceneIs DEF CallStates
  <2> DEFINE n == vsCall[c].nodes
             y == [vsCall[c] EXCEPT !.pc = "complete", !.scene = Scene, !.observed = n]
  <2>2. vsCall' = [vsCall EXCEPT ![c] = y]
    BY <1>3, <2>1 DEF CallStates
  <2>3. n \in BOOLEAN
    BY <2>1
  <2> HIDE DEF n
  <2>4. /\ y \in CallStates /\ y.pc = "complete" /\ y.pinned = vsCall[c].pinned
        /\ y.about = vsCall[c].about /\ y.grants = vsCall[c].grants
        /\ y.lease = vsCall[c].lease /\ y.form = vsCall[c].form
    BY <1>1, <2>1, <2>3 DEF CallStates
  <2> HIDE DEF y
  <2> QED
    BY <1>1, <2>2, <2>4, MakingInv
<1> QED
  BY <1>2, <1>3 DEF VsHierarchy

\* A view ends, or gives its pin back first.
LEMMA TransformInv ==
  ASSUME VsInv, NEW c \in VsCalls, VsTransform(c)
  PROVE  VsInv'
<1>1. /\ vsCall[c].pc = "open" /\ RestOK /\ vsCache' = vsCache
      /\ "open" \notin ReservingPcs /\ "unpin" \in PinningPcs
      /\ "unpin" \in VsPcs /\ "publish" \in VsPcs
      /\ "unpin" \notin ReservingPcs /\ "publish" \notin ReservingPcs
  BY DEF VsTransform, Stands, RestOK, ReservingPcs, PinningPcs, VsPcs
<1>2. CASE Fails(c)
  BY <1>1, <1>2, FailsInv
<1>3. CASE vsCall[c].pinned # NoOne /\ Goes(c, "unpin")
  BY <1>1, <1>3, GoesInv
<1>4. CASE vsCall[c].pinned = NoOne /\ Goes(c, "publish")
  BY <1>1, <1>4, GoesInv
<1> QED
  BY <1>2, <1>3, <1>4 DEF VsTransform

\* A view publishes once it holds nothing.
LEMMA PublishInv ==
  ASSUME VsInv, NEW c \in VsCalls, VsPublish(c)
  PROVE  VsInv'
<1>1. /\ vsCall[c].pc = "publish" /\ RestOK /\ vsCache' = vsCache
      /\ "publish" \notin ReservingPcs /\ "publish" \notin PinningPcs
      /\ \E ok \in BOOLEAN : Closes(c, ok)
  BY DEF VsPublish, Stands, RestOK, ReservingPcs, PinningPcs
<1> QED
  BY <1>1, Unpinned, ClosesInv

\* The checks and the delivery of an input, under the pin.
LEMMA ChecksInv ==
  ASSUME VsInv, NEW c \in VsCalls, VsCheckDisplay(c) \/ VsCheckScene(c) \/ VsDeliver(c)
  PROVE  VsInv'
<1>1. /\ vsCall[c].pc \in {"check", "scene", "deliver"} /\ RestOK /\ vsCache' = vsCache
  BY DEF VsCheckDisplay, VsCheckScene, VsDeliver, Stands, RestOK
<1>2. {"check", "scene", "deliver", "unpin", "note"} \cap ReservingPcs = {}
      /\ {"scene", "deliver", "unpin"} \subseteq PinningPcs
      /\ {"scene", "deliver", "unpin", "note"} \subseteq VsPcs
  BY DEF ReservingPcs, PinningPcs, VsPcs
<1>3. vsCall[c].form \in Interacts
  BY <1>1 DEF VsInv, LeaseChecked
<1>4. CASE Fails(c)
  BY <1>1, <1>2, <1>4, FailsInv
<1>5. CASE \E pc \in {"scene", "deliver"} : Goes(c, pc)
  BY <1>1, <1>2, <1>3, <1>5, GoesInv
<1>6. CASE vsCall[c].pinned # NoOne /\ Goes(c, "unpin")
  BY <1>1, <1>2, <1>6, GoesInv
<1>7. CASE vsCall[c].pinned = NoOne /\ Goes(c, "note")
  BY <1>1, <1>2, <1>7, GoesInv
<1> QED
  BY <1>4, <1>5, <1>6, <1>7 DEF VsCheckDisplay, VsCheckScene, VsDeliver

-----------------------------------------------------------------------------
(* The actions that move records.                                          *)

\* Only the holders of its own record change with a call that pins nothing.
LEMMA HoldersElse ==
  ASSUME NEW c \in VsCalls, \A d \in VsCalls \ {c} : vsCall'[d] = vsCall[d],
         vsCall[c].pinned = NoOne, vsCall'[c].pinned = NoOne, NEW p \in VsCalls, p # c
  PROVE  HoldersIn(vsCall', p) = HoldersIn(vsCall, p)
<1>1. NoOne \notin VsCalls
  BY VisualAssumption DEF NoOne
<1> QED
  BY <1>1 DEF HoldersIn

\* Nobody pins the record of a call that is not over.
LEMMA OwnHolders ==
  ASSUME VsInv, NEW c \in VsCalls, vsCall[c].pc # "done",
         \A d \in VsCalls \ {c} : vsCall'[d] = vsCall[d], vsCall'[c].pinned = NoOne
  PROVE  HoldersIn(vsCall', c) = IF vsCall'[c].pc \in ReservingPcs THEN {c} ELSE {}
<1>1. NoOne \notin VsCalls
  BY VisualAssumption DEF NoOne
<1>2. \A d \in VsCalls : vsCall[d].pinned # c
  BY <1>1 DEF VsInv, Refers, Stands
<1> QED
  BY <1>1, <1>2 DEF HoldersIn

\* A reservation makes room only of records that no call holds.
LEMMA ReserveInv ==
  ASSUME VsInv, NEW c \in VsCalls, VsReserve(c)
  PROVE  VsInv'
<1>1. /\ vsCall[c].pc = "settle" /\ RestOK
      /\ "settle" \notin ReservingPcs /\ "settle" \notin PinningPcs /\ "done" \notin ReservingPcs
      /\ "display" \in ReservingPcs /\ "display" \in VsPcs /\ "display" \notin PinningPcs
  BY DEF VsReserve, Stands, RestOK, ReservingPcs, PinningPcs, VsPcs
<1>2. vsCall[c].pinned = NoOne /\ vsCall[c].at \in Nat /\ vsCall[c] \in CallStates /\ Indexed(vsCache)
      /\ c \notin Known(vsCache) /\ vsCall \in [VsCalls -> CallStates]
  BY <1>1, Unpinned, NowIs DEF CallStates
<1>3. PICK now \in Nat : now = vsCall[c].at
  BY <1>2
<1>4. CASE ~HasPlace(vsCache, now)
  <2>1. Closes(c, FALSE) /\ vsCache' = remove_expired(vsCache, now)
    BY <1>3, <1>4 DEF VsReserve
  <2>2. PICK kept \in SUBSET Known(vsCache) :
          /\ Keeps(vsCache, vsCache', kept) /\ Indexed(vsCache')
          /\ \A o \in Known(vsCache) \ kept : vsCache.records[o].pins = 0
    BY <1>2, <2>1, RemoveIs
  <2>3. \A d \in VsCalls : Reserving(d) => d \in kept
    <3>1. \A d : Reserving(d) <=> vsCall[d].pc \in ReservingPcs
      BY DEF Reserving, ReservingPcs
    <3>2. \A d \in VsCalls : vsCall[d].pc \in ReservingPcs =>
            d \in Known(vsCache) /\ vsCache.records[d].pins # 0
      BY NowIs, ReservingHolds
    <3> QED
      BY <2>2, <3>1, <3>2
  <2>4. /\ Known(vsCache') = kept /\ vsCache'.lease = vsCache.lease
        /\ \A o \in kept : vsCache'.records[o] = vsCache.records[o]
    BY <2>2 DEF Keeps
  <2>5. /\ vsCall' = [vsCall EXCEPT ![c] = Over(c, FALSE)]
        /\ Advances(vsCall[c], Over(c, FALSE)) /\ Over(c, FALSE).pinned = NoOne
        /\ Over(c, FALSE).pc = "done"
    BY <1>1, <2>1, OverIs DEF Closes
  <2> QED
    BY <1>1, <1>2, <2>2, <2>3, <2>4, <2>5, AdvanceInv
<1>5. CASE HasPlace(vsCache, now)
  <2>1. vsCache' = reserve(vsCache, c, now)
        /\ vsCall' = [vsCall EXCEPT ![c].pc = "display", ![c].until = 0]
    BY <1>3, <1>5 DEF VsReserve
  <2> DEFINE zero == 0
             y == [vsCall[c] EXCEPT !.pc = "display", !.until = zero]
  <2>2. vsCall' = [vsCall EXCEPT ![c] = y]
    BY <1>2, <2>1 DEF CallStates
  <2>0. zero \in Int
    OBVIOUS
  <2> HIDE DEF zero
  <2>3. /\ y \in CallStates /\ y.pc = "display" /\ y.pinned = NoOne
        /\ y.about = vsCall[c].about /\ y.grants = vsCall[c].grants
        /\ y.lease = vsCall[c].lease /\ y.form = vsCall[c].form
    <3>1. vsCall[c] \in CallStates /\ "display" \in VsPcs
      BY <1>1, <1>2
    <3>2. /\ y \in CallStates /\ y.pc = "display" /\ y.pinned = vsCall[c].pinned
          /\ y.about = vsCall[c].about /\ y.grants = vsCall[c].grants
          /\ y.lease = vsCall[c].lease /\ y.form = vsCall[c].form
      BY <2>0, <3>1 DEF CallStates
    <3> QED
      BY <1>2, <3>2
  <2> HIDE DEF y
  <2>4. Advances(vsCall[c], y)
    BY <1>1, <2>3 DEF Advances
  <2>5. vsCall'[c] = y /\ \A d \in VsCalls \ {c} : vsCall'[d] = vsCall[d]
    BY <2>2, MovesOne
  <2>6. /\ Indexed(vsCache') /\ vsCache'.lease = vsCache.lease
        /\ c \in Known(vsCache') /\ Known(vsCache') \ {c} \subseteq Known(vsCache)
        /\ vsCache'.records[c] = Observation(now)
        /\ \A o \in Known(vsCache') \ {c} : vsCache'.records[o] = vsCache.records[o]
        /\ \A o \in Known(vsCache) \ Known(vsCache') : vsCache.records[o].pins = 0
        /\ Cardinality(Known(vsCache')) <= VsLimit
    <3>1. Cardinality(Known(vsCache)) <= VsLimit
      BY NowIs
    <3> QED
      BY <1>2, <1>5, <2>1, <3>1, ReserveIs
  <2>7. HoldersIn(vsCall', c) = {c} /\ Cardinality({c}) = 1
    BY <1>1, <2>3, <2>5, OwnHolders, FS_Singleton
  <2>8. \A p \in Known(vsCache') : vsCache'.records[p].pins = Cardinality(HoldersIn(vsCall', p))
    <3>1. vsCache'.records[c].pins = 1
      BY <2>6 DEF Observation
    <3>2. \A p \in Known(vsCache) \ {c} : /\ HoldersIn(vsCall', p) = HoldersIn(vsCall, p)
                                          /\ vsCache.records[p].pins = Cardinality(HoldersIn(vsCall, p))
      BY <1>2, <2>3, <2>5, HoldersElse, NowIs
    <3> QED
      BY <2>6, <2>7, <3>1, <3>2
  <2>9. \A p \in Known(vsCache') : vsCall'[p].pc \in ReservingPcs \/ vsCall'[p].pc = "done"
    <3>1. \A p \in Known(vsCache) : p \in VsCalls /\ (vsCall[p].pc \in ReservingPcs \/ vsCall[p].pc = "done")
      BY NowIs
    <3> QED
      BY <1>1, <2>3, <2>5, <2>6, <3>1
  <2>10. \A d \in VsCalls : vsCall'[d].pc \in ReservingPcs => d \in Known(vsCache')
    <3>1. \A d \in VsCalls : vsCall[d].pc \in ReservingPcs => d \in Known(vsCache) /\ vsCache.records[d].pins # 0
      BY NowIs, ReservingHolds
    <3> QED
      BY <2>5, <2>6, <3>1
  <2>11. y.pinned # NoOne => Stands(y.pinned, "done")
    BY <2>3
  <2> QED
    BY <2>2, <1>1, <2>4, <2>6, <2>8, <2>9, <2>10, <2>11, StepInv
<1> QED
  BY <1>4, <1>5

\* An observation that ends gives its reservation up: the record is complete and
\* unpinned, or gone.
LEMMA MadeInv ==
  ASSUME VsInv, NEW c \in VsCalls, vsCall[c].pc \in ReservingPcs, NEW ok \in BOOLEAN,
         Closes(c, ok), RestOK, Indexed(vsCache'), vsCache'.lease = vsCache.lease,
         Known(vsCache') \subseteq Known(vsCache), Known(vsCache) \ {c} \subseteq Known(vsCache'),
         c \in Known(vsCache') => vsCache'.records[c].pins = 0,
         \A o \in Known(vsCache) \ {c} : vsCache'.records[o] = vsCache.records[o]
  PROVE  VsInv'
<1>1. /\ vsCall[c].pc \notin PinningPcs /\ "done" \notin ReservingPcs /\ vsCall[c].pc # "done"
  BY DEF ReservingPcs, PinningPcs
<1>2. vsCall[c].pinned = NoOne
  BY <1>1, Unpinned
<1> DEFINE y == Over(c, ok)
<1>3. Advances(vsCall[c], y) /\ y.pinned = NoOne /\ y.pc = "done" /\ vsCall' = [vsCall EXCEPT ![c] = y]
  BY <1>1, OverIs DEF Closes
<1> HIDE DEF y
<1>4. vsCall'[c] = y /\ \A d \in VsCalls \ {c} : vsCall'[d] = vsCall[d]
  BY <1>3, MovesOne
<1>5. Cardinality(Known(vsCache')) <= VsLimit
  <2>1. IsFiniteSet(Known(vsCache)) /\ Cardinality(Known(vsCache)) \in Nat
        /\ Cardinality(Known(vsCache)) <= VsLimit /\ VsLimit \in Nat
    BY NowIs, RecordsAre, VisualAssumption
  <2>2. IsFiniteSet(Known(vsCache')) /\ Cardinality(Known(vsCache')) <= Cardinality(Known(vsCache))
    BY <2>1, FS_Subset
  <2>3. Cardinality(Known(vsCache')) \in Nat
    BY <2>2, FS_CardinalityType
  <2> QED
    BY <2>1, <2>2, <2>3
<1>6. HoldersIn(vsCall', c) = {} /\ Cardinality({}) = 0
  BY <1>1, <1>3, <1>4, OwnHolders, FS_EmptySet
<1>7. \A p \in Known(vsCache') : vsCache'.records[p].pins = Cardinality(HoldersIn(vsCall', p))
  <2>1. \A p \in Known(vsCache) \ {c} : /\ HoldersIn(vsCall', p) = HoldersIn(vsCall, p)
                                        /\ vsCache.records[p].pins = Cardinality(HoldersIn(vsCall, p))
    BY <1>2, <1>3, <1>4, HoldersElse, NowIs
  <2> QED
    BY <1>6, <2>1
<1>8. \A p \in Known(vsCache) : p \in VsCalls /\ (vsCall[p].pc \in ReservingPcs \/ vsCall[p].pc = "done")
  BY NowIs
<1>9. \A p \in Known(vsCache') : vsCall'[p].pc \in ReservingPcs \/ vsCall'[p].pc = "done"
  BY <1>3, <1>4, <1>8
<1>10. \A d \in VsCalls : vsCall'[d].pc \in ReservingPcs => d \in Known(vsCache')
  <2>1. \A d \in VsCalls : vsCall[d].pc \in ReservingPcs => d \in Known(vsCache)
    BY NowIs
  <2> QED
    BY <1>1, <1>3, <1>4, <2>1
<1> QED
  BY <1>3, <1>5, <1>7, <1>9, <1>10, StepInv

\* The finished record takes the place of its reservation, and no call can have pinned it.
LEMMA CompleteInv ==
  ASSUME VsInv, NEW c \in VsCalls, VsComplete(c)
  PROVE  VsInv'
<1>1. /\ vsCall[c].pc = "complete" /\ RestOK /\ Closes(c, TRUE) /\ "complete" \in ReservingPcs
      /\ vsCache' = complete(vsCache, c, Finished(c))
  BY DEF VsComplete, Stands, RestOK, ReservingPcs
<1>2. Finished(c) \in VsRecords /\ Finished(c).pins = 0
  <2>1. vsCall[c] \in CallStates
    BY NowIs
  <2> DEFINE x == vsCall[c]
             e == IF x.scene = Absent THEN Unstated ELSE x.exec
             n == x.observed /\ x.exec.reader = "accessibility"
             i == x.shot # Absent
  <2>2. /\ x.display \in Nat /\ x.scene \in Scenes \cup {Absent} /\ x.observed \in BOOLEAN
        /\ x.shot \in Scenes \cup {Absent} /\ x.at \in Nat /\ x.exec \in Executors
    BY <2>1 DEF CallStates
  <2>3. e \in Executors /\ n \in BOOLEAN /\ i \in BOOLEAN
    BY <2>2 DEF Unstated, Executors, Readers
  <2> DEFINE z == Observation(x.at)
             zero == 0
  <2>4. z \in VsRecords
    BY <2>2 DEF Observation, VsRecords, Unstated, Executors, Readers
  <2>5. Finished(c) = [z EXCEPT !.display = x.display, !.proof = x.scene, !.executor = e,
                         !.observed = x.observed, !.nodes = n, !.image = i, !.shot = x.shot,
                         !.pins = zero]
    BY DEF Finished
  <2>6. zero \in Nat /\ zero = 0
    OBVIOUS
  <2> HIDE DEF e, n, i, x, z, zero
  <2>7. Finished(c) \in VsRecords /\ Finished(c).pins = zero
    BY <2>2, <2>3, <2>4, <2>5, <2>6 DEF VsRecords
  <2> QED
    BY <2>6, <2>7
<1>3. /\ Indexed(vsCache') /\ vsCache'.lease = vsCache.lease /\ Known(vsCache') = Known(vsCache) \cup {c}
      /\ vsCache'.records[c] = Finished(c)
      /\ \A o \in Known(vsCache) \ {c} : vsCache'.records[o] = vsCache.records[o]
  <2>1. Indexed(vsCache)
    BY NowIs
  <2> QED
    BY <1>1, <1>2, <2>1, CompleteIs
<1>4. c \in Known(vsCache)
  BY <1>1, NowIs
<1> QED
  BY <1>1, <1>2, <1>3, <1>4, MadeInv

\* A failed observation takes its reservation back.
LEMMA UndoInv ==
  ASSUME VsInv, NEW c \in VsCalls, VsUndo(c)
  PROVE  VsInv'
<1>1. /\ vsCall[c].pc = "undo" /\ RestOK /\ Closes(c, FALSE) /\ "undo" \in ReservingPcs
      /\ vsCache' = Drop(vsCache, {c})
  BY DEF VsUndo, Stands, RestOK, ReservingPcs
<1>2. Indexed(vsCache') /\ Keeps(vsCache, vsCache', Known(vsCache) \ {c})
  BY <1>1, DropIs, NowIs
<1>3. /\ Known(vsCache') = Known(vsCache) \ {c} /\ vsCache'.lease = vsCache.lease
      /\ \A o \in Known(vsCache) \ {c} : vsCache'.records[o] = vsCache.records[o]
  BY <1>2 DEF Keeps
<1> QED
  BY <1>1, <1>2, <1>3, MadeInv

-----------------------------------------------------------------------------
(* The actions that pin and unpin.                                         *)

\* What a call names is over, or is no call at all.
LEMMA AboutIs ==
  ASSUME VsInv, NEW c \in VsCalls
  PROVE  vsCall[c].about \in VsCalls \cup {NoOne}
         /\ (vsCall[c].about \in VsCalls => Stands(vsCall[c].about, "done"))
<1>1. NoOne \notin VsCalls
  BY VisualAssumption DEF NoOne
<1> QED
  BY <1>1, NowIs DEF VsInv, Refers, CallStates

\* A view pins the observation of its image.
LEMMA PinImageInv ==
  ASSUME VsInv, NEW c \in VsCalls, VsPinImage(c)
  PROVE  VsInv'
<1>1. /\ vsCall[c].pc = "admitted" /\ vsCall[c].form = "view" /\ RestOK
      /\ "admitted" \notin ReservingPcs /\ "admitted" \notin PinningPcs
      /\ "open" \notin ReservingPcs /\ "open" \in PinningPcs /\ "open" \in VsPcs
      /\ "view" \notin Interacts
  BY DEF VsPinImage, Starts, Stands, RestOK, ReservingPcs, PinningPcs, VsPcs, Interacts, Points
<1>2. vsCall[c].pinned = NoOne /\ vsCall[c] \in CallStates /\ vsCall \in [VsCalls -> CallStates]
  BY <1>1, Unpinned, NowIs
<1>3. PICK o, now : o = vsCall[c].about /\ now = vsCall[c].at
  OBVIOUS
<1>4. o \in VsCalls \cup {NoOne} /\ (o \in VsCalls => Stands(o, "done"))
  BY <1>3, AboutIs
<1> DEFINE held == o \in vsCache.images /\ Pinnable(vsCache, o, now)
           p == IF held THEN o ELSE NoOne
           y == [vsCall[c] EXCEPT !.pc = "open", !.pinned = p]
<1>5. vsCall' = [vsCall EXCEPT ![c] = y]
  BY <1>2, <1>3 DEF VsPinImage, CallStates
<1>6. vsCache' = IF o \in vsCache.images THEN pin_key(vsCache, o, now) ELSE vsCache
  BY <1>3 DEF VsPinImage
<1>7. p \in VsCalls \cup {NoOne}
  BY <1>4
<1> HIDE DEF p
<1>8. /\ y \in CallStates /\ y.pc = "open" /\ y.pinned = p
      /\ y.about = vsCall[c].about /\ y.grants = vsCall[c].grants
      /\ y.lease = vsCall[c].lease /\ y.form = vsCall[c].form
  BY <1>1, <1>2, <1>7 DEF CallStates
<1> HIDE DEF y
<1>9. Advances(vsCall[c], y)
  BY <1>1, <1>8 DEF Advances
<1>10. CASE held
  <2>1. o \in Known(vsCache) /\ Stands(o, "done") /\ y.pinned = o
        /\ vsCache' = [vsCache EXCEPT !.records[o].pins = @ + 1]
    BY <1>4, <1>6, <1>8, <1>10, NowIs DEF pin_key, Pinnable, p
  <2> QED
    BY <1>1, <1>2, <1>5, <1>8, <1>9, <2>1, PinTaken
<1>11. CASE ~held /\ o \in vsCache.images
  <2>1. vsCache' = Drop(vsCache, {o}) /\ y.pinned = NoOne
    BY <1>6, <1>8, <1>11 DEF pin_key, p
  <2> QED
    BY <1>1, <1>2, <1>4, <1>5, <1>8, <1>9, <2>1, RecordDropped
<1>12. CASE o \notin vsCache.images
  <2>1. vsCache' = vsCache /\ y.pinned = NoOne
    BY <1>6, <1>8, <1>12 DEF p
  <2> QED
    BY <1>1, <1>2, <1>5, <1>8, <1>9, <2>1, QuietInv
<1> QED
  BY <1>10, <1>11, <1>12

\* Aims fits a call with the pin, for whatever place it goes to.
LEMMA AimsIs ==
  ASSUME VsInv, NEW c \in VsCalls, NEW o \in Known(vsCache)
  PROVE  /\ Aims(c, o) \in CallStates /\ Aims(c, o).pinned = o /\ Aims(c, o).about = vsCall[c].about
         /\ Aims(c, o).grants = vsCall[c].grants /\ Aims(c, o).lease = vsCall[c].lease
         /\ Aims(c, o).form = vsCall[c].form
<1>1. vsCall[c] \in CallStates /\ vsCache.records[o] \in VsRecords /\ o \in VsCalls \cup {NoOne}
  BY NowIs
<1> DEFINE r == vsCache.records[o]
           d == r.display
           s == r.proof
           b == r.observed
           t == r.shot
           y == [vsCall[c] EXCEPT !.pinned = o, !.display = d, !.scene = s, !.observed = b, !.shot = t]
<1>2. /\ d \in Nat /\ s \in Scenes \cup {Absent} /\ b \in BOOLEAN /\ t \in Scenes \cup {Absent}
  BY <1>1 DEF VsRecords
<1>3. Aims(c, o) = y
  BY DEF Aims
<1> HIDE DEF r, d, s, b, t
<1>4. /\ y \in CallStates /\ y.pinned = o /\ y.about = vsCall[c].about
      /\ y.grants = vsCall[c].grants /\ y.lease = vsCall[c].lease /\ y.form = vsCall[c].form
  BY <1>1, <1>2 DEF CallStates
<1> HIDE DEF y
<1> QED
  BY <1>3, <1>4

\* An interaction takes its pin, or ends because the record is gone or past its time.
LEMMA AimInv ==
  ASSUME VsInv, NEW c \in VsCalls, vsCall[c].pc = "target", RestOK,
         NEW now, vsCache' = pin_key(vsCache, vsCall[c].about, now),
         IF Pinnable(vsCache, vsCall[c].about, now)
         THEN \E pc \in {"check", "unpin", "package"}, ok \in BOOLEAN :
                vsCall' = [vsCall EXCEPT ![c] = [Aims(c, vsCall[c].about) EXCEPT !.pc = pc, !.ok = ok]]
         ELSE Closes(c, FALSE)
  PROVE  VsInv'
<1>1. /\ "target" \notin ReservingPcs /\ "target" \notin PinningPcs
      /\ {"check", "unpin", "package"} \subseteq PinningPcs
      /\ {"check", "unpin", "package"} \subseteq VsPcs
      /\ "done" \notin ReservingPcs
  BY DEF ReservingPcs, PinningPcs, VsPcs
<1>2. vsCall[c].pinned = NoOne /\ vsCall[c].form \in Interacts
  BY <1>1, Unpinned DEF VsInv, LeaseChecked
<1>3. PICK o : o = vsCall[c].about
  OBVIOUS
<1>4. o \in VsCalls \cup {NoOne} /\ (o \in VsCalls => Stands(o, "done"))
  BY <1>3, AboutIs
<1>5. CASE Pinnable(vsCache, o, now)
  <2>1. PICK pc \in {"check", "unpin", "package"}, ok \in BOOLEAN :
          vsCall' = [vsCall EXCEPT ![c] = [Aims(c, o) EXCEPT !.pc = pc, !.ok = ok]]
    BY <1>3, <1>5
  <2>2. o \in Known(vsCache) /\ o \in VsCalls
    BY <1>5, NowIs DEF Pinnable
  <2> DEFINE a == Aims(c, o)
             y == [a EXCEPT !.pc = pc, !.ok = ok]
  <2>3. /\ a \in CallStates /\ a.pinned = o /\ a.about = vsCall[c].about
        /\ a.grants = vsCall[c].grants /\ a.lease = vsCall[c].lease /\ a.form = vsCall[c].form
    BY <2>2, AimsIs
  <2>4. vsCall' = [vsCall EXCEPT ![c] = y]
    BY <2>1
  <2> HIDE DEF a
  <2>5. /\ y \in CallStates /\ y.pc = pc /\ y.pinned = a.pinned /\ y.about = a.about
        /\ y.grants = a.grants /\ y.lease = a.lease /\ y.form = a.form
    BY <1>1, <2>1, <2>3 DEF CallStates
  <2> HIDE DEF y
  <2>6. Advances(vsCall[c], y) /\ y.pinned = o /\ y.pc \in PinningPcs
    BY <1>1, <1>2, <2>3, <2>5 DEF Advances
  <2>7. vsCache' = [vsCache EXCEPT !.records[o].pins = @ + 1]
    BY <1>3, <1>5 DEF pin_key
  <2> QED
    BY <1>1, <1>2, <1>4, <2>2, <2>4, <2>6, <2>7, PinTaken
<1>6. CASE ~Pinnable(vsCache, o, now)
  <2>1. vsCache' = Drop(vsCache, {o}) /\ Closes(c, FALSE)
    BY <1>3, <1>6 DEF pin_key
  <2>2. /\ vsCall' = [vsCall EXCEPT ![c] = Over(c, FALSE)]
        /\ Advances(vsCall[c], Over(c, FALSE)) /\ Over(c, FALSE).pinned = NoOne
        /\ Over(c, FALSE).pc = "done"
    BY <1>1, <2>1, OverIs DEF Closes
  <2> QED
    BY <1>1, <1>2, <1>4, <2>1, <2>2, RecordDropped
<1> QED
  BY <1>5, <1>6

\* An interaction pins the observation it aims at.
LEMMA TargetInv ==
  ASSUME VsInv, NEW c \in VsCalls, VsTarget(c)
  PROVE  VsInv'
<1>1. /\ vsCall[c].pc = "target" /\ RestOK /\ "target" \notin ReservingPcs /\ "target" \notin PinningPcs
  BY DEF VsTarget, Stands, RestOK, ReservingPcs, PinningPcs
<1>2. PICK o, now : o = vsCall[c].about /\ now = vsCall[c].at
  OBVIOUS
<1> DEFINE found == vsCall[c].form = "node" => o \in vsCache.nodes
           usable == /\ vsCache.records[o].executor = vsCall[c].exec
                     /\ vsCache.records[o].proof # Absent
<1>3. CASE found
  <2>1. vsCache' = pin_key(vsCache, o, now)
    BY <1>2, <1>3 DEF VsTarget
  <2>2. CASE Pinnable(vsCache, o, now)
    <3>1. vsCall' = [vsCall EXCEPT ![c] = [Aims(c, o) EXCEPT
                       !.pc = IF usable THEN "check" ELSE "unpin", !.ok = usable]]
      BY <1>2, <1>3, <2>2 DEF VsTarget
    <3>2. \E pc \in {"check", "unpin", "package"}, ok \in BOOLEAN :
            vsCall' = [vsCall EXCEPT ![c] = [Aims(c, o) EXCEPT !.pc = pc, !.ok = ok]]
      <4> DEFINE pc == IF usable THEN "check" ELSE "unpin"
      <4>1. pc \in {"check", "unpin", "package"} /\ usable \in BOOLEAN
        OBVIOUS
      <4>2. vsCall' = [vsCall EXCEPT ![c] = [Aims(c, o) EXCEPT !.pc = pc, !.ok = usable]]
        BY <3>1
      <4> HIDE DEF pc, usable
      <4> QED
        BY <4>1, <4>2
    <3> QED
      BY <1>1, <1>2, <2>1, <2>2, <3>2, AimInv
  <2>3. CASE ~Pinnable(vsCache, o, now)
    <3>1. Closes(c, FALSE)
      BY <1>2, <1>3, <2>3 DEF VsTarget
    <3> QED
      BY <1>1, <1>2, <2>1, <2>3, <3>1, AimInv
  <2> QED
    BY <2>2, <2>3
<1>4. CASE ~found
  <2>1. vsCache' = vsCache /\ Closes(c, FALSE)
    BY <1>2, <1>4 DEF VsTarget
  <2> QED
    BY <1>1, <2>1, Unpinned, ClosesInv
<1> QED
  BY <1>3, <1>4

\* So does one that names an observation for the focus.
LEMMA FocusedInv ==
  ASSUME VsInv, NEW c \in VsCalls, VsFocused(c)
  PROVE  VsInv'
<1>1. /\ vsCall[c].pc = "target" /\ RestOK /\ "target" \notin ReservingPcs /\ "target" \notin PinningPcs
      /\ "check" \in PinningPcs /\ "check" \in VsPcs /\ "check" \notin ReservingPcs
      /\ vsCall[c].form \in Interacts
  BY DEF VsFocused, Stands, RestOK, ReservingPcs, PinningPcs, VsPcs, Interacts
<1>2. PICK o, now : o = vsCall[c].about /\ now = vsCall[c].at
  OBVIOUS
<1>3. CASE o = NoOne
  <2>1. Goes(c, "check") /\ vsCache' = vsCache
    BY <1>2, <1>3 DEF VsFocused
  <2> QED
    BY <1>1, <2>1, GoesInv
<1>4. CASE o # NoOne
  <2>1. vsCache' = pin_key(vsCache, o, now)
    BY <1>2, <1>4 DEF VsFocused
  <2>2. CASE Pinnable(vsCache, o, now)
    <3>1. vsCall' = [vsCall EXCEPT ![c] = [Aims(c, o) EXCEPT !.pc = "package"]]
      BY <1>2, <1>4, <2>2 DEF VsFocused
    <3>2. Aims(c, o) \in CallStates
      BY <2>2, AimsIs DEF Pinnable
    <3> DEFINE a == Aims(c, o)
               ok == a.ok
    <3>3. vsCall' = [vsCall EXCEPT ![c] = [a EXCEPT !.pc = "package", !.ok = ok]] /\ ok \in BOOLEAN
      <4>1. a \in CallStates
        BY <3>2
      <4>2. vsCall' = [vsCall EXCEPT ![c] = [a EXCEPT !.pc = "package"]]
        BY <3>1
      <4> HIDE DEF a
      <4>3. [a EXCEPT !.pc = "package"] = [a EXCEPT !.pc = "package", !.ok = ok] /\ ok \in BOOLEAN
        BY <4>1 DEF CallStates
      <4> QED
        BY <4>2, <4>3
    <3>4. \E pc \in {"check", "unpin", "package"}, b \in BOOLEAN :
            vsCall' = [vsCall EXCEPT ![c] = [Aims(c, o) EXCEPT !.pc = pc, !.ok = b]]
      BY <3>3
    <3> QED
      BY <1>1, <1>2, <2>1, <2>2, <3>4, AimInv
  <2>3. CASE ~Pinnable(vsCache, o, now)
    <3>1. Closes(c, FALSE)
      BY <1>2, <1>4, <2>3 DEF VsFocused
    <3> QED
      BY <1>1, <1>2, <2>1, <2>3, <3>1, AimInv
  <2> QED
    BY <2>2, <2>3
<1> QED
  BY <1>3, <1>4

\* A call that gives its pin back, if it has one, and ends or goes on without it.
LEMMA GiveInv ==
  ASSUME VsInv, NEW c \in VsCalls, NEW y, Advances(vsCall[c], y),
         vsCall' = [vsCall EXCEPT ![c] = y], RestOK, vsCall[c].pc \notin ReservingPcs,
         y.pinned = NoOne, y.pc \notin ReservingPcs, vsCache' = unpin(vsCache, vsCall[c].pinned)
  PROVE  VsInv'
<1>1. CASE vsCall[c].pinned # NoOne
  BY <1>1, PinGiven
<1>2. CASE vsCall[c].pinned = NoOne
  <2>1. NoOne \notin Known(vsCache)
    BY NowIs, VisualAssumption DEF NoOne
  <2>2. vsCache' = vsCache
    BY <1>2, <2>1 DEF unpin
  <2> QED
    BY <1>2, <2>2, QuietInv
<1> QED
  BY <1>1, <1>2

\* The places of a call that gives its pin back, and where it goes from there.
LEMMA GivingPcs ==
  /\ \A p \in {"unpin", "package", "publish", "note", "check", "done"} : p \notin ReservingPcs
  /\ {"publish", "note", "check"} \subseteq VsPcs
BY DEF ReservingPcs, PinningPcs, VsPcs

Unpins(c, pc) == vsCall' = [vsCall EXCEPT ![c].pinned = NoOne, ![c].pc = pc]

\* What comes after an unpin.
LEMMA GivesInv ==
  ASSUME VsInv, NEW c \in VsCalls, vsCall[c].pc \in {"unpin", "package"}, RestOK,
         vsCache' = unpin(vsCache, vsCall[c].pinned),
         \/ Closes(c, FALSE)
         \/ \E pc \in {"publish", "note", "check"} :
              Unpins(c, pc) /\ (pc = "check" => vsCall[c].pc = "package")
  PROVE  VsInv'
<1>1. /\ \A p \in {"unpin", "package", "publish", "note", "check", "done"} : p \notin ReservingPcs
      /\ {"publish", "note", "check"} \subseteq VsPcs
  BY GivingPcs
<1>2. CASE Closes(c, FALSE)
  <2>1. /\ vsCall' = [vsCall EXCEPT ![c] = Over(c, FALSE)]
        /\ Advances(vsCall[c], Over(c, FALSE)) /\ Over(c, FALSE).pinned = NoOne
        /\ Over(c, FALSE).pc = "done"
    BY <1>2, OverIs DEF Closes
  <2> QED
    BY <1>1, <2>1, GiveInv
<1>3. ASSUME NEW pc \in {"publish", "note", "check"}, pc = "check" => vsCall[c].pc = "package",
             Unpins(c, pc)
      PROVE  VsInv'
  <2>1. vsCall[c] \in CallStates /\ vsCall \in [VsCalls -> CallStates] /\ pc \in VsPcs
    BY <1>1, NowIs
  <2> DEFINE y == [vsCall[c] EXCEPT !.pinned = NoOne, !.pc = pc]
  <2>2. vsCall' = [vsCall EXCEPT ![c] = y]
    BY <1>3, <2>1 DEF CallStates, Unpins
  <2>3. /\ y \in CallStates /\ y.pc = pc /\ y.pinned = NoOne
        /\ y.about = vsCall[c].about /\ y.grants = vsCall[c].grants
        /\ y.lease = vsCall[c].lease /\ y.form = vsCall[c].form
    BY <2>1 DEF CallStates
  <2> HIDE DEF y
  <2>4. vsCall[c].pc = "package" => vsCall[c].form \in Interacts
    BY DEF VsInv, LeaseChecked
  <2>5. Advances(vsCall[c], y)
    BY <1>3, <2>3, <2>4 DEF Advances
  <2> QED
    BY <1>1, <2>2, <2>3, <2>5, GiveInv
<1> QED
  BY <1>2, <1>3

\* The pin is given back once.
LEMMA UnpinInv ==
  ASSUME VsInv, NEW c \in VsCalls, VsUnpin(c)
  PROVE  VsInv'
<1>1. vsCall[c].pc = "unpin" /\ RestOK /\ vsCache' = unpin(vsCache, vsCall[c].pinned)
  BY DEF VsUnpin, Stands, RestOK
<1>2. CASE vsCall[c].ok
  <2> DEFINE pc == IF vsCall[c].form = "view" THEN "publish" ELSE "note"
  <2>1. Unpins(c, pc)
    BY <1>2 DEF VsUnpin, Unpins
  <2>2. pc \in {"publish", "note", "check"} /\ pc # "check"
    OBVIOUS
  <2> HIDE DEF pc
  <2> QED
    BY <1>1, <2>1, <2>2, GivesInv
<1>3. CASE ~vsCall[c].ok
  BY <1>1, <1>3, GivesInv DEF VsUnpin
<1> QED
  BY <1>2, <1>3

\* The package is kept and the pin is not.
LEMMA PackageInv ==
  ASSUME VsInv, NEW c \in VsCalls, VsPackage(c)
  PROVE  VsInv'
<1>1. vsCall[c].pc = "package" /\ RestOK /\ vsCache' = unpin(vsCache, vsCall[c].pinned)
  BY DEF VsPackage, Stands, RestOK
<1>2. CASE vsCall[c].scene = Absent
  BY <1>1, <1>2, GivesInv DEF VsPackage
<1>3. CASE vsCall[c].scene # Absent
  BY <1>1, <1>3, GivesInv DEF VsPackage, Unpins
<1> QED
  BY <1>2, <1>3

-----------------------------------------------------------------------------
(* The lease and what moves by itself.                                     *)

LeaseValues == {Absent} \cup [id : Nat, expires : Nat]

\* A cache with another lease, or another last input.
LEMMA LeaseIs ==
  ASSUME NEW k, Indexed(k), NEW l \in LeaseValues, NEW j, j = [k EXCEPT !.lease = l]
  PROVE  Indexed(j) /\ j.records = k.records /\ j.lease = l
BY DEF Indexed, Known, Caches, LeaseValues

\* The time of the last input touches no record.
LEMMA InputIs ==
  ASSUME NEW k, Indexed(k), NEW t \in Int, NEW j, j = [k EXCEPT !.lastInput = t]
  PROVE  Indexed(j) /\ j.records = k.records /\ j.lease = k.lease
BY DEF Indexed, Known, Caches

\* live_lease keeps the lease or drops it.
LEMMA LiveIs ==
  ASSUME NEW k, Indexed(k), NEW now
  PROVE  /\ Indexed(live_lease(k, now)) /\ live_lease(k, now).records = k.records
         /\ live_lease(k, now).lease \in {Absent, k.lease} /\ k.lease \in LeaseValues
<1>1. k.lease \in LeaseValues
  BY DEF Indexed, Caches, LeaseValues
<1>2. CASE live_lease(k, now) = k
  BY <1>1, <1>2
<1>3. CASE live_lease(k, now) = [k EXCEPT !.lease = Absent]
  <2>1. Absent \in LeaseValues
    BY DEF LeaseValues
  <2> QED
    BY <1>1, <1>3, <2>1, LeaseIs
<1> QED
  BY <1>2, <1>3 DEF live_lease

\* A call moves, and of the cache only the lease or the last input does.
LEMMA LeaseStep ==
  ASSUME VsInv, NEW c \in VsCalls, NEW y, Advances(vsCall[c], y),
         vsCall' = [vsCall EXCEPT ![c] = y], RestOK, y.pinned = vsCall[c].pinned,
         y.pc \in ReservingPcs <=> vsCall[c].pc \in ReservingPcs,
         Indexed(vsCache'), vsCache'.records = vsCache.records,
         vsCache'.lease # Absent => vsCache.lease # Absent /\ vsCache'.lease.id = vsCache.lease.id
  PROVE  VsInv'
<1>1. Known(vsCache') = Known(vsCache)
  BY DEF Known
<1>2. \A d \in VsCalls : Reserving(d) => d \in Known(vsCache)
  BY DEF VsInv, Reserved
<1> QED
  BY <1>1, <1>2, AdvanceInv

\* An ending in particular.
LEMMA LeaseEnd ==
  ASSUME VsInv, NEW c \in VsCalls, vsCall[c].pc # "done", vsCall[c].pc \notin PinningPcs,
         vsCall[c].pc \notin ReservingPcs, NEW ok \in BOOLEAN, Closes(c, ok), RestOK,
         Indexed(vsCache'), vsCache'.records = vsCache.records,
         vsCache'.lease # Absent => vsCache.lease # Absent /\ vsCache'.lease.id = vsCache.lease.id
  PROVE  VsInv'
<1>1. /\ vsCall' = [vsCall EXCEPT ![c] = Over(c, ok)] /\ Advances(vsCall[c], Over(c, ok))
      /\ Over(c, ok).pinned = NoOne /\ Over(c, ok).pc = "done"
  BY OverIs DEF Closes
<1>2. "done" \notin ReservingPcs
  BY DEF ReservingPcs
<1> QED
  BY <1>1, <1>2, Unpinned, LeaseStep

\* A delivered input is noted.
LEMMA NoteInv ==
  ASSUME VsInv, NEW c \in VsCalls, VsNote(c)
  PROVE  VsInv'
<1>1. /\ vsCall[c].pc = "note" /\ RestOK /\ Closes(c, TRUE)
      /\ "note" \notin ReservingPcs /\ "note" \notin PinningPcs
      /\ vsCache' = [vsCache EXCEPT !.lastInput = vsClock]
  BY DEF VsNote, Stands, RestOK, ReservingPcs, PinningPcs
<1>2. Indexed(vsCache) /\ vsClock \in Int
  BY NowIs
<1>3. Indexed(vsCache') /\ vsCache'.records = vsCache.records /\ vsCache'.lease = vsCache.lease
  BY <1>1, <1>2, InputIs
<1> QED
  BY <1>1, <1>3, LeaseEnd

\* Of a call that starts with a lease form.
LEMMA ReleaseInv ==
  ASSUME VsInv, NEW c \in VsCalls, VsRelease(c)
  PROVE  VsInv'
<1>1. /\ vsCall[c].pc = "admitted" /\ RestOK /\ "admitted" \notin ReservingPcs /\ "admitted" \notin PinningPcs
  BY DEF VsRelease, Starts, Stands, RestOK, ReservingPcs, PinningPcs
<1>2. PICK live : live = live_lease(vsCache, vsCall[c].at)
  OBVIOUS
<1>3. Indexed(live) /\ live.records = vsCache.records /\ live.lease \in {Absent, vsCache.lease}
  BY <1>2, LiveIs, NowIs
<1>4. CASE vsCache' = live /\ Closes(c, FALSE)
  BY <1>1, <1>3, <1>4, LeaseEnd
<1>5. CASE vsCache' = [live EXCEPT !.lease = Absent] /\ Closes(c, TRUE)
  <2>1. Absent \in LeaseValues
    BY DEF LeaseValues
  <2>2. Indexed(vsCache') /\ vsCache'.records = vsCache.records /\ vsCache'.lease = Absent
    BY <1>3, <1>5, <2>1, LeaseIs
  <2> QED
    BY <1>1, <1>5, <2>2, LeaseEnd
<1> QED
  BY <1>2, <1>4, <1>5 DEF VsRelease

\* The lease check: who passes it presents the lease that is held, if one is.
LEMMA LeaseCheckInv ==
  ASSUME VsInv, NEW c \in VsCalls, VsLeaseCheck(c)
  PROVE  VsInv'
<1>1. /\ vsCall[c].pc = "admitted" /\ RestOK /\ vsCall[c].form \in Interacts
      /\ "admitted" \notin ReservingPcs /\ "admitted" \notin PinningPcs
      /\ "target" \notin ReservingPcs /\ "target" \in VsPcs
  BY DEF VsLeaseCheck, Starts, Stands, RestOK, ReservingPcs, PinningPcs, VsPcs
<1>2. PICK live, now : now = vsCall[c].at /\ live = live_lease(vsCache, now)
  OBVIOUS
<1>3. /\ Indexed(live) /\ live.records = vsCache.records /\ live.lease \in {Absent, vsCache.lease}
      /\ live.lease \in LeaseValues
  <2>1. Indexed(vsCache)
    BY NowIs
  <2> QED
    BY <1>2, <2>1, LiveIs DEF LeaseValues
<1>4. vsCall[c].at \in Nat /\ vsCall[c] \in CallStates /\ vsCall[c].pinned = NoOne
      /\ vsCall \in [VsCalls -> CallStates] /\ vsGrants \in Nat /\ LeaseTtl \in Nat
  BY <1>1, NowIs, Unpinned, VisualAssumption DEF CallStates
<1>5. /\ Indexed(vsCache') /\ vsCache'.records = vsCache.records
      /\ vsCache'.lease # Absent => /\ vsCache.lease # Absent /\ vsCache'.lease.id = vsCache.lease.id
                                    /\ live.lease = vsCache.lease
      /\ vsCache'.lease = Absent <=> live.lease = Absent
  <2>1. CASE MayInteract(live, vsCall[c].lease) /\ live.lease # Absent
    <3>1. vsCache' = [live EXCEPT !.lease.expires = now + LeaseTtl]
      BY <1>2, <2>1 DEF VsLeaseCheck, admit_interaction
    <3> DEFINE m == live.lease
               t == now + LeaseTtl
               l == [m EXCEPT !.expires = t]
    <3>2. m \in [id : Nat, expires : Nat] /\ t \in Nat /\ m = vsCache.lease
      BY <1>2, <1>3, <1>4, <2>1 DEF LeaseValues
    <3>3. vsCache' = [live EXCEPT !.lease = l]
      BY <3>1
    <3> HIDE DEF m, t
    <3>4. l \in [id : Nat, expires : Nat] /\ l.id = m.id
      BY <3>2
    <3> HIDE DEF l
    <3>5. l \in LeaseValues /\ l # Absent
      BY <3>4 DEF LeaseValues, Absent
    <3>6. Indexed(vsCache') /\ vsCache'.records = vsCache.records /\ vsCache'.lease = l
      BY <1>3, <3>3, <3>5, LeaseIs
    <3> QED
      BY <2>1, <3>2, <3>4, <3>5, <3>6 DEF m
  <2>2. CASE ~(MayInteract(live, vsCall[c].lease) /\ live.lease # Absent)
    <3>1. vsCache' = live
      BY <1>2, <2>2 DEF VsLeaseCheck, admit_interaction
    <3> QED
      BY <1>3, <3>1
  <2> QED
    BY <2>1, <2>2
<1>6. CASE ~MayInteract(live, vsCall[c].lease)
  <2>1. Closes(c, FALSE)
    BY <1>2, <1>6 DEF VsLeaseCheck
  <2> QED
    BY <1>1, <1>5, <2>1, LeaseEnd
<1>7. CASE MayInteract(live, vsCall[c].lease)
  <2>1. vsCall' = [vsCall EXCEPT ![c].pc = "target", ![c].grants = vsGrants]
    BY <1>2, <1>7 DEF VsLeaseCheck
  <2> DEFINE y == [vsCall[c] EXCEPT !.pc = "target", !.grants = vsGrants]
  <2>2. vsCall' = [vsCall EXCEPT ![c] = y]
    BY <1>4, <2>1 DEF CallStates
  <2>3. /\ y \in CallStates /\ y.pc = "target" /\ y.pinned = vsCall[c].pinned /\ y.grants = vsGrants
        /\ y.about = vsCall[c].about /\ y.lease = vsCall[c].lease /\ y.form = vsCall[c].form
    BY <1>1, <1>4 DEF CallStates
  <2> HIDE DEF y
  <2>4. vsCache'.lease # Absent => y.lease = vsCache'.lease.id
    BY <1>5, <1>7, <2>3 DEF MayInteract
  <2>5. Advances(vsCall[c], y)
    BY <1>1, <1>4, <2>3, <2>4 DEF Advances
  <2> QED
    BY <1>1, <1>4, <1>5, <2>2, <2>3, <2>5, LeaseStep
<1> QED
  BY <1>6, <1>7

\* A new lease: every call under way was checked before it.
LEMMA AcquireInv ==
  ASSUME VsInv, NEW c \in VsCalls, VsAcquire(c)
  PROVE  VsInv'
<1>1. /\ vsCall[c].pc = "admitted" /\ UNCHANGED <<vsScreen, vsCap, vsClock>>
      /\ "admitted" \notin ReservingPcs /\ "admitted" \notin PinningPcs /\ "done" \notin ReservingPcs
  BY DEF VsAcquire, Starts, Stands, ReservingPcs, PinningPcs
<1>2. PICK live, now : now = vsCall[c].at /\ live = live_lease(vsCache, now)
  OBVIOUS
<1>3. Indexed(live) /\ live.records = vsCache.records /\ live.lease \in {Absent, vsCache.lease}
  BY <1>2, LiveIs, NowIs
<1>4. CASE live.lease # Absent
  <2>1. Closes(c, FALSE) /\ vsCache' = live /\ vsGrants' = vsGrants
    BY <1>2, <1>4 DEF VsAcquire
  <2>2. RestOK
    BY <1>1, <2>1 DEF RestOK
  <2> QED
    BY <1>1, <1>3, <2>1, <2>2, LeaseEnd
<1>5. CASE live.lease = Absent
  <2>0. now \in Nat /\ vsGrants \in Nat /\ LeaseTtl \in Nat /\ vsCall \in [VsCalls -> CallStates]
    BY <1>2, NowIs, VisualAssumption DEF CallStates
  <2> DEFINE l == [id |-> vsGrants + 1, expires |-> now + LeaseTtl]
  <2>1. Closes(c, TRUE) /\ vsCache' = [live EXCEPT !.lease = l] /\ vsGrants' = vsGrants + 1
    BY <1>2, <1>5 DEF VsAcquire
  <2>2. l \in LeaseValues /\ l.id = vsGrants + 1
    BY <2>0 DEF LeaseValues
  <2> HIDE DEF l
  <2>3. Indexed(vsCache') /\ vsCache'.records = vsCache.records /\ vsCache'.lease = l
    BY <1>3, <2>1, <2>2, LeaseIs
  <2>4. Known(vsCache') = Known(vsCache)
    BY <2>3 DEF Known
  <2> DEFINE y == Over(c, TRUE)
  <2>5. /\ vsCall' = [vsCall EXCEPT ![c] = y] /\ Advances(vsCall[c], y)
        /\ y.pinned = NoOne /\ y.pc = "done"
    BY <1>1, <2>1, OverIs DEF Closes
  <2> HIDE DEF y
  <2>6. vsCall'[c] = y /\ \A d \in VsCalls \ {c} : vsCall'[d] = vsCall[d]
    BY <2>5, MovesOne
  <2>7. \A o : HoldersIn(vsCall', o) = HoldersIn(vsCall, o)
    <3>1. y \in CallStates /\ vsCall[c].pinned = NoOne
      BY <1>1, <2>5, Unpinned DEF Advances
    <3> QED
      BY <1>1, <2>0, <2>5, <3>1, HoldersSame
  <2>8. LeaseChecked'
    <3>1. \A d \in VsCalls : vsCall'[d].grants \in Nat /\ vsCall'[d].grants <= vsGrants
      <4>1. \A d \in VsCalls : vsCall[d].grants \in Nat /\ vsCall[d].grants <= vsGrants
        BY <2>0 DEF VsInv, LeaseChecked, CallStates
      <4>2. y.grants = 0
        BY <2>5 DEF Advances
      <4> QED
        BY <2>0, <2>6, <4>1, <4>2
    <3>2. \A d \in VsCalls : vsCall'[d].pc \in {"target", "package", "check", "scene", "deliver"}
            => vsCall'[d].form \in Interacts
      BY <2>5, <2>6 DEF VsInv, LeaseChecked
    <3>3. vsCache'.lease.id = vsGrants' /\ \A d \in VsCalls : vsCall'[d].grants < vsCache'.lease.id
      BY <2>0, <2>1, <2>2, <2>3, <3>1
    <3> QED
      BY <2>0, <2>1, <3>1, <3>2, <3>3 DEF LeaseChecked
  <2>9. \A o \in Known(vsCache') : vsCache'.records[o].pins = Cardinality(HoldersIn(vsCall', o))
    BY <2>3, <2>4, <2>7, NowIs
  <2>10. \A o \in Known(vsCache') : vsCall'[o].pc \in ReservingPcs \/ vsCall'[o].pc = "done"
    <3>1. \A o \in Known(vsCache) : o \in VsCalls /\ (vsCall[o].pc \in ReservingPcs \/ vsCall[o].pc = "done")
      BY NowIs
    <3> QED
      BY <2>4, <2>5, <2>6, <3>1
  <2>11. \A d \in VsCalls : vsCall'[d].pc \in ReservingPcs => d \in Known(vsCache')
    <3>1. \A d \in VsCalls : vsCall[d].pc \in ReservingPcs => d \in Known(vsCache)
      BY NowIs
    <3> QED
      BY <1>1, <2>4, <2>5, <2>6, <3>1
  <2>12. Cardinality(Known(vsCache')) <= VsLimit /\ vsGrants' \in Nat
    BY <2>0, <2>1, <2>4, NowIs
  <2> QED
    BY <1>1, <2>3, <2>5, <2>8, <2>9, <2>10, <2>11, <2>12, CoreInv
<1> QED
  BY <1>4, <1>5

\* A step outside the calls and the cache.
LEMMA OutsideInv ==
  ASSUME VsInv, UNCHANGED <<vsCache, vsCall, vsGrants>>,
         vsScreen' \in [display : Nat, window : Nat, node : Nat, rest : Nat],
         vsCap' \in Executors, vsClock' \in Nat
  PROVE  VsInv'
<1>1. VsTypeOK' /\ Refers' /\ LeaseChecked'
  BY DEF VsInv, VsTypeOK, Refers, LeaseChecked, Stands
<1>2. Reserved'
  BY DEF VsInv, Reserved, Reserving, Stands, Known
<1>3. PinsHeld'
  BY DEF VsInv, PinsHeld, Holders, Reserving, Known
<1> QED
  BY <1>1, <1>2, <1>3 DEF VsInv

\* The clock, the screen, the providers and the eviction of images.
LEMMA AroundInv ==
  ASSUME VsInv,
         \/ VsTick \/ UNCHANGED vsVars
         \/ \E c \in VsCalls : VsEvict(c)
         \/ \E f \in DOMAIN vsScreen : VsScreenMoves(f)
         \/ \E reader \in Readers \ {vsCap.reader} : VsCapability(reader)
  PROVE  VsInv'
<1>1. /\ vsScreen \in [display : Nat, window : Nat, node : Nat, rest : Nat]
      /\ vsCap \in Executors /\ vsClock \in Nat
  BY NowIs
<1>2. CASE VsTick
  BY <1>1, <1>2, OutsideInv DEF VsTick
<1>3. CASE UNCHANGED vsVars
  BY <1>1, <1>3, OutsideInv DEF vsVars
<1>4. CASE \E c \in VsCalls : VsEvict(c)
  BY <1>1, <1>4, OutsideInv DEF VsEvict
<1>5. CASE \E f \in DOMAIN vsScreen : VsScreenMoves(f)
  <2>1. vsScreen' \in [display : Nat, window : Nat, node : Nat, rest : Nat]
    BY <1>1, <1>5 DEF VsScreenMoves
  <2> QED
    BY <1>1, <1>5, <2>1, OutsideInv DEF VsScreenMoves
<1>6. CASE \E reader \in Readers \ {vsCap.reader} : VsCapability(reader)
  <2>1. vsCap' \in Executors
    BY <1>1, <1>6 DEF VsCapability, Executors
  <2> QED
    BY <1>1, <1>6, <2>1, OutsideInv DEF VsCapability
<1> QED
  BY <1>2, <1>3, <1>4, <1>5, <1>6

-----------------------------------------------------------------------------
\* The calls have not been made and the cache is empty at first.
LEMMA VisualStarts == VsInit => VsInv
<1> SUFFICES ASSUME VsInit PROVE VsInv
  OBVIOUS
<1>1. /\ vsCache = [lease |-> Absent, records |-> << >>, nodes |-> {}, images |-> {}, lastInput |-> -1]
      /\ vsCall = [c \in VsCalls |-> Fresh] /\ vsGrants = 0
  BY DEF VsInit
<1>2. DOMAIN vsCache.records = {} /\ vsCache \in Caches
  <2>1. << >> \in [{} -> VsRecords] /\ {} \in SUBSET VsCalls
    OBVIOUS
  <2>2. << >> \in RecordMaps
    BY <2>1 DEF RecordMaps
  <2> QED
    BY <1>1, <2>2 DEF Caches
<1>3. vsCall \in [VsCalls -> CallStates] /\ \A c \in VsCalls : vsCall[c] = Fresh
  BY <1>1, FreshIs
<1>4. VsTypeOK
  BY <1>1, <1>2, <1>3 DEF VsInit, VsTypeOK, Executors, Readers
<1>5. Refers /\ LeaseChecked
  BY <1>1, <1>3, FreshIs DEF Refers, LeaseChecked, Stands
<1>6. Reserved
  BY <1>2, <1>3, FreshIs DEF Reserved, Known, Reserving
<1>7. PinsHeld
  <2>1. Cardinality({}) = 0 /\ VsLimit \in Nat
    BY FS_EmptySet, VisualAssumption
  <2> QED
    BY <1>1, <1>2, <2>1 DEF PinsHeld, Known
<1> QED
  BY <1>4, <1>5, <1>6, <1>7 DEF VsInv

\* Every step keeps the invariant.
LEMMA VisualSteps == VsInv /\ [VsNext]_vsVars => VsInv'
<1> SUFFICES ASSUME VsInv, [VsNext]_vsVars PROVE VsInv'
  OBVIOUS
<1>1. ASSUME NEW c \in VsCalls, NEW form \in Forms, VsAsk(c, form) PROVE VsInv'
  BY <1>1, AskInv
<1>2. ASSUME NEW c \in VsCalls, VsStale(c) \/ VsUnpin(c) \/ VsAcquire(c) \/ VsRelease(c) PROVE VsInv'
  BY <1>2, StaleInv, UnpinInv, AcquireInv, ReleaseInv
<1>3. ASSUME NEW c \in VsCalls, Observes(c) PROVE VsInv'
  BY <1>3, SettleInv, ReserveInv, DisplayInv, ImageInv, HierarchyInv, CompleteInv, UndoInv DEF Observes
<1>4. ASSUME NEW c \in VsCalls, Views(c) PROVE VsInv'
  BY <1>4, PinImageInv, TransformInv, PublishInv DEF Views
<1>5. ASSUME NEW c \in VsCalls, Interactions(c) PROVE VsInv'
  BY <1>5, LeaseCheckInv, TargetInv, FocusedInv, PackageInv, ChecksInv, NoteInv DEF Interactions
<1> QED
  BY <1>1, <1>2, <1>3, <1>4, <1>5, AroundInv DEF VsNext

\* The visual tool's invariant, for any number of calls in flight, any limit of the
\* observation cache and any times of records and leases.
THEOREM VisualInductive == VsSpec => []VsInv
<1>1. VsInit => VsInv
  BY VisualStarts
<1>2. VsInv /\ [VsNext]_vsVars => VsInv'
  BY VisualSteps
<1> QED
  BY <1>1, <1>2, PTL DEF VsSpec

\* However observe, view and interact calls overlap, fail and go stale, the pins of a
\* record in VisualObservationCache are the calls that still hold it, the cache stays
\* within VISUAL_OBSERVATION_LIMIT, and its node and image indexes lead to the records
\* that own what they index.
THEOREM PinsCounted == VsSpec => []PinsHeld
<1>1. VsInv => PinsHeld
  BY DEF VsInv
<1> QED
  BY <1>1, VisualInductive, PTL

\* Input delivered while a lease lives is its holder's, or passed admit_interaction before
\* the lease was granted.
THEOREM LeaseRespected == VsSpec => InputUnderLease
<1> DEFINE A == \A c \in VsCalls : Delivering(c) /\ LiveLease =>
                  \/ vsCall[c].lease = vsCache.lease.id
                  \/ vsCall[c].grants < vsCache.lease.id
<1>1. VsInv => A
  <2> SUFFICES ASSUME VsInv, NEW c \in VsCalls, Delivering(c), LiveLease
               PROVE  vsCall[c].lease = vsCache.lease.id \/ vsCall[c].grants < vsCache.lease.id
    OBVIOUS
  <2>1. vsCall[c].pc = "deliver" /\ vsCache.lease # Absent
    BY DEF Delivering, Stands, LiveLease
  <2>2. LeaseChecked
    BY DEF VsInv
  <2> QED
    BY <2>1, <2>2 DEF LeaseChecked
<1>2. VsInv /\ [VsNext]_vsVars => [A]_vsVars
  BY <1>1
<1>3. VsSpec => [][A]_vsVars
  BY <1>2, VisualInductive, PTL DEF VsSpec
<1> QED
  BY <1>3 DEF InputUnderLease
=============================================================================
