----------------------------- MODULE NetworkEvents -----------------------------
(***************************************************************************)
(* The default-network event plane (runtime/network.rs), its two sources   *)
(* (the Android callback behind AndroidNetworkDefaultEventSource and the   *)
(* root host's netlink observer in daemon/network.rs) and the automation   *)
(* scheduler that keeps the one subscription while an Automation needs it. *)
(*                                                                         *)
(* The scheduler is the only thread that subscribes, closes and replaces;  *)
(* the source's own thread observes at any time, also after its stop.      *)
(***************************************************************************)
EXTENDS Naturals, Sequences

CONSTANTS
  Nets,           \* default networks, the absent one among them
  Capacity,       \* events the channel holds
  MaxChanges,     \* changes of the default network
  MaxRegs,        \* source registrations
  MaxNeFaults     \* source operations that fail

ASSUME NetworkEventsAssumption ==
  Nets # {} /\ Capacity \in Nat \ {0} /\ MaxChanges \in Nat /\ MaxRegs \in Nat /\ MaxNeFaults \in Nat

VARIABLES
  neKind,     \* "native" or "android"
  nePlane,    \* NetworkEventPlaneState with the active slot or the cleanup in it
  neSource,   \* the source: the registration it holds, its socket or callback, its thread
  neSub,      \* the scheduler's subscription
  neCtl,      \* where the scheduler's thread is
  neWorld,    \* the current default network, whether an Automation needs its events
  neFaults

neVars == <<neKind, nePlane, neSource, neSub, neCtl, neWorld, neFaults>>

Unknown == "unknown"
NoSub == [open |-> FALSE, rx |-> FALSE, q |-> <<>>]

NeInit ==
  /\ neKind \in {"native", "android"}
  /\ nePlane = [slot |-> "vacant", reg |-> 0, gen |-> 0, base |-> Unknown, dropped |-> 0, pending |-> 0,
              cont |-> "vacate"]
  /\ neSource = [held |-> 0, bound |-> 0, alive |-> FALSE, notes |-> 0, read |-> {}, lost |-> FALSE]
  /\ neSub = NoSub
  /\ neCtl = [at |-> "idle", then |-> "none"]
  /\ \E n \in Nets : neWorld = [net |-> n, changes |-> 0, required |-> FALSE, reason |-> FALSE]
  /\ neFaults = 0

NeFault == neFaults < MaxNeFaults /\ neFaults' = neFaults + 1
NeFine  == UNCHANGED neFaults
Go(at, then) == neCtl' = [at |-> at, then |-> then]

-----------------------------------------------------------------------------
(* The plane, under its lock.                                              *)

\* Mutant: a callback is taken whatever registration it was made for.
Current_Any(reg) == nePlane.slot = "active"

\* NetworkDefaultEventIngress: only the active registration may observe.
Current(reg) == nePlane.slot = "active" /\ nePlane.reg = reg

\* observe: the first observation is the baseline, an equal one nothing, and any other is
\* sent, or counted when the channel is full.
Delivers(p, n)  == p.base \notin {Unknown, n} /\ neSub.rx /\ Len(neSub.q) < Capacity
Overflows(p, n) == p.base \notin {Unknown, n} /\ neSub.rx /\ Len(neSub.q) >= Capacity
Observed(p, n)  ==
  [p EXCEPT !.base = n,
            !.pending = IF Delivers(p, n) THEN @ + p.dropped ELSE @,
            !.dropped = IF Delivers(p, n) THEN 0 ELSE IF Overflows(p, n) THEN @ + 1 ELSE @]

Observe(reg, n) ==
  IF Current(reg)
  THEN /\ nePlane' = Observed(nePlane, n)
       /\ neSub' = IF Delivers(nePlane, n) THEN [neSub EXCEPT !.q = Append(@, n)] ELSE neSub
  ELSE UNCHANGED <<nePlane, neSub>>

\* subscribe and start_replacement: a new registration is active before its source starts.
Activated(p) == [p EXCEPT !.slot = "active", !.reg = p.gen + 1, !.gen = p.gen + 1,
                          !.base = Unknown, !.dropped = 0]
\* unsubscribe and replace_source: what was dropped is kept, then the source is stopped.
Leaving(p) == [p EXCEPT !.slot = "transitioning", !.cont = "vacate", !.pending = @ + p.dropped, !.dropped = 0]

-----------------------------------------------------------------------------
(* The scheduler's thread.                                                 *)

\* reconcile_network_subscription when events are required and no subscription is held:
\* retry_cleanup first, then subscribe.
RetryCleanup ==
  /\ neCtl.at = "idle" /\ neWorld.required /\ ~neSub.open /\ nePlane.slot = "blocked"
  /\ nePlane' = [nePlane EXCEPT !.slot = "transitioning"]
  /\ Go("stop", "subscribe")
  /\ UNCHANGED <<neKind, neSource, neSub, neWorld, neFaults>>

Subscribe ==
  /\ neCtl.at = "subscribe" \/ (neCtl.at = "idle" /\ neWorld.required /\ ~neSub.open
                                  /\ nePlane.slot = "vacant")
  /\ nePlane.gen < MaxRegs
  /\ nePlane' = Activated(nePlane)
  /\ neSub' = [NoSub EXCEPT !.rx = TRUE]
  /\ Go("start", "subscribe")
  /\ UNCHANGED <<neKind, neSource, neWorld, neFaults>>

\* unsubscribe: an active slot is left, a quarantined one is stopped again, a vacant one is
\* nothing to do.
Unsubscribes(then) ==
  IF nePlane.slot = "active" THEN nePlane' = Leaving(nePlane) /\ Go("stop", then)
  ELSE IF nePlane.slot = "blocked"
  THEN nePlane' = [nePlane EXCEPT !.slot = "transitioning", !.cont = "vacate"] /\ Go("stop", then)
  ELSE UNCHANGED nePlane /\ Go("idle", "none")

\* close when no Automation needs the events any longer: the receiver first, then the plane.
Close ==
  /\ neCtl.at = "idle" /\ ~neWorld.required /\ neSub.open
  /\ neSub' = NoSub
  /\ Unsubscribes("close")
  /\ UNCHANGED <<neKind, neSource, neWorld, neFaults>>

\* replace_network_default_event_source: the channel stays, the source under it is exchanged.
ReplaceSource ==
  /\ neCtl.at = "idle" /\ nePlane.slot = "active" /\ nePlane.gen < MaxRegs
  /\ nePlane' = [Leaving(nePlane) EXCEPT !.cont = "replace"]
  /\ Go("stop", "replace")
  /\ UNCHANGED <<neKind, neSource, neSub, neWorld, neFaults>>

Bound == [neSource EXCEPT !.bound = nePlane.reg, !.notes = 0, !.lost = FALSE]

\* NativeNetworkDefaultEventSource::start: the socket is bound before the first dump, so a
\* change in between is still notified.
StartBegins ==
  /\ neCtl.at = "start" /\ neKind = "native" /\ neSource.held = 0
  /\ neSource' = Bound
  /\ Go("baseline", neCtl.then)
  /\ UNCHANGED <<neKind, nePlane, neSub, neWorld, neFaults>>

StartBaseline ==
  /\ neCtl.at = "baseline"
  /\ Observe(nePlane.reg, neWorld.net)
  /\ Go("thread", neCtl.then)
  /\ UNCHANGED <<neKind, neSource, neWorld, neFaults>>

StartThread ==
  /\ neCtl.at = "thread"
  /\ neSource' = [neSource EXCEPT !.held = nePlane.reg, !.alive = TRUE]
  /\ Go("started", neCtl.then)
  /\ UNCHANGED <<neKind, nePlane, neSub, neWorld, neFaults>>

\* AndroidNetworkDefaultEventSource::start: the framework registers the callback, which
\* reports the current network to it.
StartAndroid ==
  /\ neCtl.at = "start" /\ neKind = "android"
  /\ neSource' = [Bound EXCEPT !.held = nePlane.reg, !.alive = TRUE, !.notes = 1]
  /\ \/ Go("started", neCtl.then) /\ NeFine
     \/ Go("startFailed", neCtl.then) /\ NeFault
  /\ UNCHANGED <<neKind, nePlane, neSub, neWorld>>

\* A source that could not be started is unsubscribed like any other.
SourceStartFails ==
  /\ neCtl.at \in {"start", "baseline", "thread"} /\ NeFault
  /\ neSource' = IF neKind = "native" THEN [neSource EXCEPT !.bound = 0, !.notes = 0] ELSE neSource
  /\ Go("startFailed", neCtl.then)
  /\ UNCHANGED <<neKind, nePlane, neSub, neWorld>>

Unwind ==
  /\ neCtl.at = "startFailed"
  /\ nePlane' = Leaving(nePlane)
  /\ neSub' = IF neCtl.then = "subscribe" THEN NoSub ELSE neSub
  /\ Go("stop", IF neCtl.then = "subscribe" THEN "failed" ELSE "unreplaced")
  /\ UNCHANGED <<neKind, neSource, neWorld, neFaults>>

Started ==
  /\ neCtl.at = "started"
  /\ IF neCtl.then = "subscribe"
     THEN neSub' = [neSub EXCEPT !.open = TRUE] /\ neWorld' = [neWorld EXCEPT !.reason = FALSE]
     ELSE UNCHANGED <<neSub, neWorld>>
  /\ Go("idle", "none")
  /\ UNCHANGED <<neKind, nePlane, neSource, neFaults>>

-----------------------------------------------------------------------------
(* finish_cleanup: the source's stop and what follows it.                  *)

\* The native stop joins the thread, so the observation it is making is made first; the
\* Android callback may still be on its way.
Quiet == neKind = "native" => neSource.read = {}

Released == [neSource EXCEPT !.held = 0, !.bound = 0, !.alive = FALSE, !.notes = 0]

\* network_events_unavailable after the scheduler's own call; a replacement and a dropped
\* subscription report nothing there.
Reason(then, failed) ==
  IF then \in {"failed", "close", "subscribe"} THEN failed ELSE neWorld.reason

Stopped ==
  /\ neCtl.at = "stop" /\ Quiet
  /\ neSource' = Released
  /\ nePlane' = IF neCtl.then = "replace" THEN Activated(nePlane)
                ELSE [nePlane EXCEPT !.slot = "vacant"]
  /\ Go(CASE neCtl.then = "replace" -> "start" [] neCtl.then = "subscribe" -> "subscribe"
          [] OTHER -> "idle", neCtl.then)
  /\ neWorld' = [neWorld EXCEPT !.reason = Reason(neCtl.then, neCtl.then = "failed")]
  /\ UNCHANGED <<neKind, neSub, neFaults>>

\* Mutant: a failed stop leaves the slot vacant.
Quarantined_Forgotten == [nePlane EXCEPT !.slot = "vacant"]

\* A stop that fails leaves the registration quarantined until it succeeds.
Quarantined == [nePlane EXCEPT !.slot = "blocked"]

StopFails ==
  /\ neCtl.at = "stop" /\ neKind = "android" /\ NeFault
  /\ neSource' \in {neSource, Released}       \* the request or only its reply was lost
  /\ nePlane' = Quarantined
  /\ Go("idle", "none")
  /\ neWorld' = [neWorld EXCEPT !.reason = Reason(neCtl.then, TRUE)]
  /\ UNCHANGED <<neKind, neSub>>

-----------------------------------------------------------------------------
(* The source's thread and the consumer.                                   *)

\* run_route_observer: a notification is answered by a fresh dump, which may fail; a failed
\* receive ends the thread.
Dump ==
  /\ neSource.alive /\ neSource.notes > 0 /\ \A r \in neSource.read : r[1] # neSource.bound
  /\ \/ /\ neSource' = [neSource EXCEPT !.notes = @ - 1, !.read = @ \cup {<<neSource.bound, neWorld.net>>}]
        /\ NeFine
     \/ neKind = "native" /\ NeFault /\ neSource' = [neSource EXCEPT !.notes = @ - 1, !.lost = TRUE]
     \/ neKind = "native" /\ NeFault /\ neSource' = [neSource EXCEPT !.alive = FALSE, !.notes = 0]
  /\ UNCHANGED <<neKind, nePlane, neSub, neCtl, neWorld>>

\* The callback enters the plane with the registration it was made for; every registration
\* has a thread of its own.
Callback ==
  /\ \E r \in neSource.read : Observe(r[1], r[2]) /\ neSource' = [neSource EXCEPT !.read = @ \ {r}]
  /\ UNCHANGED <<neKind, neCtl, neWorld, neFaults>>

\* next_network_event: an event, or the end of a channel whose sender is gone, after which
\* the dropped subscription is closed.
Receive ==
  /\ neCtl.at = "idle" /\ neSub.open
  /\ \/ neSub.q # <<>> /\ neSub' = [neSub EXCEPT !.q = Tail(@)] /\ UNCHANGED <<nePlane, neCtl>>
     \/ /\ neSub.q = <<>>
        /\ nePlane.slot = "vacant" \/ (nePlane.slot = "blocked" /\ nePlane.cont = "vacate")
        /\ neSub' = NoSub
        /\ Unsubscribes("drop")
  /\ UNCHANGED <<neKind, neSource, neWorld, neFaults>>

\* take_saturation_diagnostic.
TakeDiagnostic ==
  /\ nePlane.pending > 0
  /\ nePlane' = [nePlane EXCEPT !.pending = 0]
  /\ UNCHANGED <<neKind, neSource, neSub, neCtl, neWorld, neFaults>>

\* Another network becomes the default; whoever is bound is notified.
NetChanges ==
  /\ neWorld.changes < MaxChanges
  /\ \E n \in Nets \ {neWorld.net} :
       neWorld' = [neWorld EXCEPT !.net = n, !.changes = @ + 1]
  /\ neSource' = IF neSource.bound # 0 THEN [neSource EXCEPT !.notes = @ + 1] ELSE neSource
  /\ UNCHANGED <<neKind, nePlane, neSub, neCtl, neFaults>>

Require ==
  /\ neCtl.at = "idle"
  /\ neWorld' = [neWorld EXCEPT !.required = ~@]
  /\ UNCHANGED <<neKind, nePlane, neSource, neSub, neCtl, neFaults>>

NeNext ==
  \/ RetryCleanup \/ Subscribe \/ Close \/ ReplaceSource
  \/ StartBegins \/ StartBaseline \/ StartThread \/ StartAndroid \/ SourceStartFails \/ Unwind \/ Started
  \/ Stopped \/ StopFails \/ Dump \/ Callback \/ Receive \/ TakeDiagnostic \/ NetChanges \/ Require

NeSpec == NeInit /\ [][NeNext]_neVars

-----------------------------------------------------------------------------
(* Properties.                                                             *)

\* Once the source has nothing left to report, the plane's baseline is the network that is
\* the default now: no change falls between the first observation and the first
\* notification, and no late callback of an earlier registration replaces a newer fact.
NoChangeMissed ==
  /\ neCtl.at = "idle" /\ nePlane.slot = "active"
  /\ neSource.alive /\ neSource.notes = 0 /\ neSource.read = {} /\ ~neSource.lost
  => nePlane.base = neWorld.net

\* A registration a source holds is never forgotten: it is the plane's active one, or the
\* one whose stop is under way or quarantined.
NeverForgotten ==
  neSource.held # 0 => nePlane.slot # "vacant" /\ nePlane.reg = neSource.held

\* An enabled network Automation never waits on a silently missing source.
NotSilentlyMissing ==
  neCtl.at = "idle" /\ neWorld.required /\ neSub.open /\ nePlane.slot = "active" /\ ~neWorld.reason
    => neSource.alive
=============================================================================
