------------------------------- MODULE Visual -------------------------------
(***************************************************************************)
(* The visual tool: concurrent observe, view, interact and lease calls     *)
(* over one observation cache and one screen.  A call reads and writes the *)
(* cache under its lock; between two locks the screen, the capability      *)
(* facts and the other calls move on.  Every call judges age by the time   *)
(* it was admitted at, so the cache sees times out of order.               *)
(*                                                                         *)
(* An observation is named by its call: its image_ref and its node_refs    *)
(* hold its id.  Visual calls are synchronous executions, which nothing    *)
(* cancels, so the claim's checkpoints always pass.                        *)
(***************************************************************************)
EXTENDS Integers, FiniteSets

CONSTANTS
  VsCalls,      \* the calls, each made once
  VsLimit,      \* VISUAL_OBSERVATION_LIMIT
  VsTtl,        \* VISUAL_OBSERVATION_TTL_MS, in ticks of one INPUT_SETTLE
  LeaseTtl,     \* ttl_ms of every lease
  MaxVsMoves,   \* bound of the ticks and the changes of screen and capability facts
  MaxVsOpen     \* bound of the calls in flight at once

ASSUME VisualAssumption ==
  /\ VsCalls \subseteq Nat \ {0} /\ IsFiniteSet(VsCalls)
  /\ {VsLimit, VsTtl, LeaseTtl, MaxVsMoves, MaxVsOpen} \subseteq Nat

VARIABLES
  vsCache,      \* VisualObservationCache
  vsCall,       \* each call's progress
  vsScreen,     \* what the display shows
  vsCap,        \* the capability facts: a generation and the hierarchy's provider
  vsImages,     \* the image artifacts that exist, by the call that published them
  vsClock,
  vsGrants      \* the leases granted so far: a lease's id is its number

vsVars == <<vsCache, vsCall, vsScreen, vsCap, vsImages, vsClock, vsGrants>>

NoOne == 0
Absent == [none |-> TRUE]
Unstated == [gen |-> 0, reader |-> "none"]
Readers == {"accessibility", "privileged", "none"}

\* What a hierarchy of the screen tells apart: the window, the node at the
\* point a caller aims at, and everything else.
Scene == [window |-> vsScreen.window, node |-> vsScreen.node, rest |-> vsScreen.rest]

\* VisualObservationRecord; shot is what the published image shows.
Observation(at) ==
  [created |-> at, display |-> 0, executor |-> Unstated, proof |-> Absent,
   observed |-> FALSE, nodes |-> FALSE, image |-> FALSE, shot |-> Absent, pins |-> 1]

Fresh ==
  [pc |-> "idle", form |-> "none", at |-> 0, exec |-> Unstated, nodes |-> FALSE,
   about |-> NoOne, lease |-> NoOne, until |-> 0, display |-> 0, shot |-> Absent,
   scene |-> Absent, observed |-> FALSE, pinned |-> NoOne, ok |-> TRUE, grants |-> 0]

VsInit ==
  /\ vsCache = [lease |-> Absent, records |-> << >>, nodes |-> {}, images |-> {},
                lastInput |-> -1]
  /\ vsCall = [c \in VsCalls |-> Fresh]
  /\ vsScreen = [display |-> 1, window |-> 1, node |-> 1, rest |-> 1]
  /\ vsCap = [gen |-> 1, reader |-> "accessibility"]
  /\ vsImages = {}
  /\ vsClock = 0
  /\ vsGrants = 0

-----------------------------------------------------------------------------
\* The cache: each operator is the cache after the operation.

Known(cache) == DOMAIN cache.records

\* VisualObservationCache::live_lease drops a lease that has run out.
live_lease(cache, now) ==
  IF cache.lease # Absent /\ cache.lease.expires <= now
  THEN [cache EXCEPT !.lease = Absent] ELSE cache

MayInteract_Anonymous(cache, presented) ==
  presented = NoOne \/ (cache.lease # Absent /\ presented = cache.lease.id)

\* The holder may interact while a lease is held, anyone while none is.
MayInteract(cache, presented) ==
  IF cache.lease = Absent THEN presented = NoOne ELSE presented = cache.lease.id

\* admit_interaction: an admitted interaction of the holder renews the lease.
admit_interaction(cache, presented, now) ==
  LET live == live_lease(cache, now)
  IN  IF MayInteract(live, presented) /\ live.lease # Absent
      THEN [live EXCEPT !.lease.expires = now + LeaseTtl] ELSE live

Drop(cache, gone) ==
  [cache EXCEPT
     !.records = [o \in Known(cache) \ gone |-> cache.records[o]],
     !.nodes = @ \ {o \in gone \cap Known(cache) : cache.records[o].nodes},
     !.images = @ \ {o \in gone \cap Known(cache) : cache.records[o].image}]

Expired(cache, o, now) == now - cache.records[o].created >= VsTtl

remove_expired(cache, now) ==
  Drop(cache, {o \in Known(cache) : cache.records[o].pins = 0 /\ Expired(cache, o, now)})

Evictable(cache) == {o \in Known(cache) : cache.records[o].pins = 0}

\* The unpinned record that is oldest; ids break ties.
Oldest(cache) ==
  CHOOSE o \in Evictable(cache) : \A p \in Evictable(cache) :
    \/ cache.records[o].created < cache.records[p].created
    \/ cache.records[o].created = cache.records[p].created /\ o <= p

Full(cache) == Cardinality(Known(cache)) >= VsLimit

\* reserve: one pinned record for the observation, in the place of the oldest
\* unpinned one when the cache is full.
reserve(cache, o, now) ==
  LET kept == remove_expired(cache, now)
      room == IF Full(kept) THEN Drop(kept, {Oldest(kept)}) ELSE kept
  IN  [room EXCEPT !.records = [p \in Known(room) \cup {o} |->
         IF p = o THEN Observation(now) ELSE room.records[p]]]

HasPlace(cache, now) ==
  LET kept == remove_expired(cache, now) IN Full(kept) => Evictable(kept) # {}

\* complete: the finished record replaces its reservation and enters the indexes.
complete(cache, o, record) ==
  [cache EXCEPT
     !.records = [p \in Known(cache) \cup {o} |->
                    IF p = o THEN record ELSE cache.records[p]],
     !.nodes = IF record.nodes THEN @ \cup {o} ELSE @ \ {o},
     !.images = IF record.image THEN @ \cup {o} ELSE @ \ {o}]

\* pin_key: a record past its time is removed, whoever holds it.
Pinnable(cache, o, now) == o \in Known(cache) /\ ~Expired(cache, o, now)

pin_key(cache, o, now) ==
  IF Pinnable(cache, o, now)
  THEN [cache EXCEPT !.records[o].pins = @ + 1] ELSE Drop(cache, {o})

unpin(cache, o) ==
  IF o \in Known(cache) /\ cache.records[o].pins > 0
  THEN [cache EXCEPT !.records[o].pins = @ - 1] ELSE cache

-----------------------------------------------------------------------------
\* How a call moves.

Points == {"node", "point", "swipe"}
Interacts == Points \cup {"focused"}
Leases == {"acquire", "release"}
Forms == {"observe", "view"} \cup Interacts \cup Leases

Stands(c, pc) == vsCall[c].pc = pc
Goes(c, pc) == vsCall' = [vsCall EXCEPT ![c].pc = pc]

\* Of a call that is over remains the observation it returned, if any.
Over(c, ok) ==
  [Fresh EXCEPT !.pc = "done", !.ok = ok,
     !.form = IF ok /\ vsCall[c].form = "observe" THEN "observe" ELSE "none"]
Closes(c, ok) == vsCall' = [vsCall EXCEPT ![c] = Over(c, ok)]

\* A call that fails gives its pin back first.
Fails(c) ==
  IF vsCall[c].pinned # NoOne
  THEN vsCall' = [vsCall EXCEPT ![c].pc = "unpin", ![c].ok = FALSE]
  ELSE Closes(c, FALSE)

Returned == {c \in VsCalls : Stands(c, "done") /\ vsCall[c].form = "observe"}

\* The ids a caller can name: of an answered observation, and of a granted
\* lease.  A ref the observation did not return finds no record.
Named(form) ==
  CASE form \in Points -> Returned
    [] form \in {"view", "focused"} -> Returned \cup {NoOne}
    [] OTHER -> {NoOne}

Presented(form) ==
  IF form = "release" THEN 1..vsGrants
  ELSE IF form \in Interacts THEN 0..vsGrants ELSE {NoOne}

\* The providers a form can run on (visual_executor_request, resolve_execution).
Routed(form) ==
  CASE form = "node" -> {"accessibility"}
    [] form \in Interacts \ {"node"} -> {"accessibility", "privileged"}
    [] OTHER -> Readers

\* handle_visual_public and its admission fix the call's time and its
\* executor; a form without a provider is refused.  An observation's sources
\* are resolved with it: one that has gone stale in between only leaves its
\* part of the answer out, as a source that fails does.
VsAsk(c, form) ==
  /\ Stands(c, "idle")
  /\ \A b \in VsCalls : b < c => ~Stands(b, "idle")
  /\ Cardinality({b \in VsCalls : vsCall[b].pc \notin {"idle", "done"}}) < MaxVsOpen
  /\ vsCap.reader \in Routed(form)
  /\ \E nodes \in IF form = "observe" THEN BOOLEAN ELSE {FALSE},
        about \in Named(form), lease \in Presented(form) :
       vsCall' = [vsCall EXCEPT ![c] = [Fresh EXCEPT
                    !.pc = "admitted", !.form = form, !.nodes = nodes, !.about = about,
                    !.lease = lease, !.at = vsClock, !.exec = vsCap]]
  /\ UNCHANGED <<vsCache, vsScreen, vsCap, vsImages, vsClock, vsGrants>>

\* execute_visual asks executor_is_current first.
ExecutorCurrent(c) == vsCall[c].exec = vsCap

VsStale(c) ==
  /\ Stands(c, "admitted") /\ ~ExecutorCurrent(c)
  /\ Closes(c, FALSE)
  /\ UNCHANGED <<vsCache, vsScreen, vsCap, vsImages, vsClock, vsGrants>>

\* The call of one of the given forms starts.
Starts(c, forms) == Stands(c, "admitted") /\ vsCall[c].form \in forms /\ ExecutorCurrent(c)

-----------------------------------------------------------------------------
\* execute_observe.

\* An observation waits out INPUT_SETTLE after the last input it finds.
VsSettle(c) ==
  /\ Starts(c, {"observe"})
  /\ vsCall' = [vsCall EXCEPT ![c].pc = "settle", ![c].until = vsCache.lastInput + 1]
  /\ UNCHANGED <<vsCache, vsScreen, vsCap, vsImages, vsClock, vsGrants>>

VsReserve(c) ==
  /\ Stands(c, "settle")
  /\ vsClock >= vsCall[c].until
  /\ IF HasPlace(vsCache, vsCall[c].at)
     THEN /\ vsCall' = [vsCall EXCEPT ![c].pc = "display", ![c].until = 0]
          /\ vsCache' = reserve(vsCache, c, vsCall[c].at)
     ELSE Closes(c, FALSE) /\ vsCache' = remove_expired(vsCache, vsCall[c].at)
  /\ UNCHANGED <<vsScreen, vsCap, vsImages, vsClock, vsGrants>>

VsDisplay(c) ==
  /\ Stands(c, "display")
  /\ \/ vsCall' = [vsCall EXCEPT ![c].pc = "image", ![c].display = vsScreen.display]
     \/ Goes(c, "undo")
  /\ UNCHANGED <<vsCache, vsScreen, vsCap, vsImages, vsClock, vsGrants>>

\* A screen capture of another display is refused.
CaptureShows(c) == vsScreen.display = vsCall[c].display

\* A capture that does not verify its cleanup ends the observation; one that
\* fails clean, or that shows another display, only leaves out the image.
VsImage(c) ==
  /\ Stands(c, "image")
  /\ \/ Goes(c, "hierarchy") /\ UNCHANGED vsImages
     \/ /\ CaptureShows(c)
        /\ vsCall' = [vsCall EXCEPT ![c].pc = "hierarchy", ![c].shot = Scene]
        /\ vsImages' = vsImages \cup {c}
     \/ Goes(c, "undo") /\ UNCHANGED vsImages
  /\ UNCHANGED <<vsCache, vsScreen, vsCap, vsClock, vsGrants>>

\* Accessibility names the display it read; a privileged dump takes over the
\* display read before.
HierarchyHeld(c) ==
  \/ vsCall[c].exec.reader = "privileged"
  \/ vsCall[c].exec.reader = "accessibility" /\ vsScreen.display = vsCall[c].display

\* Every observation reads a hierarchy.  A privileged dump may leave its file
\* behind, which ends the observation.
VsHierarchy(c) ==
  /\ Stands(c, "hierarchy")
  /\ \/ Goes(c, "complete")
     \/ /\ HierarchyHeld(c)
        /\ vsCall' = [vsCall EXCEPT ![c].pc = "complete", ![c].scene = Scene,
                        ![c].observed = vsCall[c].nodes]
     \/ vsCall[c].exec.reader = "privileged" /\ Goes(c, "undo")
  /\ UNCHANGED <<vsCache, vsScreen, vsCap, vsImages, vsClock, vsGrants>>

Finished(c) ==
  [Observation(vsCall[c].at) EXCEPT
     !.display = vsCall[c].display, !.proof = vsCall[c].scene,
     !.executor = IF vsCall[c].scene = Absent THEN Unstated ELSE vsCall[c].exec,
     !.observed = vsCall[c].observed,
     !.nodes = vsCall[c].observed /\ vsCall[c].exec.reader = "accessibility",
     !.image = vsCall[c].shot # Absent, !.shot = vsCall[c].shot, !.pins = 0]

VsComplete(c) ==
  /\ Stands(c, "complete")
  /\ Closes(c, TRUE)
  /\ vsCache' = complete(vsCache, c, Finished(c))
  /\ UNCHANGED <<vsScreen, vsCap, vsImages, vsClock, vsGrants>>

\* A failed observation deletes its image and its reservation; a deletion that
\* fails is reported as unverified cleanup.
VsUndo(c) ==
  /\ Stands(c, "undo")
  /\ vsCache' = Drop(vsCache, {c})
  /\ \/ Closes(c, FALSE) /\ vsImages' = vsImages \ {c}
     \/ c \in vsImages /\ Closes(c, FALSE) /\ UNCHANGED vsImages
  /\ UNCHANGED <<vsScreen, vsCap, vsClock, vsGrants>>

-----------------------------------------------------------------------------
\* execute_view.

\* pin_image: an image whose observation is gone is viewed without a pin.
VsPinImage(c) ==
  /\ Starts(c, {"view"})
  /\ LET o == vsCall[c].about
         held == o \in vsCache.images /\ Pinnable(vsCache, o, vsCall[c].at)
     IN  /\ vsCall' = [vsCall EXCEPT ![c].pc = "open",
                         ![c].pinned = IF held THEN o ELSE NoOne]
         /\ vsCache' = IF o \in vsCache.images
                       THEN pin_key(vsCache, o, vsCall[c].at) ELSE vsCache
  /\ UNCHANGED <<vsScreen, vsCap, vsImages, vsClock, vsGrants>>

VsTransform_KeepsPin(c) ==
  /\ Stands(c, "open")
  /\ \/ /\ vsCall[c].about \in vsImages \cup {NoOne}
        /\ Goes(c, IF vsCall[c].pinned # NoOne THEN "unpin" ELSE "publish")
     \/ Closes(c, FALSE)
  /\ UNCHANGED <<vsCache, vsScreen, vsCap, vsImages, vsClock, vsGrants>>

\* The source, an artifact by its ref, a path or a content URI, is opened and
\* transformed.  Whatever comes of it, the pin is given back before the answer
\* is used.
VsTransform(c) ==
  /\ Stands(c, "open")
  /\ \/ /\ vsCall[c].about \in vsImages \cup {NoOne}
        /\ Goes(c, IF vsCall[c].pinned # NoOne THEN "unpin" ELSE "publish")
     \/ Fails(c)
  /\ UNCHANGED <<vsCache, vsScreen, vsCap, vsImages, vsClock, vsGrants>>

VsPublish(c) ==
  /\ Stands(c, "publish")
  /\ \/ Closes(c, TRUE) /\ vsImages' = vsImages \cup {c}
     \/ Closes(c, FALSE) /\ UNCHANGED vsImages
  /\ UNCHANGED <<vsCache, vsScreen, vsCap, vsClock, vsGrants>>

\* unpin_record, after which a failed call ends.
VsUnpin(c) ==
  /\ Stands(c, "unpin")
  /\ vsCache' = unpin(vsCache, vsCall[c].pinned)
  /\ IF ~vsCall[c].ok THEN Closes(c, FALSE)
     ELSE vsCall' = [vsCall EXCEPT ![c].pinned = NoOne,
                       ![c].pc = IF vsCall[c].form = "view" THEN "publish" ELSE "note"]
  /\ UNCHANGED <<vsScreen, vsCap, vsImages, vsClock, vsGrants>>

-----------------------------------------------------------------------------
\* The lease.

VsAcquire(c) ==
  /\ Starts(c, {"acquire"})
  /\ LET live == live_lease(vsCache, vsCall[c].at)
     IN  IF live.lease = Absent
         THEN /\ Closes(c, TRUE)
              /\ vsGrants' = vsGrants + 1
              /\ vsCache' = [live EXCEPT !.lease =
                               [id |-> vsGrants + 1, expires |-> vsCall[c].at + LeaseTtl]]
         ELSE Closes(c, FALSE) /\ vsCache' = live /\ UNCHANGED vsGrants
  /\ UNCHANGED <<vsScreen, vsCap, vsImages, vsClock>>

VsRelease(c) ==
  /\ Starts(c, {"release"})
  /\ LET live == live_lease(vsCache, vsCall[c].at)
         held == live.lease # Absent /\ live.lease.id = vsCall[c].lease
     IN  /\ Closes(c, held)
         /\ vsCache' = IF held THEN [live EXCEPT !.lease = Absent] ELSE live
  /\ UNCHANGED <<vsScreen, vsCap, vsImages, vsClock, vsGrants>>

VsLeaseCheck(c) ==
  /\ Starts(c, Interacts)
  /\ vsCache' = admit_interaction(vsCache, vsCall[c].lease, vsCall[c].at)
  /\ IF MayInteract(live_lease(vsCache, vsCall[c].at), vsCall[c].lease)
     THEN vsCall' = [vsCall EXCEPT ![c].pc = "target", ![c].grants = vsGrants]
     ELSE Closes(c, FALSE)
  /\ UNCHANGED <<vsScreen, vsCap, vsImages, vsClock, vsGrants>>

-----------------------------------------------------------------------------
\* execute_interact.

\* The call takes what it needs of the record it pinned.
Aims(c, o) ==
  [vsCall[c] EXCEPT !.pinned = o, !.display = vsCache.records[o].display,
     !.scene = vsCache.records[o].proof, !.observed = vsCache.records[o].observed,
     !.shot = vsCache.records[o].shot]

\* interaction_target, require_observation_executor and the swipe's own arm.
VsTarget(c) ==
  /\ Stands(c, "target") /\ vsCall[c].form \in Points
  /\ LET o == vsCall[c].about
         found == vsCall[c].form = "node" => o \in vsCache.nodes
         held == found /\ Pinnable(vsCache, o, vsCall[c].at)
         usable == /\ vsCache.records[o].executor = vsCall[c].exec
                   /\ vsCache.records[o].proof # Absent
     IN  /\ vsCache' = IF found THEN pin_key(vsCache, o, vsCall[c].at) ELSE vsCache
         /\ IF ~held THEN Closes(c, FALSE)
            ELSE vsCall' = [vsCall EXCEPT ![c] = [Aims(c, o) EXCEPT
                              !.pc = IF usable THEN "check" ELSE "unpin", !.ok = usable]]
  /\ UNCHANGED <<vsScreen, vsCap, vsImages, vsClock, vsGrants>>

\* Text and keys for whatever has the focus: without an observation nothing is
\* expected of the screen.
VsFocused(c) ==
  /\ Stands(c, "target") /\ vsCall[c].form = "focused"
  /\ LET o == vsCall[c].about
     IN  IF o = NoOne THEN Goes(c, "check") /\ UNCHANGED vsCache
         ELSE /\ vsCache' = pin_key(vsCache, o, vsCall[c].at)
              /\ IF Pinnable(vsCache, o, vsCall[c].at)
                 THEN vsCall' = [vsCall EXCEPT ![c] = [Aims(c, o) EXCEPT !.pc = "package"]]
                 ELSE Closes(c, FALSE)
  /\ UNCHANGED <<vsScreen, vsCap, vsImages, vsClock, vsGrants>>

\* expected_package keeps the package and not the pin.
VsPackage(c) ==
  /\ Stands(c, "package")
  /\ vsCache' = unpin(vsCache, vsCall[c].pinned)
  /\ IF vsCall[c].scene = Absent THEN Closes(c, FALSE)
     ELSE vsCall' = [vsCall EXCEPT ![c].pinned = NoOne, ![c].pc = "check"]
  /\ UNCHANGED <<vsScreen, vsCap, vsImages, vsClock, vsGrants>>

\* The providers read the display before the scene.
VsCheckDisplay(c) ==
  /\ Stands(c, "check")
  /\ \/ /\ vsCall[c].form \in Points => vsScreen.display = vsCall[c].display
        /\ Goes(c, "scene")
     \/ Fails(c)
  /\ UNCHANGED <<vsCache, vsScreen, vsCap, vsImages, vsClock, vsGrants>>

\* verify_coordinate_scene and verify_foreground_package; the accessibility
\* service holds a node to its window and its identity.
SceneHolds(c) ==
  LET aimed == vsCall[c].scene
  IN  CASE vsCall[c].form = "focused" -> aimed # Absent => Scene.window = aimed.window
        [] vsCall[c].form \notin {"node", "focused"} /\ ~vsCall[c].observed -> Scene = aimed
        [] OTHER -> /\ Scene.window = aimed.window
                    /\ vsCall[c].form # "swipe" => Scene.node = aimed.node

VsCheckScene(c) ==
  /\ Stands(c, "scene")
  /\ \/ SceneHolds(c) /\ Goes(c, "deliver")
     \/ Fails(c)
  /\ UNCHANGED <<vsCache, vsScreen, vsCap, vsImages, vsClock, vsGrants>>

\* The input program runs.  It may fail after the input has reached the
\* screen: it times out, or paste_text cannot put the clipboard back.
VsDeliver(c) ==
  /\ Stands(c, "deliver")
  /\ \/ Goes(c, IF vsCall[c].pinned # NoOne THEN "unpin" ELSE "note")
     \/ Fails(c)
  /\ UNCHANGED <<vsCache, vsScreen, vsCap, vsImages, vsClock, vsGrants>>

VsNote(c) ==
  /\ Stands(c, "note")
  /\ vsCache' = [vsCache EXCEPT !.lastInput = vsClock]
  /\ Closes(c, TRUE)
  /\ UNCHANGED <<vsScreen, vsCap, vsImages, vsClock, vsGrants>>

-----------------------------------------------------------------------------
\* What moves by itself.

Moves ==
  vsClock + vsScreen.display + vsScreen.window + vsScreen.node + vsScreen.rest + vsCap.gen - 5

VsTick ==
  /\ Moves < MaxVsMoves
  /\ vsClock' = vsClock + 1
  /\ UNCHANGED <<vsCache, vsCall, vsScreen, vsCap, vsImages, vsGrants>>

VsScreenMoves(f) ==
  /\ Moves < MaxVsMoves
  /\ vsScreen' = [vsScreen EXCEPT ![f] = @ + 1]
  /\ UNCHANGED <<vsCache, vsCall, vsCap, vsImages, vsClock, vsGrants>>

VsCapability(reader) ==
  /\ Moves < MaxVsMoves
  /\ vsCap' = [gen |-> vsCap.gen + 1, reader |-> reader]
  /\ UNCHANGED <<vsCache, vsCall, vsScreen, vsImages, vsClock, vsGrants>>

\* The artifact store evicts an image to make room.
VsEvict(o) ==
  /\ o \in vsImages \cap Returned
  /\ vsImages' = vsImages \ {o}
  /\ UNCHANGED <<vsCache, vsCall, vsScreen, vsCap, vsClock, vsGrants>>

Observes(c) ==
  \/ VsSettle(c) \/ VsReserve(c) \/ VsDisplay(c) \/ VsImage(c) \/ VsHierarchy(c)
  \/ VsComplete(c) \/ VsUndo(c)

Views(c) == VsPinImage(c) \/ VsTransform(c) \/ VsPublish(c)

Interactions(c) ==
  \/ VsLeaseCheck(c) \/ VsTarget(c) \/ VsFocused(c) \/ VsPackage(c)
  \/ VsCheckDisplay(c) \/ VsCheckScene(c) \/ VsDeliver(c) \/ VsNote(c)

VsNext ==
  \/ \E c \in VsCalls :
       \/ \E form \in Forms : VsAsk(c, form)
       \/ VsStale(c) \/ Observes(c) \/ Views(c) \/ VsUnpin(c)
       \/ VsAcquire(c) \/ VsRelease(c) \/ Interactions(c) \/ VsEvict(c)
  \/ VsTick
  \/ \E f \in DOMAIN vsScreen : VsScreenMoves(f)
  \/ \E reader \in Readers \ {vsCap.reader} : VsCapability(reader)

VsSpec == VsInit /\ [][VsNext]_vsVars

-----------------------------------------------------------------------------
\* An observation in the making holds its own reservation.
Reserving(c) == vsCall[c].pc \in {"display", "image", "hierarchy", "complete", "undo"}
Holders(o) == {c \in VsCalls : vsCall[c].pinned = o \/ (c = o /\ Reserving(c))}

\* However observe, view and interact calls overlap and fail, a record is
\* pinned exactly as often as calls still hold it, so no failed call keeps it
\* from being evicted for good; the cache stays within
\* VISUAL_OBSERVATION_LIMIT, and its indexes lead to the records that own what
\* they index.
PinsHeld ==
  /\ Cardinality(Known(vsCache)) <= VsLimit
  /\ \A o \in Known(vsCache) : vsCache.records[o].pins = Cardinality(Holders(o))
  /\ vsCache.nodes = {o \in Known(vsCache) : vsCache.records[o].nodes}
  /\ vsCache.images = {o \in Known(vsCache) : vsCache.records[o].image}

Delivering(c) == Stands(c, "deliver") /\ vsCall'[c].pc # "deliver"
LiveLease == vsCache.lease # Absent /\ vsCache.lease.expires > vsClock

\* Input that reaches the screen under a live lease is its holder's, or passed
\* the lease check before that lease was granted: no call that found the lease
\* held gets past it, whatever the times the calls were admitted at.
InputUnderLease ==
  [][\A c \in VsCalls : Delivering(c) /\ LiveLease =>
        \/ vsCall[c].lease = vsCache.lease.id
        \/ vsCall[c].grants < vsCache.lease.id]_vsVars

\* "Exclusive use of screen input, held by whoever presents `id`": no other
\* caller's input reaches the screen under a live lease.
ExclusiveInput ==
  [][\A c \in VsCalls : Delivering(c) /\ LiveLease =>
        vsCall[c].lease = vsCache.lease.id]_vsVars

\* "Every coordinate is scene-bound, even when the caller only requested an
\* image": a point aimed at in an image passes the check only on the scene the
\* image shows.
ImageBound ==
  \A c \in VsCalls :
    Stands(c, "deliver") /\ vsCall[c].form = "point" /\ ~vsCall[c].observed
      /\ vsCall[c].shot # Absent
    => vsCall[c].scene = vsCall[c].shot

\* "each admitted interaction renews it": an interaction never brings the end
\* of its lease nearer.
RenewalExtends ==
  [][vsCache.lease # Absent /\ vsCache'.lease # Absent
       /\ vsCache'.lease.id = vsCache.lease.id
     => vsCache'.lease.expires >= vsCache.lease.expires]_vsVars
=============================================================================
