------------------------------ MODULE NetworkTool ------------------------------
(***************************************************************************)
(* The network tool (runtime/network.rs) over its two host ports: the App  *)
(* host's (app_native/network.rs) and the root host's (daemon/network.rs). *)
(* One synchronous call and one capture Task run beside each other; the    *)
(* capture may be asked to stop, cancelled, fail at every device and file  *)
(* operation, and lose its provider between admission and start.           *)
(*                                                                         *)
(* A row of an inspection and a packet of a capture are one unit of the    *)
(* response frame; a packet's length is what its record takes in a stream. *)
(***************************************************************************)
EXTENDS Resolver, FiniteSets, FiniteSetsExt

CONSTANTS
  Frame,          \* units one response carries
  MaxRows,        \* rows a source may hold, and the largest entry budget
  MaxPackets,     \* packets a capture may take
  MaxStream,      \* units a capture's stream may take
  MaxNtFaults     \* operations that fail

ASSUME NetworkToolAssumption ==
  /\ {Frame, MaxRows, MaxPackets, MaxStream} \subseteq Nat \ {0}
  /\ Frame >= 2       \* MAX_FRAME_BYTES carries any one packet, whose preview is bounded
  /\ MaxNtFaults \in Nat

VARIABLES ntFacts, ntCall, ntCap, ntStop, ntFaults

ntVars == <<ntFacts, ntCall, ntCap, ntStop, ntFaults>>

Families == {"interfaces", "routes", "dns", "sockets"}
FamilyOrder == <<"interfaces", "routes", "dns", "sockets">>

-----------------------------------------------------------------------------
(* Admission.                                                              *)

NtCall(op, arg, limit) == [op |-> op, arg |-> arg, limit |-> limit]
NtCalls ==
  {NtCall("inspect", s, n) : s \in {"all", "routes"}, n \in {1, MaxRows}}
    \cup {NtCall("diagnose", d, 0) : d \in {"connectivity", "probe", "lan_probe", "route"}}
    \cup {NtCall("read", r, n) : r \in {"ref", "path", "content"}, n \in {1, MaxPackets}}
    \cup {NtCall("packet", p, n) : p \in {"decode", "build"}, n \in {1}}
    \cup {NtCall("packet", "inject", 2), NtCall("invalid", "none", 0)}

scope_families(scope) == IF scope = "all" THEN Families ELSE {scope}

\* network_executor_request: bounds first, then the route of the call, then its executor.
validate_network_input(c) == c.op # "invalid"
NtRoute(c) == CASE c.op = "capture" -> "capture"
                [] c.op = "packet" /\ c.arg = "inject" -> "inject"
                [] OTHER -> "inspect_or_diagnose"
NtGen == [p \in Providers |-> ntFacts.gen]
network_executor_request(c) ==
  resolve_executor(ntFacts.host, ntFacts.up, NtGen, [tool |-> "network", route |-> NtRoute(c)])

\* A literal address of the local network needs the App's own grant, never the root host's.
targets_local_network(c) == c.op = "diagnose" /\ c.arg \in {"lan_probe", "route"}
require_local_network_authority(c) ==
  network_executor_request(c).provider = "app_native" /\ targets_local_network(c) => ntFacts.lan

NtRefusal(c) ==
  IF ~validate_network_input(c) THEN "invalid"
  ELSE IF network_executor_request(c) = NoExecutor \/ ~require_local_network_authority(c)
  THEN "unavailable" ELSE "ok"

network_executor_is_current(e) == e.provider \in ntFacts.up /\ e.generation = ntFacts.gen

\* network_source_plan: who owns each family, fixed before anything is asked.
network_source_plan(provider) ==
  LET app == IF ntFacts.companion THEN "app" ELSE "nobody"
      shz == IF "shizuku" \in ntFacts.up THEN "supplement" ELSE "nobody"
  IN  IF provider = "magisk_native" THEN [f \in Families |-> "daemon"]
      ELSE [f \in Families |-> CASE f = "routes" -> IF shz = "nobody" THEN app ELSE shz
                                 [] f = "sockets" -> shz
                                 [] OTHER -> app]

NoNtCall == [phase |-> "idle", call |-> NtCall("invalid", "none", 0), by |-> NoExecutor,
             rows |-> [f \in Families |-> 0], read |-> [f \in Families |-> <<>>],
             counts |-> [f \in Families |-> 0], at |-> 0, progressed |-> FALSE,
             plan |-> [f \in Families |-> "nobody"], seen |-> 0, cursor |-> 0,
             sent |-> 0, open |-> FALSE, verified |-> TRUE, cancel |-> FALSE, err |-> "ok"]

\* handle_network_public for a call that settles in its own response.
NtSubmit ==
  /\ ntCall.phase = "idle"
  /\ \E c \in NtCalls :
       ntCall' = IF NtRefusal(c) # "ok"
                 THEN [NoNtCall EXCEPT !.phase = "done", !.call = c, !.err = NtRefusal(c)]
                 ELSE [NoNtCall EXCEPT !.phase = "admitted", !.call = c,
                                       !.by = network_executor_request(c)]
  /\ UNCHANGED <<ntFacts, ntCap, ntStop, ntFaults>>

NtRest == UNCHANGED <<ntFacts, ntCap, ntStop>>
NtFault == ntFaults < MaxNtFaults /\ ntFaults' = ntFaults + 1
NtFine == UNCHANGED ntFaults
NtFail(e) == ntCall' = [ntCall EXCEPT !.phase = "done", !.err = e]
NtTo(p) == ntCall' = [ntCall EXCEPT !.phase = p]

\* The packet mechanics the Runtime does itself, on every host alike.
runs_inline(c) == (c.op = "packet" /\ c.arg # "inject") \/ (c.op = "read" /\ c.arg = "ref")

\* execute_network: the executor is checked again, then the claim, then the call dispatched.
NtStart ==
  /\ ntCall.phase = "admitted" /\ NtRest /\ NtFine
  /\ IF ~network_executor_is_current(ntCall.by) THEN NtFail("stale")
     ELSE IF ntCall.cancel THEN NtFail("cancelled")
     ELSE ntCall' = [ntCall EXCEPT !.plan = network_source_plan(ntCall.by.provider),
                       !.phase = CASE ntCall.call.op = "read" -> "page"
                                   [] ntCall.call.op # "read" /\ runs_inline(ntCall.call) -> "inline"
                                   [] ntCall.call.arg = "inject" -> "inject"
                                   [] OTHER -> ntCall.call.op]

\* execute_inline_network: a packet is decoded from the bytes or the artifact it names, or
\* built and published under the claim, which a cancellation refuses.
NtDecode ==
  /\ ntCall.phase = "inline" /\ ntCall.call.arg = "decode" /\ NtRest
  /\ \/ NtTo("done") /\ NtFine
     \/ NtFault /\ NtFail("notfound")

NtBuild ==
  /\ ntCall.phase = "inline" /\ ntCall.call.arg = "build" /\ NtRest
  /\ \/ ntCall.cancel /\ NtFail("cancelled") /\ NtFine
     \/ ~ntCall.cancel /\ NtTo("done") /\ NtFine
     \/ NtFault /\ NtFail("invalid")

-----------------------------------------------------------------------------
(* Inspection.                                                             *)

Unread == <<>>
Row(n, cut) == [n |-> n, truncated |-> cut]

\* Mutant: a family cut to its budget is not reported as truncated.
established_Silent(rows, limit, cut) == Row(IF rows > limit THEN limit ELSE rows, cut)

\* established: the App host applies the budget itself.
established(rows, limit, cut) ==
  Row(IF rows > limit THEN limit ELSE rows, cut \/ rows > limit)

\* The App host's families.  ask.snapshot, ask.links and ask.files say who answers;
\* a provider that does not is unresolved, a malformed reply ends the call.
framework_interfaces(ask, rows, limit) ==
  IF ask.snapshot = "answers" /\ ask.links THEN established(rows, limit, FALSE) ELSE Unread
framework_routes(ask, rows, limit) ==
  IF ask.snapshot = "answers" THEN established(rows, limit, FALSE) ELSE Unread
supplement_routes(ask, rows, limit) ==
  IF ask.files = "none" THEN Unread ELSE established(rows, limit, ask.files = "cut")
supplement_sockets(ask, rows, limit) ==
  IF ask.files = "none" THEN Unread ELSE established(rows, limit, ask.files = "cut")

AppRead(f, src, ask, rows, limit) ==
  CASE src = "app" /\ f = "interfaces" -> framework_interfaces(ask, rows, limit)
    [] src = "app" /\ f \in {"routes", "dns"} -> framework_routes(ask, rows, limit)
    [] src = "supplement" /\ f = "routes" -> supplement_routes(ask, rows, limit)
    [] src = "supplement" /\ f = "sockets" -> supplement_sockets(ask, rows, limit)
    [] OTHER -> Unread

\* The root host's families from netlink dumps, the companion and the socket tables, of
\* which one that cannot be read leaves the union incomplete.
daemon_interfaces(ask, rows) == IF ask.links THEN Row(rows, ask.files = "cut") ELSE Unread
daemon_routes(ask, rows) == IF ask.links THEN Row(rows, ask.files = "cut") ELSE Unread
daemon_dns(ask, rows) == IF ask.snapshot = "answers" THEN Row(rows, FALSE) ELSE Unread
daemon_sockets(ask, rows) ==
  IF ask.files = "none" THEN Unread ELSE Row(rows, ask.files = "cut")

DaemonRead(f, ask, rows) ==
  CASE f = "interfaces" -> daemon_interfaces(ask, rows)
    [] f = "routes" -> daemon_routes(ask, rows)
    [] f = "dns" -> daemon_dns(ask, rows)
    [] f = "sockets" -> daemon_sockets(ask, rows)

\* Whether the frame, a cut in a table or the budget may shorten what is reported: ask.files
\* = "cut" means that the source itself gave less than it holds.
Answers == [snapshot : {"answers", "lost"}, links : BOOLEAN, files : {"none", "cut", "whole"}]

ReadAll(ask, rows, c) ==
  [f \in Families |->
     IF f \notin scope_families(c.arg) \/ ntCall.plan[f] = "nobody" THEN Unread
     ELSE IF ntCall.by.provider = "magisk_native" THEN DaemonRead(f, ask, rows[f])
     ELSE AppRead(f, ntCall.plan[f], ask, rows[f], c.limit)]

\* The port's inspection, and InspectData::new.
NtInspect ==
  /\ ntCall.phase = "inspect" /\ NtRest
  /\ \/ \E ask \in Answers, rows \in [Families -> {0, MaxRows}] :
          LET got == ReadAll(ask, rows, ntCall.call)
          IN  /\ \A f \in Families : got[f] = Unread => rows[f] = 0
              /\ ntCall' = [ntCall EXCEPT !.phase = "fit", !.rows = rows, !.read = got, !.at = 0,
                              !.counts = [f \in Families |->
                                 IF got[f] = Unread THEN 0
                                 ELSE Min({got[f].n, ntCall.call.limit})]]
              /\ NtFine
     \/ ntCall.by.provider = "app_native" /\ NtFault /\ NtFail("io")

\* InspectData::build: one unit for the answer and one for every row it carries.
is_present(f) == ntCall.read[f] # Unread
Encoded(counts) ==
  1 + MapThenSumSet(LAMBDA f : counts[f], {f \in Families : is_present(f)})
encoded_fits(units) == units <= Frame

\* largest_fitting: a bisection between 0 and upper by what fits, empty when not even nothing
\* does.
largest_fitting(upper, fitting) ==
  LET bisect[r \in (0..upper) \X (0..upper)] ==
        LET middle == r[1] + (r[2] - r[1] + 1) \div 2
        IN  IF r[1] >= r[2] THEN r[1]
            ELSE IF middle \in fitting THEN bisect[<<middle, r[2]>>]
            ELSE bisect[<<r[1], middle - 1>>]
  IN  IF 0 \in fitting THEN {bisect[<<0, upper>>]} ELSE {}

\* InspectData::fit: one family after the other is cut to the largest count that fits alone;
\* a pass that could cut none gives up.
NtFit ==
  /\ ntCall.phase = "fit" /\ NtRest /\ NtFine
  /\ LET f      == FamilyOrder[ntCall.at]
         cut(n) == Encoded([ntCall.counts EXCEPT ![f] = n])
         fitted == largest_fitting(ntCall.counts[f],
                                   {n \in 0..ntCall.counts[f] : encoded_fits(cut(n))})
     IN  ntCall' =
           CASE ntCall.at = 0 /\ encoded_fits(Encoded(ntCall.counts)) ->
                  [ntCall EXCEPT !.phase = "done"]
             [] ntCall.at = 0 /\ ~encoded_fits(Encoded(ntCall.counts)) ->
                  [ntCall EXCEPT !.at = 1, !.progressed = FALSE]
             [] ntCall.at \in 1..4 /\ (\E n \in fitted : n < ntCall.counts[f]) /\ is_present(f) ->
                  [ntCall EXCEPT !.counts[f] = CHOOSE n \in fitted : TRUE,
                                 !.at = @ + 1, !.progressed = TRUE]
             [] ntCall.at = 5 /\ ntCall.progressed -> [ntCall EXCEPT !.at = 0]
             [] ntCall.at = 5 /\ ~ntCall.progressed ->
                  [ntCall EXCEPT !.phase = "done", !.err = "resource_limit"]
             [] OTHER -> [ntCall EXCEPT !.at = @ + 1]

\* What the answer says of a family whose array it carries.
Truncated(f) == ntCall.read[f].truncated \/ ntCall.counts[f] < ntCall.read[f].n

-----------------------------------------------------------------------------
(* Diagnosis, reading a capture, injection.                                *)

\* A probe that ran is an answer, whatever it found; only facts nobody established are an
\* error.  connectivity and route read the host's own facts, the others one shared probe.
diagnose_connectivity == {"ok"} \cup (IF ntCall.by.provider = "app_native" THEN {"unavailable"} ELSE {"io"})
diagnose_route        == diagnose_connectivity
network_probe         == {"ok"}
NtDiagnose ==
  /\ ntCall.phase = "diagnose" /\ NtRest
  /\ \E e \in CASE ntCall.call.arg = "connectivity" -> diagnose_connectivity
                [] ntCall.call.arg = "route" -> diagnose_route
                [] OTHER -> network_probe :
       NtFail(e) /\ IF e = "ok" THEN NtFine ELSE NtFault

\* read_capture_result and fit_capture_read over a capture of MaxPackets packets: the window
\* the caller asked for, as far as the frame carries it, and the cursor to go on from.
ReadWindow(offset, limit) ==
  LET start == Min({offset, MaxPackets})
      end   == Min({start + limit, MaxPackets})
      got   == CHOOSE n \in largest_fitting(end - start,
                                           {n \in 0..(end - start) : encoded_fits(1 + n)}) : TRUE
  IN  [start |-> start, n |-> got, more |-> got < end - start \/ end < MaxPackets]

\* capture.read, repeated by a caller that follows the cursor; a caller-named file is read
\* by the host, and the root host has no resolver for a content URI.
NtPage ==
  /\ ntCall.phase = "page" /\ NtRest
  /\ LET w == ReadWindow(ntCall.cursor, ntCall.call.limit)
     IN  \/ /\ ntCall.call.arg = "content" /\ ntCall.by.provider = "magisk_native"
            /\ NtFail("unavailable") /\ NtFine
         \/ /\ ~(ntCall.call.arg = "content" /\ ntCall.by.provider = "magisk_native")
            /\ ntCall' = [ntCall EXCEPT !.seen = @ + w.n, !.cursor = ntCall.cursor + w.n,
                                        !.phase = IF w.more /\ w.n > 0 THEN "page" ELSE "done"]
            /\ NtFine
         \/ NtFault /\ NtFail("io")

\* inject and send_repetitions: one device, closed on every path; a cancellation stops the
\* remaining repetitions, and a failed close is reported as cleanup that is not verified.
NtInject ==
  /\ ntCall.phase = "inject" /\ NtRest
  /\ \/ ~ntCall.open /\ ntCall' = [ntCall EXCEPT !.open = TRUE] /\ NtFine
     \/ ~ntCall.open /\ NtFault /\ NtFail("io")
     \/ /\ ntCall.open /\ ntCall.err = "ok" /\ ntCall.sent < ntCall.call.limit
        /\ \/ ntCall.cancel /\ ntCall' = [ntCall EXCEPT !.err = "cancelled"] /\ NtFine
           \/ ~ntCall.cancel /\ ntCall' = [ntCall EXCEPT !.sent = @ + 1] /\ NtFine
           \/ ~ntCall.cancel /\ NtFault /\ ntCall' = [ntCall EXCEPT !.err = "io"]
     \/ /\ ntCall.open /\ (ntCall.err # "ok" \/ ntCall.sent = ntCall.call.limit)
        /\ \/ ntCall' = [ntCall EXCEPT !.open = FALSE, !.phase = "done"] /\ NtFine
           \/ NtFault /\ ntCall' = [ntCall EXCEPT !.open = FALSE, !.phase = "done",
                                      !.verified = FALSE,
                                      !.err = IF @ = "ok" THEN "io" ELSE @]

NtCancel ==
  /\ ntCall.phase \in {"admitted", "inline", "inject"} /\ ~ntCall.cancel
  /\ ntCall' = [ntCall EXCEPT !.cancel = TRUE]
  /\ UNCHANGED <<ntFacts, ntCap, ntStop, ntFaults>>

-----------------------------------------------------------------------------
(* The capture Task.                                                       *)

\* at: the next step of NativeNetworkPort::capture; reg: whether the registry holds it;
\* ref: the stream the artifact manifest records for it; committed: whether the claim knows.
NoCap == [task |-> "none", by |-> NoExecutor, at |-> "none", reg |-> FALSE, open |-> FALSE,
          stop |-> FALSE, cancel |-> FALSE, committed |-> FALSE, packets |-> 0, stream |-> 0,
          persist |-> FALSE, ref |-> 0, dest |-> "none", verified |-> TRUE, err |-> "ok"]

CapRest == UNCHANGED <<ntFacts, ntCall, ntStop>>
CapTo(step) == ntCap' = [ntCap EXCEPT !.at = step]
CapFails(e, step) == ntCap' = [ntCap EXCEPT !.at = step, !.err = e]

CapAdmit ==
  /\ ntCap.task = "none"
  /\ LET c == NtCall("capture", "start", 0)
     IN  /\ NtRefusal(c) = "ok"
         /\ \E p \in BOOLEAN :
              ntCap' = [NoCap EXCEPT !.task = "queued", !.by = network_executor_request(c), !.persist = p]
  /\ CapRest /\ NtFine

\* run_task starts it, and the surface's checks come before the primitive.
CapStart ==
  /\ ntCap.task = "queued"
  /\ ntCap' = IF ntCap.cancel
              THEN [ntCap EXCEPT !.task = "cancelled"]
              ELSE [ntCap EXCEPT !.task = "running",
                      !.at = IF network_executor_is_current(ntCap.by) THEN "register" ELSE "settle",
                      !.err = IF network_executor_is_current(ntCap.by) THEN "ok" ELSE "stale"]
  /\ CapRest /\ NtFine

CapRegister ==
  /\ ntCap.at = "register"
  /\ ntCap' = [ntCap EXCEPT !.reg = TRUE, !.at = "open"]
  /\ CapRest /\ NtFine

CapOpen ==
  /\ ntCap.at = "open" /\ CapRest
  /\ \/ ntCap' = [ntCap EXCEPT !.open = TRUE, !.at = "activate"] /\ NtFine
     \/ NtFault /\ CapFails("capture_failed", "retire")

CapActivate ==
  /\ ntCap.at = "activate" /\ CapRest
  /\ \/ ntCap' = [ntCap EXCEPT !.at = "read", !.stream = 1] /\ NtFine
     \/ NtFault /\ \E e \in {"capture_failed", "unsupported"} : CapFails(e, "close")

\* CaptureProgress::admits: the file header and the record's own header count too.
admits(len) == ntCap.packets < MaxPackets /\ ntCap.stream + 1 + len <= MaxStream

\* read_device: the claim, the stop request, the deadline and the bounds are asked before
\* each packet, and a packet that would exceed a bound ends the capture without it.
CapRead ==
  /\ ntCap.at = "read" /\ CapRest
  /\ \/ ntCap.cancel /\ CapFails("cancelled", "close") /\ NtFine
     \/ ~ntCap.cancel /\ CapTo("close") /\ NtFine     \* stop, deadline, bound or end of the device
     \/ /\ ~ntCap.cancel /\ ~ntCap.stop /\ admits(0)
        /\ \E len \in 0..2 :
             /\ ntCap' = IF admits(len) THEN [ntCap EXCEPT !.packets = @ + 1, !.stream = @ + 1 + len]
                                        ELSE [ntCap EXCEPT !.at = "close"]
        /\ NtFine
     \/ ~ntCap.cancel /\ NtFault /\ CapFails("capture_failed", "close")

CapClose ==
  /\ ntCap.at = "close" /\ CapRest
  /\ \/ ntCap' = [ntCap EXCEPT !.open = FALSE, !.at = "retire"] /\ NtFine
     \/ NtFault /\ ntCap' = [ntCap EXCEPT !.open = FALSE, !.verified = FALSE, !.at = "retire"]

CapRetire ==
  /\ ntCap.at = "retire"
  /\ ntCap' = [ntCap EXCEPT !.reg = FALSE, !.at = IF ntCap.err = "ok" THEN "publish" ELSE "settle"]
  /\ CapRest /\ NtFine

\* Mutant: the stream is published without the claim.
CapPublish_Unclaimed ==
  /\ ntCap.at = "publish" /\ CapRest
  /\ \/ /\ ntCap' = [ntCap EXCEPT !.ref = ntCap.stream, !.committed = TRUE,
                                  !.err = IF ntCap.cancel THEN "cancelled" ELSE "ok",
                                  !.at = IF ntCap.persist /\ ~ntCap.cancel THEN "write" ELSE "settle"]
        /\ NtFine
     \/ NtFault /\ CapFails("io", "settle")

\* The stream is published under the claim, which a cancellation that came first refuses.
\* The manifest's commit may take effect and be reported failed: the record stays, and the
\* claim, which notes only a publication that returned, can still be cancelled.
CapPublish ==
  /\ ntCap.at = "publish" /\ CapRest
  /\ \/ ntCap.cancel /\ CapFails("cancelled", "settle") /\ NtFine
     \/ /\ ~ntCap.cancel
        /\ ntCap' = [ntCap EXCEPT !.ref = ntCap.stream, !.committed = TRUE,
                                  !.at = IF ntCap.persist THEN "write" ELSE "settle"]
        /\ NtFine
     \/ /\ ~ntCap.cancel /\ NtFault
        /\ \E ref \in {0, ntCap.stream} :
             ntCap' = [ntCap EXCEPT !.ref = ref, !.err = "io", !.at = "settle"]

\* persist_capture: written beside the destination, renamed, its directory synced.
CapWrite ==
  /\ ntCap.at = "write" /\ CapRest
  /\ \/ CapTo("rename") /\ NtFine
     \/ NtFault /\ CapFails("io", "settle")
CapRename ==
  /\ ntCap.at = "rename" /\ CapRest
  /\ \/ ntCap' = [ntCap EXCEPT !.dest = "whole", !.at = "settle"] /\ NtFine
     \/ NtFault /\ CapFails("io", "settle")
     \/ NtFault /\ ntCap' = [ntCap EXCEPT !.dest = "whole", !.err = "io", !.at = "settle"]

\* The end of execute_network and the settlement of its outcome: cleanup that is not
\* verified interrupts the Task, whatever it did.
CapOutcome == CASE ~ntCap.verified       -> "interrupted"
                [] ntCap.err = "ok"        -> "completed"
                [] ntCap.err = "cancelled" -> "cancelled"
                [] OTHER                   -> "failed"

\* The caller whose cancellation the claim took settles the Task too, as cancelled, and the
\* first of the two settlements stands.
CapEnds == IF ntCap.cancel /\ ntCap.verified THEN {CapOutcome, "cancelled"} ELSE {CapOutcome}
CapSettle ==
  /\ ntCap.at = "settle"
  /\ \E end \in CapEnds : ntCap' = [ntCap EXCEPT !.at = "none", !.task = end]
  /\ CapRest /\ NtFine

\* The Task's cancellation: a committed publication keeps its result.
CapCancel ==
  /\ ntCap.task \in {"queued", "running"} /\ ~ntCap.cancel /\ ~ntCap.committed
  /\ ntCap' = [ntCap EXCEPT !.cancel = TRUE]
  /\ CapRest /\ NtFine

-----------------------------------------------------------------------------
(* capture.stop.                                                           *)

CapEnded == ntCap.task \in {"completed", "failed", "cancelled", "interrupted"}

\* retained_capture_result and capture_stop_failure.
StopAnswer == IF ntCap.task = "completed" THEN "result" ELSE "ended"

StopCall ==
  /\ ntStop = "idle"
  /\ ntStop' = CASE ntCap.task = "none" -> "notfound"
                 [] CapEnded -> StopAnswer
                 [] OTHER -> "asking"
  /\ UNCHANGED <<ntFacts, ntCall, ntCap, ntFaults>>

\* The stop primitive asks the registry for the running capture.
StopAsk ==
  /\ ntStop = "asking"
  /\ ntStop' = IF ntCap.reg THEN "waiting" ELSE "notfound"
  /\ ntCap' = [ntCap EXCEPT !.stop = @ \/ ntCap.reg]
  /\ UNCHANGED <<ntFacts, ntCall, ntFaults>>

StopPoll ==
  /\ ntStop = "waiting"
  /\ ntStop' = IF CapEnded THEN StopAnswer ELSE "timeout"
  /\ UNCHANGED <<ntFacts, ntCall, ntCap, ntFaults>>

-----------------------------------------------------------------------------
\* A provider is lost, or comes back as another instance.
NtChange ==
  /\ ntFacts.gen = 1
  /\ \E p \in ntFacts.up : ntFacts' \in {[ntFacts EXCEPT !.up = @ \ {p}, !.gen = 2],
                                         [ntFacts EXCEPT !.gen = 2]}
  /\ (ntCall.phase = "admitted" /\ ntCap.task = "none")
       \/ (ntCap.task = "queued" /\ ntCall.phase = "idle")
  /\ UNCHANGED <<ntCall, ntCap, ntStop, ntFaults>>

NtInit ==
  /\ ntFacts \in {f \in [host : Hosts, companion : BOOLEAN, lan : BOOLEAN, gen : {1},
                         up : {{"app_native"}, {"app_native", "shizuku"}, {"magisk_native"}}] :
                    /\ f.host = "magisk" <=> f.up = {"magisk_native"}
                    /\ f.host = "magisk" => f.companion /\ f.lan}
  /\ ntCall = NoNtCall /\ ntCap = NoCap /\ ntStop = "idle" /\ ntFaults = 0

\* The two lanes do not meet, so a run takes one of them.
NtLane == ntCap.task = "none"
CapLane == ntCall.phase = "idle"

NtNext ==
  \/ NtLane /\ (NtSubmit \/ NtStart \/ NtDecode \/ NtBuild \/ NtInspect \/ NtFit \/ NtDiagnose \/ NtPage
                  \/ NtInject \/ NtCancel)
  \/ CapLane /\ (CapAdmit \/ CapStart \/ CapRegister \/ CapOpen \/ CapActivate \/ CapRead \/ CapClose
                   \/ CapRetire \/ CapPublish \/ CapWrite \/ CapRename \/ CapSettle \/ CapCancel
                   \/ StopCall \/ StopAsk \/ StopPoll)
  \/ NtChange

NtSpec == NtInit /\ [][NtNext]_ntVars

-----------------------------------------------------------------------------
(* Properties.                                                             *)

\* An inspection that is answered fits the frame; a family it does not call truncated
\* carries every row its source gave, and the frame took no row that still had room.
\* A caller that follows the cursor of a capture has read every packet once.
AnswersWhole ==
  ntCall.phase = "done" /\ ntCall.err = "ok" =>
    /\ ntCall.call.op = "inspect" =>
         /\ encoded_fits(Encoded(ntCall.counts))
         /\ \A f \in {g \in Families : is_present(g)} :
              /\ ~Truncated(f) => ntCall.counts[f] = ntCall.rows[f]
              /\ ntCall.counts[f] < Min({ntCall.read[f].n, ntCall.call.limit})
                   => Encoded(ntCall.counts) = Frame
    /\ ntCall.call.op = "read" => ntCall.seen = MaxPackets

\* A capture that completed has published one stream within both of its bounds with every
\* packet it counts; one that was cancelled has written no file, and has an artifact only if
\* its publication took effect and was reported failed before; and no capture that is over
\* holds its device or its place in the registry any longer.
CaptureSettles ==
  /\ ntCap.stream <= MaxStream /\ ntCap.packets <= MaxPackets
  /\ CapEnded => ~ntCap.open /\ ~ntCap.reg
  /\ ntCap.task = "completed" => /\ ntCap.ref = ntCap.stream /\ ntCap.ref >= 1 + ntCap.packets
                                 /\ ntCap.persist => ntCap.dest = "whole"
  /\ ntCap.task = "cancelled" => /\ ~ntCap.committed /\ ntCap.dest = "none"
                                 /\ ntCap.ref # 0 => ntCap.err = "io"

\* NativeNetworkPort::capture's promise: a cancelled execution publishes nothing.
CancelledCapturePublishesNothing == ntCap.task = "cancelled" => ntCap.ref = 0

\* InspectData::fit's promise: only an answer that cannot fit even with no entries is refused.
RefusedOnlyWhenEmptyCannotFit ==
  ntCall.phase = "done" /\ ntCall.call.op = "inspect" /\ ntCall.err = "resource_limit"
    => ~encoded_fits(Encoded([f \in Families |-> 0]))

\* stop_capture's promise: only an identity nobody knows is answered NOT_FOUND.
KnownCaptureFound == ntStop = "notfound" => ntCap.task = "none"
=============================================================================
