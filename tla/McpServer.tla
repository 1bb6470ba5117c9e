------------------------------ MODULE McpServer ------------------------------
(***************************************************************************)
(* The loopback MCP server of both editions: the settings file that owns   *)
(* the bearer token, the listener that serves it, the HTTP exchanges of    *)
(* its connections, and the host calls an exchange makes.  In the App each *)
(* host call runs on its own thread under a permit of KotlinMcpHost and    *)
(* outlives the client that asked for it; in the daemon it is a task of    *)
(* the host's reactor.                                                     *)
(*                                                                         *)
(* A token is the number of its minting, 0 stands for none.  What a        *)
(* request says is abstracted to the first check it fails, its token and   *)
(* what it asks for; an answer to its HTTP status and whether it invites   *)
(* the client to ask again.                                                *)
(***************************************************************************)
EXTENDS Naturals, FiniteSets, Sequences, SequencesExt

CONSTANTS Connections,  \* open connections: MAX_CONNECTIONS of them in the code
          HostCalls,    \* permits of one KotlinMcpHost: MAX_HOST_CALLS
          MaxTokens,    \* bound: tokens minted
          MaxOld,       \* bound: host calls left by listeners that ended
          MaxMcFaults   \* bound: failed reads, commits, binds and thread starts

ASSUME McpServerAssumption ==
  /\ IsFiniteSet(Connections)
  /\ HostCalls \in Nat \ {0}
  /\ {MaxTokens, MaxOld, MaxMcFaults} \subseteq Nat

VARIABLES mcKind,    \* which edition this is
          mcFile,    \* mcp.json; token 0 is a file that was never written
          mcCache,   \* the App's snapshot of it, token 0 while there is none
          mcHost,    \* whether the daemon has a Runtime host to serve
          mcToken,   \* the token of the running listener, 0 without one
          mcFree,    \* free permits of the running listener's KotlinMcpHost
          mcOrphans, \* host calls that outlived their exchange
          mcEx,      \* the exchange of each connection
          mcPast,    \* tokens minted, and revoked by an acknowledged operation
          mcFaults

mcSettings == <<mcKind, mcFile, mcCache, mcHost>>
mcVars == <<mcKind, mcFile, mcCache, mcHost, mcToken, mcFree, mcOrphans,
            mcEx, mcPast, mcFaults>>

NoSettings == [enabled |-> FALSE, token |-> 0]
ClosedConnection ==
  [at |-> "closed", step |-> "none", served |-> FALSE, stale |-> FALSE,
   status |-> 0, retry |-> FALSE]

(***************************************************************************)
(* Requests: the checks of each function, in its order, with the status a  *)
(* request that fails one is answered.                                     *)
(***************************************************************************)
respond_checks == << <<"path", 404>>, <<"body", 400>>, <<"late", 408>> >>
handle_checks == << <<"method", 405>>, <<"endpoint", 403>>, <<"token", 401>> >>
protocol_checks ==
  << <<"media", 415>>, <<"accept", 406>>, <<"size", 413>>, <<"json", 400>>,
     <<"notification", 400>>, <<"request", 200>> >>
header_checks == << <<"header", 400>>, <<"meta", 200>> >>
method_checks == << <<"unknown", 404>> >>
input_checks == << <<"input", 200>> >>
McChecks == respond_checks \o handle_checks \o protocol_checks \o header_checks
            \o method_checks \o input_checks

\* The index of the check that answers a request failing those in `bad`.
FirstFailed(bad) == SelectInSeq(McChecks, LAMBDA check : check[1] \in bad)
PassedToken(failed) == failed = 0 \/ McChecks[failed] \notin Range(respond_checks \o handle_checks)
BadInputs == {{}} \cup {{check[1]} : check \in Range(McChecks)}

bearer_matches(token) == mcToken # 0 /\ token = mcToken

Answered(ex, status, retry) ==
  [ex EXCEPT !.at = "answered", !.step = "none", !.status = status, !.retry = retry]
\* A tool failure this facade reports itself.
tool_failure(ex) == Answered(ex, 200, FALSE)
tool_failure_with(ex, code) == Answered(ex, 200, code = "RESOURCE_LIMIT")

\* The exchange asks its host: for a permit first in the App.
AsksHost(ex, step) ==
  [ex EXCEPT !.at = IF mcKind = "app" THEN "slot" ELSE "calling", !.step = step]

Dispatched(ex, asks) ==
  CASE asks = "plain"     -> Answered(ex, 200, FALSE)
    [] asks = "call"      -> AsksHost(ex, "submit")
    [] asks = "resources" -> AsksHost(ex, "query")

(***************************************************************************)
(* Connections.                                                            *)
(***************************************************************************)
accept_loop(c) ==
  /\ mcToken # 0
  /\ mcEx[c].at = "closed"
  /\ mcEx' = [mcEx EXCEPT ![c] = [ClosedConnection EXCEPT !.at = "reading"]]
  /\ UNCHANGED <<mcSettings, mcToken, mcFree, mcOrphans, mcPast, mcFaults>>

\* The whole request arrived, or never will: everything up to the first await
\* runs at once, against the token of this moment.
respond(c) ==
  /\ mcEx[c].at = "reading"
  /\ \E token \in 0..mcPast.minted, bad \in BadInputs,
        asks \in {"plain", "call", "resources"} :
       LET failed == FirstFailed(IF bearer_matches(token) THEN bad
                                                          ELSE bad \cup {"token"})
           ex     == [mcEx[c] EXCEPT !.stale = /\ PassedToken(failed)
                                               /\ token \in mcPast.revoked]
       IN  mcEx' = [mcEx EXCEPT ![c] =
                      IF failed = 0 THEN Dispatched(ex, asks)
                                    ELSE Answered(ex, McChecks[failed][2], FALSE)]
  /\ UNCHANGED <<mcSettings, mcToken, mcFree, mcOrphans, mcPast, mcFaults>>

\* The answer is written; the connection stays open for the next request.
Written(c) ==
  /\ mcEx[c].at = "answered"
  /\ mcEx' = [mcEx EXCEPT ![c] = [ClosedConnection EXCEPT !.at = "reading"]]
  /\ UNCHANGED <<mcSettings, mcToken, mcFree, mcOrphans, mcPast, mcFaults>>

\* The client goes away, or sends no head in time.  Only its own exchange
\* ends: a host call it started keeps its thread and its permit.
Departs(c) ==
  /\ mcEx[c].at # "closed"
  /\ mcEx' = [mcEx EXCEPT ![c] = ClosedConnection]
  /\ mcOrphans' = IF mcKind = "app" /\ mcEx[c].at = "calling"
                  THEN [mcOrphans EXCEPT !.current = @ + 1] ELSE mcOrphans
  /\ UNCHANGED <<mcSettings, mcToken, mcFree, mcPast, mcFaults>>

(***************************************************************************)
(* Host calls.                                                             *)
(***************************************************************************)
\* The wait for a permit ends in a thread of the call's own.
SlotGranted(c) ==
  /\ mcEx[c].at = "slot"
  /\ mcFree > 0
  /\ mcFree' = mcFree - 1
  /\ mcEx' = [mcEx EXCEPT ![c].at = "calling"]
  /\ UNCHANGED <<mcSettings, mcToken, mcOrphans, mcPast, mcFaults>>

Unhosted_PassesOn(ex) == tool_failure_with(ex, "RESOURCE_LIMIT")

\* What a call that got no thread is answered.  Only for the submission itself
\* does the code of the failure reach the client; a query of its result does
\* not pass it on.
Unhosted(ex) ==
  IF ex.step = "submit" THEN tool_failure_with(ex, "RESOURCE_LIMIT")
                        ELSE tool_failure(ex)

SlotWaitEnds(c) ==
  /\ mcEx[c].at = "slot"
  /\ \/ mcFree = 0 /\ UNCHANGED mcFaults
     \/ mcFree > 0 /\ mcFaults < MaxMcFaults /\ mcFaults' = mcFaults + 1
  /\ mcEx' = [mcEx EXCEPT ![c] = Unhosted(mcEx[c])]
  /\ UNCHANGED <<mcSettings, mcToken, mcFree, mcOrphans, mcPast>>

\* What the host may answer a submission, and whether it was then served.
\* "barred" is a business call behind the closed admission barrier, the one
\* refusal of the Runtime that invites a repeat.
submit_public ==
  {[reply |-> r, served |-> TRUE] : r \in {"success", "unreadable"}}
  \cup {[reply |-> r, served |-> s] : r \in {"error", "failed"}, s \in BOOLEAN}
  \cup {[reply |-> "barred", served |-> FALSE]}

\* call_tool after the reply: a success that names artifacts asks for their
\* expiries, and for the image it shows.
Replied(ex, got, names) ==
  LET served == [ex EXCEPT !.served = got.served]
  IN  CASE got.reply = "failed"     -> tool_failure_with(served, "IO_ERROR")
        [] got.reply = "unreadable" -> tool_failure(served)
        [] got.reply = "error"      -> Answered(served, 200, FALSE)
        [] got.reply = "barred"     -> Answered(served, 200, TRUE)
        [] got.reply = "success" /\ names = "nothing" -> Answered(served, 200, FALSE)
        [] got.reply = "success" /\ names = "refs"    -> AsksHost(served, "refs")
        [] got.reply = "success" /\ names = "image"   -> AsksHost(served, "refs_image")

\* Expiries read, the image inlined, the result within the response limit; or
\* the failure of one of them.
ref_expiries(ex, read) ==
  CASE read /\ ex.step = "refs_image" -> AsksHost(ex, "image")
    [] read /\ ex.step = "refs"       -> Answered(ex, 200, FALSE)
    [] ~read                          -> tool_failure(ex)
inline_image(ex, read) == IF read THEN Answered(ex, 200, FALSE) ELSE tool_failure(ex)
\* resources/list and resources/read: a page, a resource or an error object.
ResourcesAnswered(ex) == Answered(ex, 200, FALSE)

\* A host call ends: its permit is free again and the exchange goes on.
on_host_thread(c) ==
  /\ mcEx[c].at = "calling"
  /\ mcFree' = IF mcKind = "app" THEN mcFree + 1 ELSE mcFree
  /\ LET ex == mcEx[c] IN
     \/ /\ ex.step = "submit"
        /\ \E got \in submit_public, names \in {"nothing", "refs", "image"} :
             mcEx' = [mcEx EXCEPT ![c] = Replied(ex, got, names)]
     \/ /\ ex.step \in {"refs", "refs_image"}
        /\ \E read \in BOOLEAN : mcEx' = [mcEx EXCEPT ![c] = ref_expiries(ex, read)]
     \/ /\ ex.step = "image"
        /\ \E read \in BOOLEAN : mcEx' = [mcEx EXCEPT ![c] = inline_image(ex, read)]
     \/ /\ ex.step = "query"
        /\ mcEx' = [mcEx EXCEPT ![c] = ResourcesAnswered(ex)]
  /\ UNCHANGED <<mcSettings, mcToken, mcOrphans, mcPast, mcFaults>>

\* A call nobody waits for any more ends.
OrphanEnds ==
  /\ \/ /\ mcOrphans.current > 0
        /\ mcOrphans' = [mcOrphans EXCEPT !.current = @ - 1]
        /\ mcFree' = mcFree + 1
     \/ /\ mcOrphans.old > 0
        /\ mcOrphans' = [mcOrphans EXCEPT !.old = @ - 1]
        /\ UNCHANGED mcFree
  /\ UNCHANGED <<mcSettings, mcToken, mcEx, mcPast, mcFaults>>

(***************************************************************************)
(* The listener.  Stopping one closes every exchange; its host calls run   *)
(* on, and the next listener has permits of its own.                       *)
(***************************************************************************)
Calling == {c \in Connections : mcEx[c].at = "calling"}

StopListener ==
  LET left == IF mcKind = "app" THEN mcOrphans.current + Cardinality(Calling) ELSE 0
  IN  /\ mcOrphans.old + left <= MaxOld
      /\ mcOrphans' = [current |-> 0, old |-> mcOrphans.old + left]
      /\ mcFree' = HostCalls
      /\ mcEx' = [c \in Connections |-> ClosedConnection]
      /\ mcToken' = 0

KeepListener(token) == mcToken' = token /\ UNCHANGED <<mcEx, mcFree, mcOrphans>>
\* Binding the endpoint may fail.
StartListener(token, cost) ==
  \/ KeepListener(token) /\ mcFaults' = mcFaults + cost
  \/ KeepListener(0) /\ mcFaults' = mcFaults + cost + 1

set_token(token) == KeepListener(IF mcToken = 0 THEN 0 ELSE token)

\* The daemon brings its listener to the token, 0 for none, it should serve.
reconcile_listener(token, cost) ==
  \/ token = 0 /\ StopListener /\ mcFaults' = mcFaults + cost
  \/ token # 0 /\ mcToken # 0 /\ set_token(token) /\ mcFaults' = mcFaults + cost
  \/ token # 0 /\ mcToken = 0 /\ StartListener(token, cost)

(***************************************************************************)
(* The settings.  A commit writes a temporary file, renames it and syncs   *)
(* the directory: one that fails may have replaced the file all the same.  *)
(***************************************************************************)
write_settings(next) ==
  {[ok |-> TRUE, file |-> next, cost |-> 0], [ok |-> FALSE, file |-> mcFile, cost |-> 1],
   [ok |-> FALSE, file |-> next, cost |-> 1]}
\* The App reads the file only while it has no snapshot of it.
read_settings ==
  IF mcKind = "app" /\ mcCache.token # 0 THEN {[ok |-> TRUE, s |-> mcCache, cost |-> 0]}
  ELSE {[ok |-> TRUE, s |-> mcFile, cost |-> 0], [ok |-> FALSE, s |-> mcFile, cost |-> 1]}

Snapshot(s) == IF mcKind = "app" THEN s ELSE NoSettings
Stored(c, next) == mcFile' = c.file /\ mcCache' = Snapshot(IF c.ok THEN next ELSE NoSettings)

\* An operation that answers with the committed state: the tokens it leaves
\* acceptable are the file's if MCP is on, and none otherwise.
Acknowledged(s, minted) ==
  LET others == (1..minted) \ (IF s.enabled THEN {s.token} ELSE {})
  IN  mcPast' = [minted |-> minted, revoked |-> others, replaced |-> others]

\* An operation that failed to commit may yet have turned MCP on.
InDoubt(s) ==
  mcPast' = IF s.enabled THEN [mcPast EXCEPT !.revoked = @ \ {s.token},
                                             !.replaced = @ \ {s.token}] ELSE mcPast

Mints(minted) == mcPast' = [mcPast EXCEPT !.minted = minted]

\* The first read of a store without settings commits MCP off with a token.
McFirstRead ==
  /\ mcFile.token = 0
  /\ mcPast.minted < MaxTokens
  /\ LET next == [enabled |-> FALSE, token |-> mcPast.minted + 1] IN
     \E c \in write_settings(next) :
       /\ mcFaults + c.cost <= MaxMcFaults
       /\ Stored(c, next)
       /\ mcFaults' = mcFaults + c.cost
  /\ Mints(mcPast.minted + 1)
  /\ UNCHANGED <<mcKind, mcHost, mcToken, mcFree, mcOrphans, mcEx>>

\* The operation is answered IO_ERROR before anything was committed.
ReadRefused(l) ==
  /\ ~l.ok
  /\ mcFaults' = mcFaults + l.cost
  /\ UNCHANGED <<mcFile, mcCache, mcToken, mcFree, mcOrphans, mcEx, mcPast>>

Served(s) == IF s.enabled /\ mcHost THEN s.token ELSE 0

mcp_rotate_CommitsOnly(l) ==
  LET next == [l.s EXCEPT !.token = mcPast.minted + 1] IN
  \E c \in write_settings(next) :
    /\ mcFaults + l.cost + c.cost <= MaxMcFaults
    /\ Stored(c, next)
    /\ mcFaults' = mcFaults + c.cost + l.cost
    /\ UNCHANGED <<mcToken, mcFree, mcOrphans, mcEx>>
    /\ IF c.ok THEN Acknowledged(next, mcPast.minted + 1) ELSE Mints(mcPast.minted + 1)

\* The daemon commits the token, then has the listener accept it alone.
mcp_rotate(l) ==
  LET next == [l.s EXCEPT !.token = mcPast.minted + 1] IN
  \E c \in write_settings(next) :
    /\ mcFaults + l.cost + c.cost <= MaxMcFaults
    /\ Stored(c, next)
    /\ IF c.ok
       THEN /\ reconcile_listener(Served(next), l.cost)
            /\ Acknowledged(next, mcPast.minted + 1)
       ELSE /\ Mints(mcPast.minted + 1)
            /\ mcFaults' = mcFaults + c.cost + l.cost
            /\ UNCHANGED <<mcToken, mcFree, mcOrphans, mcEx>>

\* The App's rotation replaces the token of a listener only if one runs.
AppRotates(l) ==
  LET next == [l.s EXCEPT !.token = mcPast.minted + 1] IN
  \E c \in write_settings(next) :
    /\ mcFaults + l.cost + c.cost <= MaxMcFaults
    /\ Stored(c, next)
    /\ mcFaults' = mcFaults + c.cost + l.cost
    /\ IF c.ok THEN set_token(next.token) /\ Acknowledged(next, mcPast.minted + 1)
               ELSE UNCHANGED <<mcToken, mcFree, mcOrphans, mcEx>> /\ Mints(mcPast.minted + 1)

McRotate ==
  /\ mcFile.token # 0
  /\ mcPast.minted < MaxTokens
  /\ \E l \in read_settings :
       \/ mcFaults + l.cost <= MaxMcFaults /\ ReadRefused(l)
       \/ l.ok /\ mcKind = "daemon" /\ mcp_rotate(l)
       \/ l.ok /\ mcKind = "app" /\ AppRotates(l)
  /\ UNCHANGED <<mcKind, mcHost>>

\* Nothing is written when the value is already the one asked for.
EnabledCommits(s, on) ==
  IF s.enabled = on THEN {[ok |-> TRUE, file |-> mcFile, cost |-> 0]}
                    ELSE write_settings([s EXCEPT !.enabled = on])

mcp_set_enabled(l, on) ==
  LET next == [l.s EXCEPT !.enabled = on] IN
  \E c \in EnabledCommits(l.s, on) :
    /\ mcFaults + c.cost + l.cost <= MaxMcFaults
    /\ Stored(c, next)
    /\ IF c.ok THEN reconcile_listener(Served(next), l.cost)
                    /\ Acknowledged(next, mcPast.minted)
               ELSE /\ InDoubt(next)
                    /\ mcFaults' = mcFaults + c.cost + l.cost
                    /\ UNCHANGED <<mcToken, mcFree, mcOrphans, mcEx>>

\* A listener already running is left as it is, whatever token it has.
AppListens(s, cost) ==
  \/ mcToken # 0 /\ KeepListener(mcToken) /\ mcFaults' = mcFaults + cost
  \/ mcToken = 0 /\ StartListener(s.token, cost)

AppEnables(l) ==
  LET next == [l.s EXCEPT !.enabled = TRUE] IN
  \E c \in EnabledCommits(l.s, TRUE) :
    /\ mcFaults + c.cost + l.cost <= MaxMcFaults
    /\ Stored(c, next)
    /\ IF c.ok
       THEN /\ AppListens(next, l.cost)
            /\ mcPast' = [mcPast EXCEPT !.revoked = @ \ {next.token},
                                        !.replaced = (1..mcPast.minted) \ {next.token}]
       ELSE /\ InDoubt(next)
            /\ mcFaults' = mcFaults + c.cost + l.cost
            /\ UNCHANGED <<mcToken, mcFree, mcOrphans, mcEx>>

\* The App stops serving before it commits that MCP is off.
AppDisables(l) ==
  LET next == [l.s EXCEPT !.enabled = FALSE] IN
  \E c \in EnabledCommits(l.s, FALSE) :
    /\ mcFaults + c.cost + l.cost <= MaxMcFaults
    /\ StopListener
    /\ Stored(c, next)
    /\ mcFaults' = mcFaults + c.cost + l.cost
    /\ IF c.ok THEN Acknowledged(next, mcPast.minted) ELSE UNCHANGED mcPast

McSetEnabled ==
  /\ mcFile.token # 0
  /\ \E l \in read_settings, on \in BOOLEAN :
       \/ mcFaults + l.cost <= MaxMcFaults /\ ReadRefused(l)
       \/ l.ok /\ mcKind = "daemon" /\ mcp_set_enabled(l, on)
       \/ l.ok /\ mcKind = "app" /\ on /\ AppEnables(l)
       \/ l.ok /\ mcKind = "app" /\ ~on /\ AppDisables(l)
  /\ UNCHANGED <<mcKind, mcHost>>

\* The daemon serves another host, or none: what served the last one stops,
\* and the committed settings decide what starts.
attach(host) ==
  /\ mcKind = "daemon"
  /\ mcFile.token # 0
  /\ mcHost' = host
  /\ \E l \in read_settings :
       /\ mcFaults + l.cost <= MaxMcFaults
       /\ \/ /\ host /\ l.ok /\ l.s.enabled
             /\ \/ mcToken' = l.s.token /\ mcFaults' = mcFaults + l.cost
                \/ mcToken' = 0 /\ mcFaults' = mcFaults + l.cost + 1
          \/ /\ ~(host /\ l.ok /\ l.s.enabled)
             /\ mcToken' = 0 /\ mcFaults' = mcFaults + l.cost
  /\ mcEx' = [c \in Connections |-> ClosedConnection]
  /\ UNCHANGED <<mcKind, mcFile, mcCache, mcPast, mcFree, mcOrphans>>

\* The App's Service ends with its listener; a client that binds restores it.
SuspendListener ==
  /\ mcKind = "app"
  /\ mcToken # 0
  /\ StopListener
  /\ UNCHANGED <<mcSettings, mcPast, mcFaults>>

RestoreListener ==
  /\ mcKind = "app"
  /\ mcFile.token # 0
  /\ mcToken = 0
  /\ \E l \in read_settings :
       /\ l.ok /\ l.s.enabled
       /\ mcFaults + l.cost <= MaxMcFaults
       /\ AppListens(l.s, l.cost)
       /\ mcCache' = l.s
  /\ UNCHANGED <<mcKind, mcFile, mcHost, mcPast>>

\* The process ends: with it every thread, exchange and snapshot.
McRestart ==
  /\ mcFaults < MaxMcFaults
  /\ mcFaults' = mcFaults + 1
  /\ mcToken' = 0
  /\ mcCache' = NoSettings
  /\ mcHost' = FALSE
  /\ mcFree' = HostCalls
  /\ mcOrphans' = [current |-> 0, old |-> 0]
  /\ mcEx' = [c \in Connections |-> ClosedConnection]
  /\ UNCHANGED <<mcKind, mcFile, mcPast>>

McInit ==
  /\ mcKind \in {"app", "daemon"}
  /\ mcFile = NoSettings
  /\ mcCache = NoSettings
  /\ mcHost = FALSE
  /\ mcToken = 0
  /\ mcFree = HostCalls
  /\ mcOrphans = [current |-> 0, old |-> 0]
  /\ mcEx = [c \in Connections |-> ClosedConnection]
  /\ mcPast = [minted |-> 0, revoked |-> {}, replaced |-> {}]
  /\ mcFaults = 0

McNext ==
  \/ \E c \in Connections :
       \/ accept_loop(c) \/ respond(c) \/ Written(c) \/ Departs(c)
       \/ SlotGranted(c) \/ SlotWaitEnds(c) \/ on_host_thread(c)
  \/ OrphanEnds
  \/ McFirstRead \/ McRotate \/ McSetEnabled
  \/ \E host \in BOOLEAN : attach(host)
  \/ SuspendListener \/ RestoreListener \/ McRestart

McSpec == McInit /\ [][McNext]_mcVars

(***************************************************************************)
(* Properties.                                                             *)
(***************************************************************************)
\* Once a rotation or a disabling of MCP is acknowledged, a request that
\* completes later with a token it revoked gets past no check of `handle`:
\* reconcile_listener and set_token take the token from the running listener
\* before the answer, whatever failed earlier.
RevokedTokenRefused == \A c \in Connections : ~mcEx[c].stale

\* An answer that invites the client to ask again belongs to a call the
\* Runtime did not serve, so a repeat never runs it twice: slots run out for
\* the queries of a served call too, and must not be reported as retryable.
RetryableNotServed ==
  \A c \in Connections : mcEx[c].at = "answered" /\ mcEx[c].retry => ~mcEx[c].served

\* As MAX_HOST_CALLS says, the host calls in flight are bounded.
HostCallsBounded ==
  mcKind = "app" =>
    mcOrphans.old + mcOrphans.current + Cardinality(Calling) <= HostCalls

\* As the settings owner says, a listener never holds a token that an
\* acknowledged operation replaced.
ReplacedTokenUnserved == mcToken # 0 => mcToken \notin mcPast.replaced
=============================================================================
