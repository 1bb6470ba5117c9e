------------------------------- MODULE Tunnel -------------------------------
(***************************************************************************)
(* The ChatGPT tunnel of the daemon: the settings operations that own its  *)
(* credentials, and the client that polls the control plane for commands,  *)
(* serves each in a worker of its own and posts the answer back.           *)
(*                                                                         *)
(* The control plane is external: every poll and every post may be         *)
(* answered, refused or lost.  A credential is a tunnel and the number of  *)
(* the key configured for it; what a command asks is abstracted to whether *)
(* it reaches the facade, and HTTP statuses to what the client makes of    *)
(* them.                                                                   *)
(***************************************************************************)
EXTENDS Naturals, FiniteSets

CONSTANTS Commands,    \* commands the control plane ever sends
          PollLimit,   \* POLL_LIMIT: commands per poll, and workers
          Attempts,    \* RESPONSE_ATTEMPTS
          MaxKeys,     \* bound: credentials configured
          MaxTnFaults  \* bound: failed commits, reads, starts and lost posts

ASSUME TunnelAssumption ==
  /\ IsFiniteSet(Commands)
  /\ {PollLimit, Attempts} \subseteq Nat \ {0}
  /\ {MaxKeys, MaxTnFaults} \subseteq Nat

VARIABLES tnFile,   \* tunnel.json; key 0 while no tunnel is configured
          tnHost,   \* whether a Runtime host is attached
          tnRun,    \* the credential of the running client; key 0 without one
          tnLoop,   \* its poll loop, and the flags it reports
          tnJobs,   \* its JoinSet
          tnPast,   \* keys configured, and keys an acknowledged operation ended
          tnFaults

tnVars == <<tnFile, tnHost, tnRun, tnLoop, tnJobs, tnPast, tnFaults>>
tnClient == <<tnRun, tnLoop, tnJobs>>
tnOwner == <<tnFile, tnHost, tnRun, tnPast>>

NoTunnel == [enabled |-> FALSE, id |-> 0, key |-> 0, called |-> FALSE]
NoRun == [id |-> 0, key |-> 0]
NoLoop == [at |-> "none", ready |-> FALSE, refused |-> FALSE, called |-> FALSE,
           broken |-> FALSE]
NoJob == [at |-> "none", tries |-> 0, quiet |-> FALSE, denied |-> FALSE]
NoJobs == [c \in Commands |-> NoJob]

InSet(c) == tnJobs[c].at # "none" /\ tnJobs[c].at # "gone"
JoinSet == {c \in Commands : InSet(c)}
Working == {c \in Commands : tnJobs[c].at \in {"serving", "posting"}}
\* A command is sent once; one that ended is not sent again.
Ended(jobs) == [c \in Commands |-> IF jobs[c].at = "none" THEN NoJob
                                   ELSE [NoJob EXCEPT !.at = "gone"]]

(***************************************************************************)
(* Workers.                                                                *)
(***************************************************************************)
Finishes(c, denied) ==
  tnJobs' = [tnJobs EXCEPT ![c].at = "finished", ![c].denied = denied]

\* A command that cannot be read, or whose deadline has passed, is dropped.
Unreadable(c) ==
  /\ Finishes(c, FALSE)
  /\ \E called \in BOOLEAN : tnLoop' = [tnLoop EXCEPT !.called = @ \/ called]

\* The end of a session is answered without the facade, and so is a call for
\* another channel.
process_session_termination(c) ==
  tnJobs' = [tnJobs EXCEPT ![c].at = "posting"] /\ UNCHANGED tnLoop

\* Whether it is a notification decides how its answer is repeated.
CallBegins(c, at) ==
  /\ \E quiet \in BOOLEAN : tnJobs' = [tnJobs EXCEPT ![c].at = at, ![c].quiet = quiet]
  /\ tnLoop' = [tnLoop EXCEPT !.called = TRUE]

\* A worker gets its permit.
process_command(c) ==
  /\ tnJobs[c].at = "waiting"
  /\ Cardinality(Working) < PollLimit
  /\ \/ Unreadable(c)
     \/ process_session_termination(c)
     \/ CallBegins(c, "posting")
     \/ CallBegins(c, "serving")
  /\ UNCHANGED <<tnOwner, tnFaults>>

process_jsonrpc(c) ==
  /\ tnJobs[c].at = "serving"
  /\ tnJobs' = [tnJobs EXCEPT ![c].at = "posting"]
  /\ UNCHANGED <<tnOwner, tnLoop, tnFaults>>

\* The command's deadline ends it wherever it is.
run_before_deadline(c) ==
  /\ tnJobs[c].at \in {"serving", "posting"}
  /\ Finishes(c, FALSE)
  /\ UNCHANGED <<tnOwner, tnLoop, tnFaults>>

\* One attempt at the answer: taken, refused for good, or failed in a way that
\* is tried again.  A notification is repeated only when the control plane
\* asked it to wait.
post_response(c) ==
  /\ tnJobs[c].at = "posting"
  /\ \/ Finishes(c, FALSE) /\ UNCHANGED tnFaults
     \/ Finishes(c, TRUE) /\ UNCHANGED tnFaults
     \/ /\ tnFaults < MaxTnFaults
        /\ tnFaults' = tnFaults + 1
        /\ IF tnJobs[c].tries + 1 = Attempts
           THEN Finishes(c, FALSE)
           ELSE \/ tnJobs' = [tnJobs EXCEPT ![c].tries = @ + 1]
                \/ tnJobs[c].quiet /\ Finishes(c, FALSE)
  /\ UNCHANGED <<tnOwner, tnLoop>>

(***************************************************************************)
(* The poll loop.                                                          *)
(***************************************************************************)
stop_commands_Later == UNCHANGED tnJobs

\* Every command still in flight is aborted and joined.
stop_commands == tnJobs' = Ended(tnJobs)

\* A failure is waited out: `operator` for a refusal, otherwise `backoff`.
\* The tunnel reports itself failed unless the failure is transient.
HoldFor(kind, transient) ==
  tnLoop' = [tnLoop EXCEPT !.at = kind, !.ready = FALSE, !.refused = ~transient]

Denied == {c \in Commands : tnJobs[c].at = "finished" /\ tnJobs[c].denied}
Reaped(jobs) ==
  [c \in Commands |-> IF jobs[c].at = "finished" THEN [NoJob EXCEPT !.at = "gone"]
                                                 ELSE jobs[c]]

\* The head of the loop: reap, and stop everything for a refused credential;
\* a full worker set waits, otherwise the next poll is sent.
PollGate == Cardinality({c \in JoinSet : tnJobs[c].at # "finished"}) >= PollLimit

reap_commands ==
  /\ tnLoop.at = "top"
  /\ IF Denied # {} THEN stop_commands /\ HoldFor("operator", FALSE)
     ELSE /\ tnJobs' = Reaped(tnJobs)
          /\ tnLoop' = [tnLoop EXCEPT !.at = IF PollGate THEN "gate" ELSE "polling"]
  /\ UNCHANGED <<tnOwner, tnFaults>>

\* With every worker taken the loop waits for one of them, and looks at that
\* one only.
JoinNext ==
  /\ tnLoop.at = "gate"
  /\ \E c \in Commands :
       /\ tnJobs[c].at = "finished"
       /\ \/ /\ tnJobs[c].denied
             /\ stop_commands
             /\ HoldFor("operator", FALSE)
          \/ /\ ~tnJobs[c].denied
             /\ tnJobs' = [tnJobs EXCEPT ![c] = [NoJob EXCEPT !.at = "gone"]]
             /\ tnLoop' = [tnLoop EXCEPT !.at = "top"]
  /\ UNCHANGED <<tnOwner, tnFaults>>

\* A poll is answered with commands, none among them.
PollAnswered ==
  /\ tnLoop.at = "polling"
  /\ tnLoop' = [tnLoop EXCEPT !.at = "top", !.ready = TRUE, !.refused = FALSE]
  /\ \E batch \in SUBSET {c \in Commands : tnJobs[c].at = "none"} :
       /\ Cardinality(batch) <= PollLimit
       /\ tnJobs' = [c \in Commands |-> IF c \in batch THEN [NoJob EXCEPT !.at = "waiting"]
                                                       ELSE tnJobs[c]]
  /\ UNCHANGED <<tnOwner, tnFaults>>

\* 401, 403 and 404 stop every command; any other failure leaves them running.
PollFails ==
  /\ tnLoop.at = "polling"
  /\ \/ stop_commands /\ HoldFor("operator", FALSE)
     \/ UNCHANGED tnJobs /\ \E transient \in BOOLEAN : HoldFor("backoff", transient)
  /\ UNCHANGED <<tnOwner, tnFaults>>

hold ==
  /\ tnLoop.at \in {"operator", "backoff"}
  /\ tnLoop' = [tnLoop EXCEPT !.at = "top"]
  /\ UNCHANGED <<tnOwner, tnJobs, tnFaults>>

(***************************************************************************)
(* The client as the ingress owns it.                                      *)
(***************************************************************************)
stop_tunnel == tnRun' = NoRun /\ tnLoop' = NoLoop /\ tnJobs' = Ended(tnJobs)

StartClient(s) ==
  /\ tnRun' = [id |-> s.id, key |-> s.key]
  /\ tnLoop' = [NoLoop EXCEPT !.at = "top"]
  /\ tnJobs' = Ended(tnJobs)

SameCredential_SameTunnel(s) == tnRun.id = s.id

SameCredential(s) == tnRun.id = s.id /\ tnRun.key = s.key

\* The client runs the settings it is given, or not at all.  A live client with
\* the same credential is kept; one that is held as failed is replaced.
KeepsClient(s) ==
  s.enabled /\ tnHost /\ tnRun # NoRun /\ SameCredential(s) /\ ~tnLoop.refused

\* A client that cannot be started is reported as failed.
StartFails == tnRun' = NoRun /\ tnLoop' = [NoLoop EXCEPT !.broken = TRUE] /\ tnJobs' = Ended(tnJobs)

reconcile_tunnel(s, cost) ==
  \/ ~(s.enabled /\ tnHost) /\ stop_tunnel /\ tnFaults' = tnFaults + cost
  \/ KeepsClient(s) /\ UNCHANGED tnClient /\ tnFaults' = tnFaults + cost
  \/ /\ s.enabled /\ tnHost /\ ~KeepsClient(s)
     /\ \/ StartClient(s) /\ tnFaults' = tnFaults + cost
        \/ StartFails /\ tnFaults' = tnFaults + cost + 1

(***************************************************************************)
(* Settings operations.  A commit or a removal that fails may have landed. *)
(***************************************************************************)
commit_tunnel(file, next) ==
  {[ok |-> TRUE, file |-> next, cost |-> 0], [ok |-> FALSE, file |-> file, cost |-> 1],
   [ok |-> FALSE, file |-> next, cost |-> 1]}

\* The credential the acknowledged settings leave in use, if any.
AckTunnel(s, keys) ==
  tnPast' = [keys |-> keys, ended |-> (1..keys) \ (IF s.enabled THEN {s.key} ELSE {})]
\* One that an unacknowledged commit may have put in use.
DoubtTunnel(s, keys) ==
  tnPast' = [keys |-> keys, ended |-> IF s.enabled THEN tnPast.ended \ {s.key} ELSE tnPast.ended]

\* The control plane accepts the new credential before it is committed.
tunnel_configure ==
  /\ tnPast.keys < MaxKeys
  /\ LET key  == tnPast.keys + 1
         next == [enabled |-> tnFile.enabled, id |-> 1, key |-> key, called |-> FALSE] IN
     \E c \in commit_tunnel(tnFile, next) :
       /\ tnFaults + c.cost <= MaxTnFaults
       /\ tnFile' = c.file
       /\ IF c.ok THEN reconcile_tunnel(next, 0) /\ AckTunnel(next, key)
          ELSE /\ DoubtTunnel(next, key)
               /\ tnFaults' = tnFaults + c.cost
               /\ UNCHANGED tnClient
  /\ UNCHANGED tnHost

\* The status that answers an operation keeps the first call the client saw.
StatusCommits(s) ==
  IF KeepsClient(s) /\ tnLoop.called /\ ~s.called
  THEN commit_tunnel(s, [s EXCEPT !.called = TRUE]) ELSE {[ok |-> TRUE, file |-> s, cost |-> 0]}

EnabledTunnelCommits(on) ==
  IF tnFile.enabled = on THEN {[ok |-> TRUE, file |-> tnFile, cost |-> 0]}
                         ELSE commit_tunnel(tnFile, [tnFile EXCEPT !.enabled = on])

tunnel_set_enabled(on) ==
  /\ tnFile.key # 0
  /\ LET next == [tnFile EXCEPT !.enabled = on] IN
     \E c \in EnabledTunnelCommits(on) :
       \/ /\ ~c.ok
          /\ tnFaults + c.cost <= MaxTnFaults
          /\ tnFile' = c.file
          /\ DoubtTunnel(next, tnPast.keys)
          /\ tnFaults' = tnFaults + c.cost
          /\ UNCHANGED tnClient
       \/ /\ c.ok
          /\ AckTunnel(next, tnPast.keys)
          /\ \E kept \in StatusCommits(next) :
               /\ tnFaults + kept.cost <= MaxTnFaults
               /\ tnFile' = kept.file
               /\ reconcile_tunnel(next, kept.cost)
  /\ UNCHANGED tnHost

\* The client stops before its settings are removed, whether or not they are.
tunnel_clear ==
  /\ tnFile.key # 0
  /\ stop_tunnel
  /\ \E c \in commit_tunnel(tnFile, NoTunnel) :
       /\ tnFaults + c.cost <= MaxTnFaults
       /\ tnFile' = c.file
       /\ tnFaults' = tnFaults + c.cost
       /\ IF c.ok THEN AckTunnel(NoTunnel, tnPast.keys) ELSE UNCHANGED tnPast
  /\ UNCHANGED tnHost

\* Reading the settings is answered with that status too.
tunnel_settings ==
  /\ tnFile.key # 0
  /\ KeepsClient(tnFile) \/ tnLoop.refused
  /\ tnLoop.called /\ ~tnFile.called
  /\ \E kept \in commit_tunnel(tnFile, [tnFile EXCEPT !.called = TRUE]) :
       /\ tnFaults + kept.cost <= MaxTnFaults
       /\ tnFile' = kept.file
       /\ tnFaults' = tnFaults + kept.cost
  /\ UNCHANGED <<tnHost, tnClient, tnPast>>

\* Another host, or none: the client of the last one stops, and the settings,
\* unreadable ones counting as none, decide whether one starts.
TunnelAttach(host) ==
  /\ tnHost' = host
  /\ \/ /\ host /\ tnFile.enabled
        /\ \/ StartClient(tnFile) /\ UNCHANGED tnFaults
           \/ StartFails /\ tnFaults < MaxTnFaults /\ tnFaults' = tnFaults + 1
           \/ stop_tunnel /\ tnFaults < MaxTnFaults /\ tnFaults' = tnFaults + 1
     \/ ~(host /\ tnFile.enabled) /\ stop_tunnel /\ UNCHANGED tnFaults
  /\ UNCHANGED <<tnFile, tnPast>>

TnInit ==
  /\ tnFile = NoTunnel
  /\ tnHost = FALSE
  /\ tnRun = NoRun
  /\ tnLoop = NoLoop
  /\ tnJobs = NoJobs
  /\ tnPast = [keys |-> 0, ended |-> {}]
  /\ tnFaults = 0

TnNext ==
  \/ \E c \in Commands :
       \/ process_command(c) \/ process_jsonrpc(c)
       \/ run_before_deadline(c) \/ post_response(c)
  \/ reap_commands \/ JoinNext \/ PollAnswered \/ PollFails \/ hold
  \/ tunnel_configure \/ tunnel_clear \/ tunnel_settings
  \/ \E b \in BOOLEAN : tunnel_set_enabled(b) \/ TunnelAttach(b)

TnSpec == TnInit /\ [][TnNext]_tnVars

(***************************************************************************)
(* Properties.                                                             *)
(***************************************************************************)
\* While the control plane's refusal of this tunnel is waited out, and once the
\* client stopped, no command is served and no answer posted: the commands of
\* a refused credential end with the refusal instead of repeating it one by
\* one, and none outlives the tunnel that owned it.
NothingOutlivesRefusal == tnLoop.at \in {"operator", "none"} => JoinSet = {}

\* A credential that an acknowledged operation replaced, disabled or cleared is
\* used by no running client, whatever commits failed or landed in between.
EndedCredentialUnused == tnRun.key \notin tnPast.ended

\* An enabled tunnel of an attached host has a client, or its status says that
\* it failed.
EnabledTunnelReported == tnHost /\ tnFile.enabled => tnRun # NoRun \/ tnLoop.broken
=============================================================================
