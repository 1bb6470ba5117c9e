--------------------------- MODULE Ingress_proofs ---------------------------
(***************************************************************************)
(* What holds of the ways into the Runtime, the tunnel, the loopback MCP   *)
(* server and the listing of its resources, for every set of commands and  *)
(* connections, every limit and any number of keys, tokens, artifacts and  *)
(* failures.  They share no state; each has its own inductive invariant.   *)
(***************************************************************************)
EXTENDS Tunnel, McpServer, McpResources, FiniteSetTheorems, SequenceTheorems, TLAPS

(***************************************************************************)
(* The tunnel.                                                             *)
(***************************************************************************)
Settings == [enabled : BOOLEAN, id : Nat, key : Nat, called : BOOLEAN]
Jobs ==
  [at : {"none", "waiting", "serving", "posting", "finished", "gone"}, tries : Nat,
   quiet : BOOLEAN, denied : BOOLEAN]
LoopStates ==
  [at : {"none", "top", "gate", "polling", "operator", "backoff"}, ready : BOOLEAN,
   refused : BOOLEAN, called : BOOLEAN, broken : BOOLEAN]

ClientType ==
  /\ tnRun \in [id : Nat, key : Nat]
  /\ tnLoop \in LoopStates
  /\ tnJobs \in [Commands -> Jobs]

OwnerType ==
  /\ tnFile \in Settings
  /\ tnHost \in BOOLEAN
  /\ tnPast \in [keys : Nat, ended : SUBSET (Nat \ {0})]
  /\ tnFaults \in Nat

\* A credential in the file that a host would start with is none that an
\* acknowledged operation ended, and keys are numbered in the order they come.
FileUsable ==
  /\ tnFile.enabled => tnFile.key \notin tnPast.ended
  /\ \A k \in tnPast.ended : k <= tnPast.keys

TnInv == ClientType /\ OwnerType /\ NothingOutlivesRefusal /\ EndedCredentialUnused /\ FileUsable

-----------------------------------------------------------------------------
\* Aborting the commands leaves none in the JoinSet.
LEMMA EndedEmpty ==
  ASSUME tnJobs \in [Commands -> Jobs], tnJobs' = Ended(tnJobs)
  PROVE  tnJobs' \in [Commands -> Jobs] /\ JoinSet' = {}
BY DEF Ended, NoJob, Jobs, JoinSet, InSet

\* A step of a worker moves one command that is in the JoinSet, and leaves the
\* loop where it is.
LEMMA WorkerStep ==
  ASSUME TnInv, NEW c \in Commands, InSet(c),
         tnJobs' \in [Commands -> Jobs], tnLoop' \in LoopStates, tnLoop'.at = tnLoop.at,
         tnFaults' \in Nat, UNCHANGED tnOwner
  PROVE  TnInv'
<1>1. c \in JoinSet
  BY DEF JoinSet
<1>2. NothingOutlivesRefusal'
  BY <1>1 DEF TnInv, NothingOutlivesRefusal
<1>3. ClientType' /\ OwnerType' /\ EndedCredentialUnused' /\ FileUsable'
  BY DEF TnInv, ClientType, OwnerType, EndedCredentialUnused, FileUsable, tnOwner
<1> QED
  BY <1>2, <1>3 DEF TnInv

\* A command that is taken up: it is answered at once, or it is served.
LEMMA ProcessCommand ==
  ASSUME TnInv, NEW c \in Commands, process_command(c)
  PROVE  TnInv'
<1>1. InSet(c) /\ tnFaults' \in Nat /\ UNCHANGED tnOwner
  BY DEF TnInv, OwnerType, process_command, InSet
<1>2. tnJobs' \in [Commands -> Jobs]
  BY DEF TnInv, ClientType, process_command, Unreadable, Finishes,
         process_session_termination, CallBegins, Jobs
<1>3. tnLoop' \in LoopStates /\ tnLoop'.at = tnLoop.at
  BY DEF TnInv, ClientType, process_command, Unreadable, process_session_termination,
         CallBegins, LoopStates
<1> QED
  BY <1>1, <1>2, <1>3, WorkerStep

\* A command that is served and posted.
LEMMA OtherWorkerSteps ==
  ASSUME TnInv, NEW c \in Commands,
         process_jsonrpc(c) \/ run_before_deadline(c) \/ post_response(c)
  PROVE  TnInv'
<1>0. tnJobs[c].at \in {"serving", "posting"} /\ UNCHANGED tnOwner /\ tnLoop' = tnLoop
  BY DEF process_jsonrpc, run_before_deadline, post_response
<1>4. tnFaults' \in {tnFaults, tnFaults + 1}
  BY DEF process_jsonrpc, run_before_deadline, post_response
<1>1. InSet(c) /\ tnFaults' \in Nat /\ UNCHANGED tnOwner /\ tnLoop' = tnLoop
  BY <1>0, <1>4 DEF TnInv, OwnerType, InSet
<1>2. tnJobs' \in [Commands -> Jobs]
  BY DEF TnInv, ClientType, process_jsonrpc, run_before_deadline, post_response, Finishes, Jobs
<1>3. tnLoop' \in LoopStates /\ tnLoop'.at = tnLoop.at
  BY <1>1 DEF TnInv, ClientType
<1> QED
  BY <1>1, <1>2, <1>3, WorkerStep

-----------------------------------------------------------------------------
\* A step of the loop keeps the owner's part.
LEMMA LoopStep ==
  ASSUME TnInv, UNCHANGED <<tnOwner, tnFaults>>,
         tnJobs' \in [Commands -> Jobs], tnLoop' \in LoopStates,
         tnLoop'.at \in {"operator", "none"} => JoinSet' = {}
  PROVE  TnInv'
BY DEF TnInv, ClientType, OwnerType, EndedCredentialUnused, FileUsable, tnOwner,
       NothingOutlivesRefusal

\* Holding puts the loop into the hold that was asked for.
LEMMA HoldTyped ==
  ASSUME tnLoop \in LoopStates, NEW transient \in BOOLEAN, NEW kind \in {"operator", "backoff"},
         HoldFor(kind, transient)
  PROVE  tnLoop' \in LoopStates /\ tnLoop'.at = kind
BY DEF HoldFor, LoopStates

\* The loop's own steps: to a hold it goes only with no command in flight.
LEMMA LoopSteps ==
  ASSUME TnInv, reap_commands \/ JoinNext \/ PollAnswered \/ PollFails \/ hold
  PROVE  TnInv'
<1> tnLoop \in LoopStates /\ tnJobs \in [Commands -> Jobs]
  BY DEF TnInv, ClientType
<1>1. CASE reap_commands
  <2>1. CASE Denied # {}
    BY <1>1, <2>1, EndedEmpty, HoldTyped, LoopStep DEF reap_commands, stop_commands
  <2>2. CASE Denied = {}
    <3>0. tnJobs' = Reaped(tnJobs)
      BY <1>1, <2>2 DEF reap_commands
    <3>1. tnJobs' \in [Commands -> Jobs]
      BY <3>0 DEF Reaped, NoJob, Jobs
    <3>2. tnLoop' \in LoopStates /\ tnLoop'.at \in {"gate", "polling"}
      BY <1>1, <2>2 DEF reap_commands, LoopStates
    <3> QED
      BY <1>1, <3>1, <3>2, LoopStep DEF reap_commands
  <2> QED
    BY <2>1, <2>2
<1>2. CASE JoinNext
  <2>1. PICK c \in Commands :
          \/ stop_commands /\ HoldFor("operator", FALSE)
          \/ /\ tnJobs' = [tnJobs EXCEPT ![c] = [NoJob EXCEPT !.at = "gone"]]
             /\ tnLoop' = [tnLoop EXCEPT !.at = "top"]
    BY <1>2 DEF JoinNext
  <2>2. CASE stop_commands /\ HoldFor("operator", FALSE)
    BY <1>2, <2>2, EndedEmpty, HoldTyped, LoopStep DEF JoinNext, stop_commands
  <2>3. CASE /\ tnJobs' = [tnJobs EXCEPT ![c] = [NoJob EXCEPT !.at = "gone"]]
             /\ tnLoop' = [tnLoop EXCEPT !.at = "top"]
    <3>1. tnJobs' \in [Commands -> Jobs]
      BY <2>3 DEF NoJob, Jobs
    <3>2. tnLoop' \in LoopStates /\ tnLoop'.at = "top"
      BY <2>3 DEF LoopStates
    <3> QED
      BY <1>2, <3>1, <3>2, LoopStep DEF JoinNext
  <2> QED
    BY <2>1, <2>2, <2>3
<1>3. CASE PollAnswered
  <2>0. PICK batch :
          tnJobs' = [c \in Commands |-> IF c \in batch THEN [NoJob EXCEPT !.at = "waiting"]
                                                       ELSE tnJobs[c]]
    BY <1>3 DEF PollAnswered
  <2>1. tnJobs' \in [Commands -> Jobs]
    BY <2>0 DEF NoJob, Jobs
  <2>2. tnLoop' \in LoopStates /\ tnLoop'.at = "top"
    BY <1>3 DEF PollAnswered, LoopStates
  <2> QED
    BY <1>3, <2>1, <2>2, LoopStep DEF PollAnswered
<1>4. CASE PollFails
  <2>1. CASE stop_commands /\ HoldFor("operator", FALSE)
    BY <1>4, <2>1, EndedEmpty, HoldTyped, LoopStep DEF PollFails, stop_commands
  <2>2. CASE UNCHANGED tnJobs /\ \E transient \in BOOLEAN : HoldFor("backoff", transient)
    BY <1>4, <2>2, HoldTyped, LoopStep DEF PollFails
  <2> QED
    BY <1>4, <2>1, <2>2 DEF PollFails
<1>5. CASE hold
  <2>1. tnLoop' \in LoopStates /\ tnLoop'.at = "top"
    BY <1>5 DEF hold, LoopStates
  <2> QED
    BY <1>5, <2>1, LoopStep DEF hold
<1> QED
  BY <1>1, <1>2, <1>3, <1>4, <1>5

-----------------------------------------------------------------------------
\* Whatever the owner does to the client, it is well formed and serves no command of
\* another one.
Fresh == ClientType' /\ NothingOutlivesRefusal'

\* A client that is stopped leaves nothing behind.
LEMMA Stops ==
  ASSUME TnInv, stop_tunnel \/ StartFails
  PROVE  Fresh /\ tnRun'.key = 0
<1>1. tnJobs' \in [Commands -> Jobs] /\ JoinSet' = {}
  BY EndedEmpty DEF TnInv, ClientType, stop_tunnel, StartFails
<1>2. tnRun' = NoRun
  BY DEF stop_tunnel, StartFails
<1>3. tnLoop' \in LoopStates
  <2>1. CASE stop_tunnel
    BY <2>1 DEF stop_tunnel, NoLoop, LoopStates
  <2>2. CASE StartFails
    BY <2>2 DEF StartFails, NoLoop, LoopStates
  <2> QED
    BY <2>1, <2>2
<1> QED
  BY <1>1, <1>2, <1>3 DEF Fresh, ClientType, NothingOutlivesRefusal, NoRun

\* A client that is started begins with nothing, and with the key of the settings.
LEMMA Starts ==
  ASSUME TnInv, NEW s \in Settings, StartClient(s)
  PROVE  Fresh /\ tnRun'.key = s.key
<1>1. tnJobs' \in [Commands -> Jobs] /\ JoinSet' = {}
  BY EndedEmpty DEF TnInv, ClientType, StartClient
<1>2. tnLoop' \in LoopStates /\ tnRun' \in [id : Nat, key : Nat] /\ tnRun'.key = s.key
  BY DEF StartClient, NoLoop, LoopStates, Settings
<1> QED
  BY <1>1, <1>2 DEF Fresh, ClientType, NothingOutlivesRefusal

\* What leaves the client alone keeps what holds of it.
LEMMA Keeps ==
  ASSUME TnInv, UNCHANGED tnClient
  PROVE  Fresh /\ tnRun' = tnRun
BY DEF TnInv, Fresh, ClientType, NothingOutlivesRefusal, JoinSet, InSet, tnClient

\* Reconciling leaves no client, or one that runs with the settings' key.
LEMMA Reconciles ==
  ASSUME TnInv, NEW s \in Settings, NEW cost \in Nat, reconcile_tunnel(s, cost)
  PROVE  /\ Fresh
         /\ tnRun'.key = 0 \/ (s.enabled /\ tnRun'.key = s.key)
         /\ tnFaults' \in Nat
<1>1. tnFaults' \in Nat
  BY DEF reconcile_tunnel, TnInv, OwnerType
<1>2. CASE stop_tunnel \/ StartFails
  BY <1>1, <1>2, Stops
<1>3. CASE s.enabled /\ StartClient(s)
  BY <1>1, <1>3, Starts
<1>4. CASE KeepsClient(s) /\ UNCHANGED tnClient
  <2>1. s.enabled /\ tnRun.key = s.key
    BY <1>4 DEF KeepsClient, SameCredential
  <2> QED
    BY <1>1, <1>4, <2>1, Keeps
<1> QED
  BY <1>2, <1>3, <1>4 DEF reconcile_tunnel

-----------------------------------------------------------------------------
\* The keys an acknowledged or a doubtful operation leaves ended.
LEMMA OperationAnswered ==
  ASSUME TnInv, NEW s \in Settings, NEW keys \in Nat, AckTunnel(s, keys)
  PROVE  /\ tnPast' \in [keys : Nat, ended : SUBSET (Nat \ {0})]
         /\ \A k \in tnPast'.ended : k <= tnPast'.keys
         /\ 0 \notin tnPast'.ended
         /\ s.enabled => s.key \notin tnPast'.ended
BY DEF AckTunnel

\* A commit in doubt ends no key that is in use.
LEMMA Doubted ==
  ASSUME TnInv, NEW s \in Settings, NEW keys \in Nat, tnPast.keys <= keys, DoubtTunnel(s, keys)
  PROVE  /\ tnPast' \in [keys : Nat, ended : SUBSET (Nat \ {0})]
         /\ \A k \in tnPast'.ended : k <= tnPast'.keys
         /\ tnPast'.ended \subseteq tnPast.ended
         /\ s.enabled => s.key \notin tnPast'.ended
BY DEF DoubtTunnel, TnInv, OwnerType, FileUsable

\* What a settings operation has to show.
LEMMA OwnerStep ==
  ASSUME TnInv, Fresh, tnHost' \in BOOLEAN, tnFaults' \in Nat,
         tnFile' \in Settings, tnPast' \in [keys : Nat, ended : SUBSET (Nat \ {0})],
         \A k \in tnPast'.ended : k <= tnPast'.keys,
         tnFile'.enabled => tnFile'.key \notin tnPast'.ended,
         tnRun'.key \notin tnPast'.ended
  PROVE  TnInv'
BY DEF TnInv, Fresh, OwnerType, EndedCredentialUnused, FileUsable

\* configure: the new key is none that ended, whatever of the commit lands.
LEMMA Configures ==
  ASSUME TnInv, tunnel_configure
  PROVE  TnInv'
<1> DEFINE key == tnPast.keys + 1
           next == [enabled |-> tnFile.enabled, id |-> 1, key |-> key, called |-> FALSE]
<1>0. tnFile \in Settings /\ tnHost \in BOOLEAN /\ key \in Nat /\ next \in Settings
      /\ next.enabled = tnFile.enabled /\ tnPast.keys <= key /\ tnHost' = tnHost /\ tnFaults \in Nat
  BY DEF TnInv, OwnerType, Settings, tunnel_configure
<1>1. PICK c \in commit_tunnel(tnFile, next) :
        /\ tnFile' = c.file
        /\ IF c.ok THEN reconcile_tunnel(next, 0) /\ AckTunnel(next, key)
           ELSE /\ DoubtTunnel(next, key)
                /\ tnFaults' = tnFaults + c.cost
                /\ UNCHANGED tnClient
  BY DEF tunnel_configure
<1> HIDE DEF next, key
<1>2. CASE c.ok
  <2>1. tnFile' = next
    BY <1>1, <1>2 DEF commit_tunnel
  <2>2. /\ Fresh /\ tnFaults' \in Nat
        /\ tnRun'.key = 0 \/ (next.enabled /\ tnRun'.key = next.key)
    BY <1>0, <1>1, <1>2, Reconciles
  <2>3. /\ tnPast' \in [keys : Nat, ended : SUBSET (Nat \ {0})]
        /\ \A k \in tnPast'.ended : k <= tnPast'.keys
        /\ 0 \notin tnPast'.ended
        /\ next.enabled => next.key \notin tnPast'.ended
    BY <1>0, <1>1, <1>2, OperationAnswered
  <2> QED
    BY <1>0, <2>1, <2>2, <2>3, OwnerStep
<1>3. CASE ~c.ok
  <2>1. tnFile' \in {tnFile, next} /\ tnFaults' \in Nat
    BY <1>0, <1>1, <1>3 DEF commit_tunnel
  <2>2. Fresh /\ tnRun' = tnRun
    BY <1>1, <1>3, Keeps
  <2>3. /\ tnPast' \in [keys : Nat, ended : SUBSET (Nat \ {0})]
        /\ \A k \in tnPast'.ended : k <= tnPast'.keys
        /\ tnPast'.ended \subseteq tnPast.ended
        /\ next.enabled => next.key \notin tnPast'.ended
    BY <1>0, <1>1, <1>3, Doubted
  <2>4. tnRun.key \notin tnPast'.ended /\ (tnFile.enabled => tnFile.key \notin tnPast'.ended)
    BY <2>3 DEF TnInv, EndedCredentialUnused, FileUsable
  <2> QED
    BY <1>0, <2>1, <2>2, <2>3, <2>4, OwnerStep
<1> QED
  BY <1>2, <1>3

\* set_enabled, on or off.
LEMMA Enables ==
  ASSUME TnInv, NEW on \in BOOLEAN, tunnel_set_enabled(on)
  PROVE  TnInv'
<1> DEFINE next == [tnFile EXCEPT !.enabled = on]
<1>0. /\ tnFile \in Settings /\ tnHost' \in BOOLEAN /\ next \in Settings
      /\ next.enabled = on /\ next.key = tnFile.key /\ tnPast.keys \in Nat /\ tnFaults \in Nat
  BY DEF TnInv, OwnerType, Settings, tunnel_set_enabled
<1>1. PICK c \in EnabledTunnelCommits(on) :
        \/ /\ ~c.ok
           /\ tnFile' = c.file
           /\ DoubtTunnel(next, tnPast.keys)
           /\ tnFaults' = tnFaults + c.cost
           /\ UNCHANGED tnClient
        \/ /\ c.ok
           /\ AckTunnel(next, tnPast.keys)
           /\ \E kept \in StatusCommits(next) :
                /\ tnFile' = kept.file
                /\ reconcile_tunnel(next, kept.cost)
  BY DEF tunnel_set_enabled
<1>2. CASE c.ok
  <2>1. PICK kept \in StatusCommits(next) : tnFile' = kept.file /\ reconcile_tunnel(next, kept.cost)
    BY <1>1, <1>2
  <2>2. kept.file \in {next, [next EXCEPT !.called = TRUE]} /\ kept.cost \in Nat
    BY DEF StatusCommits, commit_tunnel
  <2>3. tnFile' \in Settings /\ tnFile'.enabled = next.enabled /\ tnFile'.key = next.key
    BY <1>0, <2>1, <2>2 DEF Settings
  <2> HIDE DEF next
  <2>4. /\ Fresh /\ tnFaults' \in Nat
        /\ tnRun'.key = 0 \/ (next.enabled /\ tnRun'.key = next.key)
    BY <1>0, <2>1, <2>2, Reconciles
  <2>5. /\ tnPast' \in [keys : Nat, ended : SUBSET (Nat \ {0})]
        /\ \A k \in tnPast'.ended : k <= tnPast'.keys
        /\ 0 \notin tnPast'.ended
        /\ next.enabled => next.key \notin tnPast'.ended
    BY <1>0, <1>1, <1>2, OperationAnswered
  <2> QED
    BY <1>0, <2>3, <2>4, <2>5, OwnerStep
<1>3. CASE ~c.ok
  <2>1. tnFile' \in {tnFile, next} /\ c.cost = 1
    BY <1>1, <1>3 DEF EnabledTunnelCommits, commit_tunnel
  <2> HIDE DEF next
  <2>2. Fresh /\ tnRun' = tnRun /\ tnFaults' \in Nat
    BY <1>0, <1>1, <1>3, <2>1, Keeps
  <2>3. /\ tnPast' \in [keys : Nat, ended : SUBSET (Nat \ {0})]
        /\ \A k \in tnPast'.ended : k <= tnPast'.keys
        /\ tnPast'.ended \subseteq tnPast.ended
        /\ next.enabled => next.key \notin tnPast'.ended
    BY <1>0, <1>1, <1>3, Doubted
  <2>4. tnRun.key \notin tnPast'.ended /\ (tnFile.enabled => tnFile.key \notin tnPast'.ended)
    BY <2>3 DEF TnInv, EndedCredentialUnused, FileUsable
  <2> QED
    BY <1>0, <2>1, <2>2, <2>3, <2>4, OwnerStep
<1> QED
  BY <1>2, <1>3

\* clear: every key that was there has ended and no client runs.
LEMMA Clears ==
  ASSUME TnInv, tunnel_clear
  PROVE  TnInv'
<1>0. /\ tnFile \in Settings /\ tnHost' \in BOOLEAN /\ tnFaults \in Nat /\ tnPast.keys \in Nat
      /\ NoTunnel \in Settings /\ ~NoTunnel.enabled
      /\ tnPast \in [keys : Nat, ended : SUBSET (Nat \ {0})]
  BY DEF TnInv, OwnerType, Settings, NoTunnel, tunnel_clear
<1>1. Fresh /\ tnRun'.key = 0
  BY Stops DEF tunnel_clear
<1>2. PICK c \in commit_tunnel(tnFile, NoTunnel) :
        /\ tnFile' = c.file
        /\ tnFaults' = tnFaults + c.cost
        /\ IF c.ok THEN AckTunnel(NoTunnel, tnPast.keys) ELSE UNCHANGED tnPast
  BY DEF tunnel_clear
<1>3. tnFile' \in {tnFile, NoTunnel} /\ tnFaults' \in Nat /\ (c.ok => tnFile' = NoTunnel)
  BY <1>0, <1>2 DEF commit_tunnel
<1>4. CASE c.ok
  <2>1. /\ tnPast' \in [keys : Nat, ended : SUBSET (Nat \ {0})]
        /\ \A k \in tnPast'.ended : k <= tnPast'.keys
        /\ 0 \notin tnPast'.ended
    BY <1>0, <1>2, <1>4, OperationAnswered
  <2> QED
    BY <1>0, <1>1, <1>3, <1>4, <2>1, OwnerStep
<1>5. CASE ~c.ok
  <2>1. tnPast' = tnPast
    BY <1>2, <1>5
  <2>2. 0 \notin tnPast.ended /\ (tnFile.enabled => tnFile.key \notin tnPast.ended)
        /\ \A k \in tnPast.ended : k <= tnPast.keys
    BY <1>0 DEF TnInv, FileUsable
  <2> QED
    BY <1>0, <1>1, <1>3, <2>1, <2>2, OwnerStep
<1> QED
  BY <1>4, <1>5

\* Reading the settings, and a host that comes or goes.
LEMMA ReadsAndAttaches ==
  ASSUME TnInv, tunnel_settings \/ \E b \in BOOLEAN : TunnelAttach(b)
  PROVE  TnInv'
<1>0. /\ tnFile \in Settings /\ tnHost \in BOOLEAN /\ tnFaults \in Nat
      /\ tnPast \in [keys : Nat, ended : SUBSET (Nat \ {0})] /\ 0 \notin tnPast.ended
      /\ \A k \in tnPast.ended : k <= tnPast.keys
      /\ tnFile.enabled => tnFile.key \notin tnPast.ended
      /\ tnRun.key \notin tnPast.ended
  BY DEF TnInv, OwnerType, FileUsable, EndedCredentialUnused
<1>1. CASE tunnel_settings
  <2>1. PICK kept \in commit_tunnel(tnFile, [tnFile EXCEPT !.called = TRUE]) :
          tnFile' = kept.file /\ tnFaults' = tnFaults + kept.cost
    BY <1>1 DEF tunnel_settings
  <2>2. /\ tnFile' \in Settings /\ tnFile'.enabled = tnFile.enabled /\ tnFile'.key = tnFile.key
        /\ tnFaults' \in Nat
    <3>1. tnFile' \in {tnFile, [tnFile EXCEPT !.called = TRUE]} /\ kept.cost \in {0, 1}
      BY <2>1 DEF commit_tunnel
    <3>2. tnFaults' \in Nat
      BY <1>0, <2>1, <3>1
    <3> QED
      BY <1>0, <3>1, <3>2 DEF Settings
  <2>3. Fresh /\ tnRun' = tnRun /\ tnHost' = tnHost /\ tnPast' = tnPast
    BY <1>1, Keeps DEF tunnel_settings
  <2> QED
    BY <1>0, <2>2, <2>3, OwnerStep
<1>2. ASSUME NEW b \in BOOLEAN, TunnelAttach(b)
      PROVE  TnInv'
  <2>1. tnHost' \in BOOLEAN /\ tnFile' = tnFile /\ tnPast' = tnPast /\ tnFaults' \in Nat
    BY <1>0, <1>2 DEF TunnelAttach
  <2>2. CASE stop_tunnel \/ StartFails
    BY <1>0, <2>1, <2>2, Stops, OwnerStep
  <2>3. CASE tnFile.enabled /\ StartClient(tnFile)
    BY <1>0, <2>1, <2>3, Starts, OwnerStep
  <2> QED
    BY <1>2, <2>2, <2>3 DEF TunnelAttach
<1> QED
  BY <1>1, <1>2

-----------------------------------------------------------------------------
\* The invariant of the tunnel: TnInv holds at the start and every worker, loop
\* and settings step keeps it.
THEOREM TunnelInductive == TnSpec => []TnInv
<1>1. TnInit => TnInv
  <2> SUFFICES ASSUME TnInit PROVE TnInv
    OBVIOUS
  <2>1. ClientType
    BY DEF TnInit, ClientType, Jobs, LoopStates, NoRun, NoLoop, NoJobs, NoJob
  <2>2. OwnerType /\ EndedCredentialUnused /\ FileUsable
    BY DEF TnInit, OwnerType, Settings, NoTunnel, EndedCredentialUnused, FileUsable
  <2>3. NothingOutlivesRefusal
    BY DEF TnInit, NothingOutlivesRefusal, JoinSet, InSet, NoJobs, NoJob
  <2> QED
    BY <2>1, <2>2, <2>3 DEF TnInv
<1>2. TnInv /\ [TnNext]_tnVars => TnInv'
  <2> SUFFICES ASSUME TnInv, [TnNext]_tnVars PROVE TnInv'
    OBVIOUS
  <2>1. CASE UNCHANGED tnVars
    BY <2>1 DEF TnInv, ClientType, OwnerType, NothingOutlivesRefusal, JoinSet, InSet,
                EndedCredentialUnused, FileUsable, tnVars, tnOwner, tnClient
  <2>2. CASE TnNext
    BY <2>2, ProcessCommand, OtherWorkerSteps, LoopSteps, Configures, Clears, Enables,
       ReadsAndAttaches DEF TnNext
  <2> QED
    BY <2>1, <2>2
<1> QED
  BY <1>1, <1>2, PTL DEF TnSpec

\* While the control plane's refusal is waited out, and once the client stopped, no command
\* is in flight, for any number of commands and workers (stop_commands, reap_commands).
THEOREM NothingOutlives == TnSpec => []NothingOutlivesRefusal
<1>1. TnInv => NothingOutlivesRefusal
  BY DEF TnInv
<1> QED
  BY <1>1, TunnelInductive, PTL

\* No running client uses a key that an acknowledged configure, disable or clear ended,
\* for any number of keys and of commits that fail or land unnoticed.
THEOREM EndedUnused == TnSpec => []EndedCredentialUnused
<1>1. TnInv => EndedCredentialUnused
  BY DEF TnInv
<1> QED
  BY <1>1, TunnelInductive, PTL

(***************************************************************************)
(* The MCP server.  That no revoked token is accepted rests on the         *)
(* settings file, from which every listener is started and whose token no  *)
(* acknowledged operation can have revoked while MCP is on; that a         *)
(* repeatable answer was not served, on what a served exchange may still   *)
(* ask of its host.                                                        *)
(***************************************************************************)
-----------------------------------------------------------------------------
(* The checks of a request.                                                *)

\* The checks up to the token's are the first six of the list.
LEMMA ChecksAre ==
  /\ Len(McChecks) \in Nat /\ Len(McChecks) >= 6
  /\ McChecks[6] = <<"token", 401>>
  /\ \A i \in 1..6 : McChecks[i] \in Range(respond_checks \o handle_checks)
<1> DEFINE S == Range(respond_checks) \cup Range(handle_checks) \cup Range(protocol_checks)
                \cup Range(header_checks) \cup Range(method_checks) \cup Range(input_checks)
           P == Seq(S)
           first == respond_checks \o handle_checks
<1>1. ASSUME NEW n \in Nat, NEW s, s = [i \in 1..n |-> s[i]], Range(s) \subseteq S
      PROVE  s \in P /\ Len(s) = n
  <2>1. s \in [1..n -> S]
    BY <1>1 DEF Range
  <2> QED
    BY <2>1
<1>2. /\ respond_checks = [i \in 1..3 |-> respond_checks[i]]
      /\ handle_checks = [i \in 1..3 |-> handle_checks[i]] /\ handle_checks[3] = <<"token", 401>>
      /\ protocol_checks = [i \in 1..6 |-> protocol_checks[i]]
      /\ header_checks = [i \in 1..2 |-> header_checks[i]]
      /\ method_checks = [i \in 1..1 |-> method_checks[i]]
      /\ input_checks = [i \in 1..1 |-> input_checks[i]]
  BY DEF respond_checks, handle_checks, protocol_checks, header_checks, method_checks, input_checks
<1>3. /\ Range(respond_checks) \subseteq S /\ Range(handle_checks) \subseteq S
      /\ Range(protocol_checks) \subseteq S /\ Range(header_checks) \subseteq S
      /\ Range(method_checks) \subseteq S /\ Range(input_checks) \subseteq S
  OBVIOUS
<1> HIDE DEF S
<1>4. /\ respond_checks \in P /\ handle_checks \in P /\ protocol_checks \in P
      /\ header_checks \in P /\ method_checks \in P /\ input_checks \in P
      /\ Len(respond_checks) = 3 /\ Len(handle_checks) = 3
  BY <1>1, <1>2, <1>3
<1>5. /\ first \in P /\ Len(first) = 6 /\ first[6] = handle_checks[3]
  <2>1. /\ first \in P /\ Len(first) = Len(respond_checks) + Len(handle_checks)
        /\ \A i \in 1..(Len(respond_checks) + Len(handle_checks)) :
             first[i] = IF i <= Len(respond_checks) THEN respond_checks[i]
                        ELSE handle_checks[i - Len(respond_checks)]
    BY <1>4, ConcatProperties
  <2> HIDE DEF first, P
  <2>2. 6 \in 1..(Len(respond_checks) + Len(handle_checks)) /\ ~(6 <= Len(respond_checks))
        /\ 6 - Len(respond_checks) = 3 /\ Len(respond_checks) + Len(handle_checks) = 6
    BY <1>4
  <2> QED
    BY <2>1, <2>2
<1>6. McChecks = (((first \o protocol_checks) \o header_checks) \o method_checks) \o input_checks
  BY DEF McChecks
<1> HIDE DEF first
<1>7. ASSUME NEW s \in P, NEW t \in P, Len(s) >= 6, \A i \in 1..6 : s[i] = first[i]
      PROVE  s \o t \in P /\ Len(s \o t) >= 6 /\ \A i \in 1..6 : (s \o t)[i] = first[i]
  BY <1>7, ConcatProperties
<1> HIDE DEF P
<1>8. McChecks \in P /\ Len(McChecks) >= 6 /\ \A i \in 1..6 : McChecks[i] = first[i]
  <2>0. Len(first) >= 6 /\ \A i \in 1..6 : first[i] = first[i]
    BY <1>5
  <2>1. /\ first \o protocol_checks \in P /\ Len(first \o protocol_checks) >= 6
        /\ \A i \in 1..6 : (first \o protocol_checks)[i] = first[i]
    BY <1>4, <1>5, <1>7, <2>0
  <2> DEFINE u == first \o protocol_checks
  <2> HIDE DEF u
  <2>2. /\ u \o header_checks \in P /\ Len(u \o header_checks) >= 6
        /\ \A i \in 1..6 : (u \o header_checks)[i] = first[i]
    BY <1>4, <1>7, <2>1 DEF u
  <2> DEFINE v == u \o header_checks
  <2> HIDE DEF v
  <2>3. /\ v \o method_checks \in P /\ Len(v \o method_checks) >= 6
        /\ \A i \in 1..6 : (v \o method_checks)[i] = first[i]
    BY <1>4, <1>7, <2>2 DEF v
  <2> DEFINE w == v \o method_checks
  <2> HIDE DEF w
  <2>4. /\ w \o input_checks \in P /\ Len(w \o input_checks) >= 6
        /\ \A i \in 1..6 : (w \o input_checks)[i] = first[i]
    BY <1>4, <1>7, <2>3 DEF w
  <2>5. McChecks = w \o input_checks
    BY <1>6 DEF u, v, w
  <2> QED
    BY <2>4, <2>5
<1>9. Len(McChecks) \in Nat /\ DOMAIN first = 1..6
  BY <1>5, <1>8 DEF P
<1>10. \A i \in 1..6 : McChecks[i] \in Range(first)
  BY <1>8, <1>9 DEF Range
<1> QED
  BY <1>2, <1>5, <1>8, <1>9, <1>10 DEF first

\* A set of numbers has a least one.
LEMMA LeastIs ==
  ASSUME NEW I \in SUBSET Nat, I # {}
  PROVE  Min(I) \in I /\ \A n \in I : Min(I) <= n
<1>1. PICK m \in I : \A n \in I : ~(<<n, m>> \in OpToRel(<, Nat))
  BY WFMin, NatLessThanWellFounded
<1>2. \A n \in I : ~(n < m)
  <2>1. ASSUME NEW n \in I, n < m PROVE <<n, m>> \in OpToRel(<, Nat)
    <3>1. <<n, m>> \in Nat \X Nat
      OBVIOUS
    <3> QED
      BY <2>1, <3>1 DEF OpToRel
  <2> QED
    BY <1>1, <2>1
<1>3. \A n \in I : m <= n
  BY <1>2
<1> QED
  BY <1>3 DEF Min

\* A request that gets past the check of the token has the listener's token.
LEMMA PassedMeansMatched ==
  ASSUME NEW bad, NEW token,
         PassedToken(FirstFailed(IF bearer_matches(token) THEN bad ELSE bad \cup {"token"}))
  PROVE  bearer_matches(token)
<1> SUFFICES ASSUME ~bearer_matches(token) PROVE FALSE
  OBVIOUS
<1> DEFINE B == bad \cup {"token"}
           I == {i \in 1..Len(McChecks) : McChecks[i][1] \in B}
<1>1. PassedToken(FirstFailed(B))
  OBVIOUS
<1>2. 6 \in I /\ I \subseteq Nat
  BY ChecksAre
<1>3. FirstFailed(B) = Min(I)
  BY <1>2 DEF FirstFailed, SelectInSeq
<1> HIDE DEF I
<1>4. Min(I) \in I /\ \A n \in I : Min(I) <= n
  BY <1>2, LeastIs
<1>5. Min(I) \in 1..6
  BY <1>2, <1>4 DEF I
<1> QED
  BY <1>1, <1>3, <1>5, ChecksAre DEF PassedToken
-----------------------------------------------------------------------------
(* The inductive invariant.                                                *)

McSettings == [enabled : BOOLEAN, token : Nat]
Statuses   == {0, 200} \cup {McChecks[i][2] : i \in Nat}
Exchanges  == [at : {"closed", "reading", "slot", "calling", "answered"},
               step : {"none", "submit", "query", "refs", "refs_image", "image"},
               served : BOOLEAN, stale : BOOLEAN, status : Statuses, retry : BOOLEAN]

\* An exchange whose call was served asks only what the result needs, or is answered
\* without an invitation to repeat it.
Honest(x) ==
  /\ x \in Exchanges /\ ~x.stale
  /\ x.served => \/ x.at \in {"slot", "calling"} /\ x.step \in {"refs", "refs_image", "image"}
                 \/ x.at = "answered" /\ ~x.retry

McTypeOK ==
  /\ mcKind \in {"app", "daemon"}
  /\ mcFile \in McSettings /\ mcCache \in McSettings
  /\ mcToken \in Nat
  /\ mcPast \in [minted : Nat, revoked : SUBSET Nat, replaced : SUBSET Nat]
  /\ mcEx \in [Connections -> Exchanges]

\* The file, which a listener is started from, is as good as what was acknowledged; the
\* App's snapshot is the file, and its listener runs only while the file has MCP on.
SettingsOwned ==
  /\ mcFile.token <= mcPast.minted
  /\ \A t \in mcPast.revoked : t <= mcPast.minted
  /\ mcFile.enabled => mcFile.token # 0 /\ mcFile.token \notin mcPast.revoked
  /\ mcCache.token # 0 => mcCache = mcFile
  /\ mcKind = "app" /\ mcToken # 0 => mcFile.enabled

\* The listener's own token is none that was revoked.
ListenerCurrent == mcToken # 0 => mcToken \notin mcPast.revoked

McInv == McTypeOK /\ SettingsOwned /\ ListenerCurrent /\ \A c \in Connections : Honest(mcEx[c])

-----------------------------------------------------------------------------
(* Exchanges.                                                              *)

\* A request that fails a check fails one of the list.
LEMMA FailedIs ==
  ASSUME NEW bad
  PROVE  FirstFailed(bad) \in Nat
<1> DEFINE I == {i \in 1..Len(McChecks) : McChecks[i][1] \in bad}
<1>1. I \subseteq Nat
  BY ChecksAre
<1>2. FirstFailed(bad) = IF I # {} THEN Min(I) ELSE 0
  BY DEF FirstFailed, SelectInSeq
<1> HIDE DEF I
<1>3. ASSUME I # {} PROVE Min(I) \in Nat
  BY <1>1, <1>3, LeastIs
<1> QED
  BY <1>2, <1>3

\* A connection without an exchange is honest.
LEMMA ClosedHonest ==
  Honest(ClosedConnection) /\ Honest([ClosedConnection EXCEPT !.at = "reading"])
BY DEF Honest, ClosedConnection, Exchanges, Statuses

\* An answer is honest, unless it invites to repeat what was served.
LEMMA AnsweredHonest ==
  ASSUME NEW x \in Exchanges, ~x.stale, NEW status \in Statuses, NEW retry \in BOOLEAN,
         retry => ~x.served
  PROVE  Honest(Answered(x, status, retry))
<1> DEFINE y == Answered(x, status, retry)
<1>1. /\ y \in Exchanges /\ y.at = "answered" /\ y.stale = x.stale /\ y.served = x.served
      /\ y.retry = retry
  BY DEF Answered, Exchanges
<1> HIDE DEF y
<1> QED
  BY <1>1 DEF Honest, y

\* So is a question to the host, of a call that was not served or about its result.
LEMMA AsksHonest ==
  ASSUME NEW x \in Exchanges, ~x.stale,
         NEW step \in {"submit", "query", "refs", "refs_image", "image"},
         x.served => step \in {"refs", "refs_image", "image"}
  PROVE  Honest(AsksHost(x, step))
<1> DEFINE y == AsksHost(x, step)
<1>1. /\ y \in Exchanges /\ y.at \in {"slot", "calling"} /\ y.stale = x.stale
      /\ y.served = x.served /\ y.step = step
  BY DEF AsksHost, Exchanges
<1> HIDE DEF y
<1> QED
  BY <1>1 DEF Honest, y

\* The exchange of one connection moves, and the settings and the listener rest.
LEMMA ExchangeStep ==
  ASSUME McInv, NEW c \in Connections, NEW x, Honest(x), mcEx' = [mcEx EXCEPT ![c] = x],
         UNCHANGED <<mcSettings, mcToken, mcPast>>
  PROVE  McInv'
<1>1. x \in Exchanges
  BY DEF Honest
<1>2. mcEx' \in [Connections -> Exchanges] /\ \A d \in Connections : Honest(mcEx'[d])
  BY <1>1 DEF McInv, McTypeOK
<1> QED
  BY <1>2 DEF McInv, McTypeOK, SettingsOwned, ListenerCurrent, mcSettings, Honest

\* accept_loop, a written answer and a client that departs.
LEMMA ConnectionInv ==
  ASSUME McInv, NEW c \in Connections, accept_loop(c) \/ Written(c) \/ Departs(c)
  PROVE  McInv'
<1>1. /\ \E x \in {ClosedConnection, [ClosedConnection EXCEPT !.at = "reading"]} :
           mcEx' = [mcEx EXCEPT ![c] = x]
      /\ UNCHANGED <<mcSettings, mcToken, mcPast>>
  BY DEF accept_loop, Written, Departs
<1> QED
  BY <1>1, ClosedHonest, ExchangeStep

\* respond: a request with a revoked token is not let past, for the listener's is none.
LEMMA RespondInv ==
  ASSUME McInv, NEW c \in Connections, respond(c)
  PROVE  McInv'
<1> DEFINE Failed(token, bad) == FirstFailed(IF bearer_matches(token) THEN bad ELSE bad \cup {"token"})
           Ex(token, bad) == [mcEx[c] EXCEPT !.stale = /\ PassedToken(Failed(token, bad))
                                                       /\ token \in mcPast.revoked]
<1>1. /\ mcEx[c].at = "reading" /\ UNCHANGED <<mcSettings, mcToken, mcPast>>
      /\ \E token \in 0..mcPast.minted, bad \in BadInputs, asks \in {"plain", "call", "resources"} :
           mcEx' = [mcEx EXCEPT ![c] =
                      IF Failed(token, bad) = 0 THEN Dispatched(Ex(token, bad), asks)
                      ELSE Answered(Ex(token, bad), McChecks[Failed(token, bad)][2], FALSE)]
  BY DEF respond
<1>2. PICK token \in 0..mcPast.minted, bad \in BadInputs, asks \in {"plain", "call", "resources"} :
           mcEx' = [mcEx EXCEPT ![c] =
                      IF Failed(token, bad) = 0 THEN Dispatched(Ex(token, bad), asks)
                      ELSE Answered(Ex(token, bad), McChecks[Failed(token, bad)][2], FALSE)]
  BY <1>1
<1> DEFINE failed == Failed(token, bad)
           ex == Ex(token, bad)
           stale == PassedToken(failed) /\ token \in mcPast.revoked
<1>3. failed \in Nat
  BY FailedIs
<1>4. stale = FALSE
  <2> SUFFICES ASSUME stale PROVE FALSE
    OBVIOUS
  <2>1. bearer_matches(token)
    BY PassedMeansMatched
  <2> QED
    BY <2>1 DEF bearer_matches, McInv, ListenerCurrent
<1>5. ex = [mcEx[c] EXCEPT !.stale = stale]
  OBVIOUS
<1>6. mcEx' = [mcEx EXCEPT ![c] = IF failed = 0 THEN Dispatched(ex, asks)
                                  ELSE Answered(ex, McChecks[failed][2], FALSE)]
  BY <1>2
<1> HIDE DEF failed, ex, stale
<1>7. mcEx[c] \in Exchanges /\ ~mcEx[c].served
  BY <1>1 DEF McInv, McTypeOK, Honest
<1>8. ex \in Exchanges /\ ~ex.stale /\ ~ex.served
  BY <1>4, <1>5, <1>7 DEF Exchanges
<1>9. McChecks[failed][2] \in Statuses /\ 200 \in Statuses
  BY <1>3 DEF Statuses
<1>10. Honest(Dispatched(ex, asks))
  BY <1>8, <1>9, AnsweredHonest, AsksHonest DEF Dispatched
<1>11. Honest(Answered(ex, McChecks[failed][2], FALSE))
  BY <1>8, <1>9, AnsweredHonest
<1> QED
  BY <1>1, <1>6, <1>10, <1>11, ExchangeStep

\* The wait for a permit ends, with a thread or without one.
LEMMA SlotInv ==
  ASSUME McInv, NEW c \in Connections, SlotGranted(c) \/ SlotWaitEnds(c)
  PROVE  McInv'
<1>1. UNCHANGED <<mcSettings, mcToken, mcPast>> /\ mcEx[c].at = "slot"
  BY DEF SlotGranted, SlotWaitEnds
<1>2. mcEx[c] \in Exchanges /\ Honest(mcEx[c])
  BY DEF McInv, McTypeOK
<1>3. CASE SlotGranted(c)
  <2> DEFINE x == [mcEx[c] EXCEPT !.at = "calling"]
  <2>1. mcEx' = [mcEx EXCEPT ![c] = x]
    BY <1>3 DEF SlotGranted
  <2>2. /\ x \in Exchanges /\ x.at = "calling" /\ x.stale = mcEx[c].stale
        /\ x.served = mcEx[c].served /\ x.step = mcEx[c].step
    BY <1>2 DEF Exchanges
  <2> HIDE DEF x
  <2>3. Honest(x)
    BY <1>1, <1>2, <2>2 DEF Honest
  <2> QED
    BY <1>1, <2>1, <2>3, ExchangeStep
<1>4. CASE SlotWaitEnds(c)
  <2>1. mcEx' = [mcEx EXCEPT ![c] = Unhosted(mcEx[c])]
    BY <1>4 DEF SlotWaitEnds
  <2>2. mcEx[c].step = "submit" => ~mcEx[c].served
    BY <1>1, <1>2 DEF Honest
  <2>3. ~mcEx[c].stale /\ 200 \in Statuses
    BY <1>2 DEF Honest, Statuses
  <2>4. Honest(Unhosted(mcEx[c]))
    BY <1>2, <2>2, <2>3, AnsweredHonest DEF Unhosted, tool_failure, tool_failure_with
  <2> QED
    BY <1>1, <2>1, <2>4, ExchangeStep
<1> QED
  BY <1>3, <1>4

\* What the exchange makes of a reply.
LEMMA RepliedHonest ==
  ASSUME NEW x \in Exchanges, ~x.stale, NEW got \in submit_public,
         NEW names \in {"nothing", "refs", "image"}
  PROVE  Honest(Replied(x, got, names))
<1> DEFINE y == [x EXCEPT !.served = got.served]
<1>1. \/ got \in {[reply |-> r, served |-> TRUE] : r \in {"success", "unreadable"}}
      \/ got \in {[reply |-> r, served |-> s] : r \in {"error", "failed"}, s \in BOOLEAN}
      \/ got \in {[reply |-> "barred", served |-> FALSE]}
  BY DEF submit_public
<1>2. /\ got.served \in BOOLEAN /\ got.reply \in {"success", "unreadable", "error", "failed", "barred"}
      /\ got.reply = "barred" => ~got.served
  <2>1. CASE got \in {[reply |-> r, served |-> TRUE] : r \in {"success", "unreadable"}}
    <3>1. PICK r \in {"success", "unreadable"} : got = [reply |-> r, served |-> TRUE]
      BY <2>1
    <3>2. got.reply = r /\ got.served = TRUE
      BY <3>1
    <3> QED
      BY <3>2
  <2>2. CASE got \in {[reply |-> r, served |-> s] : r \in {"error", "failed"}, s \in BOOLEAN}
    <3>1. PICK r \in {"error", "failed"}, s \in BOOLEAN : got = [reply |-> r, served |-> s]
      BY <2>2
    <3>2. got.reply = r /\ got.served = s
      BY <3>1
    <3> QED
      BY <3>2
  <2>3. CASE got \in {[reply |-> "barred", served |-> FALSE]}
    <3>1. got = [reply |-> "barred", served |-> FALSE]
      BY <2>3
    <3>2. got.reply = "barred" /\ got.served = FALSE
      BY <3>1
    <3> QED
      BY <3>2
  <2> QED
    BY <1>1, <2>1, <2>2, <2>3
<1>3. y \in Exchanges /\ ~y.stale /\ y.served = got.served
  BY <1>2 DEF Exchanges
<1>4. 200 \in Statuses
  BY DEF Statuses
<1>5. Replied(x, got, names) =
        CASE got.reply = "failed"     -> tool_failure_with(y, "IO_ERROR")
          [] got.reply = "unreadable" -> tool_failure(y)
          [] got.reply = "error"      -> Answered(y, 200, FALSE)
          [] got.reply = "barred"     -> Answered(y, 200, TRUE)
          [] got.reply = "success" /\ names = "nothing" -> Answered(y, 200, FALSE)
          [] got.reply = "success" /\ names = "refs"    -> AsksHost(y, "refs")
          [] got.reply = "success" /\ names = "image"   -> AsksHost(y, "refs_image")
  BY DEF Replied
<1> HIDE DEF y
<1>6. /\ Honest(Answered(y, 200, FALSE)) /\ (~y.served => Honest(Answered(y, 200, TRUE)))
      /\ Honest(AsksHost(y, "refs")) /\ Honest(AsksHost(y, "refs_image"))
  BY <1>3, <1>4, AnsweredHonest, AsksHonest
<1>7. Honest(tool_failure(y)) /\ Honest(tool_failure_with(y, "IO_ERROR"))
  BY <1>6 DEF tool_failure, tool_failure_with
<1>8. CASE got.reply = "success"
  BY <1>5, <1>6, <1>8
<1>9. CASE got.reply \in {"failed", "unreadable", "error"}
  BY <1>5, <1>6, <1>7, <1>9
<1>10. CASE got.reply = "barred"
  BY <1>2, <1>3, <1>5, <1>6, <1>10
<1> QED
  BY <1>2, <1>8, <1>9, <1>10

\* A host call ends.
LEMMA HostThreadInv ==
  ASSUME McInv, NEW c \in Connections, on_host_thread(c)
  PROVE  McInv'
<1>1. UNCHANGED <<mcSettings, mcToken, mcPast>> /\ mcEx[c].at = "calling"
  BY DEF on_host_thread
<1>2. mcEx[c] \in Exchanges /\ Honest(mcEx[c]) /\ ~mcEx[c].stale /\ 200 \in Statuses
  BY DEF McInv, McTypeOK, Honest, Statuses
<1> DEFINE ex == mcEx[c]
<1>3. \/ \E got \in submit_public, names \in {"nothing", "refs", "image"} :
           mcEx' = [mcEx EXCEPT ![c] = Replied(ex, got, names)]
      \/ /\ ex.step \in {"refs", "refs_image"}
         /\ \E read \in BOOLEAN : mcEx' = [mcEx EXCEPT ![c] = ref_expiries(ex, read)]
      \/ \E read \in BOOLEAN : mcEx' = [mcEx EXCEPT ![c] = inline_image(ex, read)]
      \/ mcEx' = [mcEx EXCEPT ![c] = ResourcesAnswered(ex)]
  BY DEF on_host_thread
<1> HIDE DEF ex
<1>4. Honest(Answered(ex, 200, FALSE)) /\ Honest(AsksHost(ex, "image"))
  BY <1>2, AnsweredHonest, AsksHonest DEF ex
<1>5. ASSUME ex.step \in {"refs", "refs_image"}, NEW read \in BOOLEAN
      PROVE  Honest(ref_expiries(ex, read))
  BY <1>4, <1>5 DEF ref_expiries, tool_failure
<1>6. ASSUME NEW read \in BOOLEAN PROVE Honest(inline_image(ex, read))
  BY <1>4 DEF inline_image, tool_failure
<1>7. Honest(ResourcesAnswered(ex))
  BY <1>4 DEF ResourcesAnswered
<1>8. ASSUME NEW got \in submit_public, NEW names \in {"nothing", "refs", "image"}
      PROVE  Honest(Replied(ex, got, names))
  BY <1>2, RepliedHonest DEF ex
<1> QED
  BY <1>1, <1>3, <1>5, <1>6, <1>7, <1>8, ExchangeStep

-----------------------------------------------------------------------------
(* Settings.                                                               *)

\* What an operation on the settings must leave, besides the exchanges: a listener of the
\* App runs with MCP on in the file, no token of the file or the listener is revoked.
LEMMA SettingsStep ==
  ASSUME McInv, mcKind' = mcKind, mcFile' \in McSettings, mcCache' \in McSettings,
         mcToken' \in Nat,
         mcPast' \in [minted : Nat, revoked : SUBSET Nat, replaced : SUBSET Nat],
         SettingsOwned', ListenerCurrent',
         mcEx' = mcEx \/ mcEx' = [c \in Connections |-> ClosedConnection]
  PROVE  McInv'
<1>1. mcEx' \in [Connections -> Exchanges] /\ \A c \in Connections : Honest(mcEx[c]')
  <2>1. CASE mcEx' = mcEx
    BY <2>1 DEF McInv, McTypeOK, Honest
  <2>2. CASE mcEx' = [c \in Connections |-> ClosedConnection]
    <3>1. ClosedConnection \in Exchanges
      BY ClosedHonest DEF Honest
    <3>2. \A c \in Connections : mcEx'[c] = ClosedConnection
      BY <2>2
    <3> QED
      BY <2>2, <3>1, <3>2, ClosedHonest
  <2> QED
    BY <2>1, <2>2
<1> QED
  BY <1>1 DEF McInv, McTypeOK

\* Settings are read as the file has them, snapshot or not.
LEMMA ReadIsFile ==
  ASSUME McInv, NEW l \in read_settings
  PROVE  /\ l.s = mcFile /\ l.ok \in BOOLEAN /\ l.cost \in {0, 1}
<1>1. \/ mcKind = "app" /\ mcCache.token # 0 /\ l = [ok |-> TRUE, s |-> mcCache, cost |-> 0]
      \/ l = [ok |-> TRUE, s |-> mcFile, cost |-> 0]
      \/ l = [ok |-> FALSE, s |-> mcFile, cost |-> 1]
  BY DEF read_settings
<1>2. mcCache.token # 0 => mcCache = mcFile
  BY DEF McInv, SettingsOwned
<1>3. CASE l = [ok |-> TRUE, s |-> mcFile, cost |-> 0]
  <2>1. l.ok = TRUE /\ l.s = mcFile /\ l.cost = 0
    BY <1>3
  <2> QED
    BY <2>1
<1>4. CASE l = [ok |-> FALSE, s |-> mcFile, cost |-> 1]
  <2>1. l.ok = FALSE /\ l.s = mcFile /\ l.cost = 1
    BY <1>4
  <2> QED
    BY <2>1
<1> QED
  BY <1>1, <1>2, <1>3, <1>4

\* The settings with another token, or switched.
LEMMA ChangedSettings ==
  ASSUME NEW s \in McSettings, NEW t \in Nat, NEW on \in BOOLEAN
  PROVE  /\ [s EXCEPT !.token = t] \in McSettings /\ [s EXCEPT !.enabled = on] \in McSettings
         /\ [s EXCEPT !.token = t].token = t /\ [s EXCEPT !.token = t].enabled = s.enabled
         /\ [s EXCEPT !.enabled = on].token = s.token /\ [s EXCEPT !.enabled = on].enabled = on
BY DEF McSettings

\* A commit leaves the file as it was or as it was meant, and a success does the latter.
LEMMA CommitIs ==
  ASSUME NEW next, NEW c \in write_settings(next)
  PROVE  /\ c.ok \in BOOLEAN /\ c.cost \in {0, 1} /\ c.file \in {mcFile, next}
         /\ c.ok => c.file = next
<1>1. \/ c = [ok |-> TRUE, file |-> next, cost |-> 0]
      \/ c = [ok |-> FALSE, file |-> mcFile, cost |-> 1]
      \/ c = [ok |-> FALSE, file |-> next, cost |-> 1]
  BY DEF write_settings
<1>2. CASE c = [ok |-> TRUE, file |-> next, cost |-> 0]
  <2>1. c.ok = TRUE /\ c.file = next /\ c.cost = 0
    BY <1>2
  <2> QED
    BY <2>1
<1>3. CASE c = [ok |-> FALSE, file |-> mcFile, cost |-> 1]
  <2>1. c.ok = FALSE /\ c.file = mcFile /\ c.cost = 1
    BY <1>3
  <2> QED
    BY <2>1
<1>4. CASE c = [ok |-> FALSE, file |-> next, cost |-> 1]
  <2>1. c.ok = FALSE /\ c.file = next /\ c.cost = 1
    BY <1>4
  <2> QED
    BY <2>1
<1> QED
  BY <1>1, <1>2, <1>3, <1>4

\* So does a switch, which commits nothing when the file already has the value.
LEMMA SwitchIs ==
  ASSUME mcFile \in McSettings, NEW on \in BOOLEAN, NEW c \in EnabledCommits(mcFile, on)
  PROVE  /\ c.ok \in BOOLEAN /\ c.cost \in {0, 1}
         /\ c.file \in {mcFile, [mcFile EXCEPT !.enabled = on]}
         /\ c.ok => c.file = [mcFile EXCEPT !.enabled = on]
<1>1. CASE mcFile.enabled = on
  <2>1. c = [ok |-> TRUE, file |-> mcFile, cost |-> 0]
    BY <1>1 DEF EnabledCommits
  <2>2. c.ok = TRUE /\ c.file = mcFile /\ c.cost = 0
    BY <2>1
  <2>3. mcFile = [mcFile EXCEPT !.enabled = on]
    BY <1>1 DEF McSettings
  <2> QED
    BY <2>2, <2>3
<1>2. CASE mcFile.enabled # on
  <2>1. c \in write_settings([mcFile EXCEPT !.enabled = on])
    BY <1>2 DEF EnabledCommits
  <2> QED
    BY <2>1, CommitIs
<1> QED
  BY <1>1, <1>2

\* The snapshot after a commit is the file, or there is none.
LEMMA StoredIs ==
  ASSUME McInv, NEW next \in McSettings, NEW c, c.ok \in BOOLEAN, c.file \in {mcFile, next},
         c.ok => c.file = next, Stored(c, next)
  PROVE  /\ mcFile' = c.file /\ mcFile' \in McSettings /\ mcCache' \in McSettings
         /\ mcCache'.token # 0 => mcCache' = mcFile'
<1>1. NoSettings \in McSettings /\ NoSettings.token = 0
  BY DEF NoSettings, McSettings
<1>2. mcFile \in McSettings
  BY DEF McInv, McTypeOK
<1> QED
  BY <1>1, <1>2 DEF Stored, Snapshot

\* What an acknowledged operation revokes is every token minted but the one it serves.
LEMMA AcknowledgedIs ==
  ASSUME NEW s, NEW minted \in Nat, Acknowledged(s, minted)
  PROVE  /\ mcPast' \in [minted : Nat, revoked : SUBSET Nat, replaced : SUBSET Nat]
         /\ mcPast'.minted = minted
         /\ \A t \in mcPast'.revoked : t <= minted
         /\ s.enabled => s.token \notin mcPast'.revoked
<1> DEFINE others == (1..minted) \ (IF s.enabled THEN {s.token} ELSE {})
<1>1. mcPast' = [minted |-> minted, revoked |-> others, replaced |-> others]
  BY DEF Acknowledged
<1>2. others \subseteq Nat /\ (\A t \in others : t <= minted) /\ (s.enabled => s.token \notin others)
  OBVIOUS
<1> HIDE DEF others
<1>3. mcPast'.minted = minted /\ mcPast'.revoked = others
  BY <1>1
<1> QED
  BY <1>1, <1>2, <1>3

\* Minting revokes nothing.
LEMMA MintsIs ==
  ASSUME McInv, NEW minted \in Nat, Mints(minted)
  PROVE  /\ mcPast' \in [minted : Nat, revoked : SUBSET Nat, replaced : SUBSET Nat]
         /\ mcPast'.minted = minted /\ mcPast'.revoked = mcPast.revoked
<1>1. mcPast \in [minted : Nat, revoked : SUBSET Nat, replaced : SUBSET Nat]
  BY DEF McInv, McTypeOK
<1> QED
  BY <1>1 DEF Mints

\* An operation in doubt takes back the revocation of the token it may have turned on.
LEMMA InDoubtIs ==
  ASSUME McInv, NEW s, InDoubt(s)
  PROVE  /\ mcPast' \in [minted : Nat, revoked : SUBSET Nat, replaced : SUBSET Nat]
         /\ mcPast'.minted = mcPast.minted /\ mcPast'.revoked \subseteq mcPast.revoked
         /\ s.enabled => s.token \notin mcPast'.revoked
<1>1. mcPast \in [minted : Nat, revoked : SUBSET Nat, replaced : SUBSET Nat]
  BY DEF McInv, McTypeOK
<1>2. CASE s.enabled
  <2>1. mcPast' = [mcPast EXCEPT !.revoked = mcPast.revoked \ {s.token},
                                 !.replaced = mcPast.replaced \ {s.token}]
    BY <1>2 DEF InDoubt
  <2> QED
    BY <1>1, <2>1
<1>3. CASE ~s.enabled
  BY <1>1, <1>3 DEF InDoubt
<1> QED
  BY <1>2, <1>3

\* Bringing the listener to a token leaves it with that token, or with none.
LEMMA ReconcileIs ==
  ASSUME McInv, NEW token \in Nat, NEW cost, reconcile_listener(token, cost)
  PROVE  /\ mcToken' \in {0, token}
         /\ mcEx' = mcEx \/ mcEx' = [c \in Connections |-> ClosedConnection]
<1>1. CASE token = 0 /\ StopListener
  BY <1>1 DEF StopListener
<1>2. CASE set_token(token)
  BY <1>2 DEF set_token, KeepListener
<1>3. CASE StartListener(token, cost)
  BY <1>3 DEF StartListener, KeepListener
<1> QED
  BY <1>1, <1>2, <1>3 DEF reconcile_listener

\* A call nobody waits for ends, and nothing else moves.
LEMMA OrphanInv ==
  ASSUME McInv, OrphanEnds
  PROVE  McInv'
BY DEF OrphanEnds, McInv, McTypeOK, SettingsOwned, ListenerCurrent, mcSettings, Honest

\* The first read of a store without settings.
LEMMA FirstReadInv ==
  ASSUME McInv, McFirstRead
  PROVE  McInv'
<1> DEFINE next == [enabled |-> FALSE, token |-> mcPast.minted + 1]
<1>1. PICK c \in write_settings(next) : Stored(c, next)
  BY DEF McFirstRead
<1>2. UNCHANGED <<mcKind, mcToken, mcEx>> /\ Mints(mcPast.minted + 1) /\ mcFile.token = 0
  BY DEF McFirstRead
<1>3. mcPast.minted \in Nat /\ mcFile \in McSettings /\ mcToken \in Nat
  BY DEF McInv, McTypeOK
<1>4. next \in McSettings /\ ~next.enabled /\ next.token = mcPast.minted + 1
  BY <1>3 DEF McSettings
<1> HIDE DEF next
<1>5. c.ok \in BOOLEAN /\ c.file \in {mcFile, next} /\ (c.ok => c.file = next)
  BY CommitIs
<1>6. /\ mcFile' = c.file /\ mcFile' \in McSettings /\ mcCache' \in McSettings
      /\ mcCache'.token # 0 => mcCache' = mcFile'
  BY <1>1, <1>4, <1>5, StoredIs
<1>7. /\ mcPast' \in [minted : Nat, revoked : SUBSET Nat, replaced : SUBSET Nat]
      /\ mcPast'.minted = mcPast.minted + 1 /\ mcPast'.revoked = mcPast.revoked
  BY <1>2, <1>3, MintsIs
<1>8. ~mcFile.enabled /\ ~mcFile'.enabled /\ (mcKind = "app" => mcToken = 0)
  BY <1>2, <1>4, <1>5, <1>6 DEF McInv, SettingsOwned
<1>9. \A t \in mcPast.revoked : t \in Nat /\ t <= mcPast.minted
  BY DEF McInv, SettingsOwned, McTypeOK
<1>10. SettingsOwned'
  BY <1>2, <1>3, <1>4, <1>5, <1>6, <1>7, <1>8, <1>9 DEF SettingsOwned
<1>11. ListenerCurrent'
  BY <1>2, <1>7 DEF ListenerCurrent, McInv
<1> QED
  BY <1>2, <1>3, <1>6, <1>7, <1>10, <1>11, SettingsStep

\* A rotation: the token it mints was never revoked, and the listener is brought to it
\* before every other one is.
LEMMA RotateInv ==
  ASSUME McInv, McRotate
  PROVE  McInv'
<1> DEFINE next == [mcFile EXCEPT !.token = mcPast.minted + 1]
<1>1. mcPast.minted \in Nat /\ mcFile \in McSettings /\ mcToken \in Nat
      /\ mcPast \in [minted : Nat, revoked : SUBSET Nat, replaced : SUBSET Nat]
  BY DEF McInv, McTypeOK
<1>2. next \in McSettings /\ next.token = mcPast.minted + 1 /\ next.enabled = mcFile.enabled
  BY <1>1 DEF McSettings
<1>3. \A t \in mcPast.revoked : t \in Nat /\ t <= mcPast.minted
  BY <1>1 DEF McInv, SettingsOwned
<1>4. mcKind' = mcKind
  BY DEF McRotate
<1>5. PICK l \in read_settings :
        \/ ReadRefused(l)
        \/ mcKind = "daemon" /\ mcp_rotate(l)
        \/ mcKind = "app" /\ AppRotates(l)
  BY Zenon DEF McRotate
<1>6. l.s = mcFile
  BY ReadIsFile
<1>7. CASE ReadRefused(l)
  BY <1>4, <1>7 DEF ReadRefused, McInv, McTypeOK, SettingsOwned, ListenerCurrent, Honest
<1>8. ASSUME NEW c \in write_settings(next), Stored(c, next),
             IF c.ok THEN /\ Acknowledged(next, mcPast.minted + 1)
                          /\ mcToken' \in {0, next.token}
                          /\ mcToken' # 0 => mcToken # 0 \/ mcKind = "daemon"
                          /\ mcToken' # 0 => mcFile.enabled \/ mcKind = "app"
                          /\ mcEx' = mcEx \/ mcEx' = [d \in Connections |-> ClosedConnection]
                     ELSE Mints(mcPast.minted + 1) /\ UNCHANGED <<mcToken, mcEx>>
      PROVE  McInv'
  <2> HIDE DEF next
  <2>1. c.ok \in BOOLEAN /\ c.file \in {mcFile, next} /\ (c.ok => c.file = next)
    BY CommitIs
  <2>2. /\ mcFile' = c.file /\ mcFile' \in McSettings /\ mcCache' \in McSettings
        /\ mcCache'.token # 0 => mcCache' = mcFile'
    BY <1>2, <1>8, <2>1, StoredIs
  <2>3. CASE c.ok
    <3>1. /\ mcPast' \in [minted : Nat, revoked : SUBSET Nat, replaced : SUBSET Nat]
          /\ mcPast'.minted = mcPast.minted + 1
          /\ \A t \in mcPast'.revoked : t <= mcPast.minted + 1
          /\ next.enabled => next.token \notin mcPast'.revoked
      BY <1>1, <1>8, <2>3, AcknowledgedIs
    <3>2. /\ mcToken' \in {0, next.token} /\ (mcToken' # 0 => mcToken # 0 \/ mcKind = "daemon")
          /\ mcToken' # 0 => mcFile.enabled \/ mcKind = "app"
          /\ mcEx' = mcEx \/ mcEx' = [d \in Connections |-> ClosedConnection]
      BY <1>8, <2>3
    <3>3. mcToken' # 0 => mcFile.enabled
      BY <3>2 DEF McInv, SettingsOwned
    <3>4. SettingsOwned'
      BY <1>1, <1>2, <1>4, <2>1, <2>2, <2>3, <3>1, <3>3 DEF SettingsOwned
    <3>5. ListenerCurrent'
      BY <1>2, <3>1, <3>2, <3>3 DEF ListenerCurrent
    <3> QED
      BY <1>1, <1>2, <1>4, <2>2, <3>1, <3>2, <3>4, <3>5, SettingsStep
  <2>4. CASE ~c.ok
    <3>1. /\ mcPast' \in [minted : Nat, revoked : SUBSET Nat, replaced : SUBSET Nat]
          /\ mcPast'.minted = mcPast.minted + 1 /\ mcPast'.revoked = mcPast.revoked
          /\ UNCHANGED <<mcToken, mcEx>>
      BY <1>1, <1>8, <2>4, MintsIs
    <3>0. /\ mcFile.token <= mcPast.minted /\ (mcKind = "app" /\ mcToken # 0 => mcFile.enabled)
          /\ mcFile.enabled => mcFile.token # 0 /\ mcFile.token \notin mcPast.revoked
          /\ mcFile.token \in Nat
      BY <1>1 DEF McInv, SettingsOwned, McSettings
    <3>2. /\ mcFile'.token <= mcPast.minted + 1 /\ (mcFile'.enabled = mcFile.enabled)
          /\ mcFile'.enabled => mcFile'.token # 0 /\ mcFile'.token \notin mcPast.revoked
      <4>1. CASE mcFile' = mcFile
        BY <1>1, <3>0, <4>1
      <4>2. CASE mcFile' = next
        <5>1. next.token \notin mcPast.revoked
          BY <1>1, <1>2, <1>3
        <5> QED
          BY <1>1, <1>2, <4>2, <5>1
      <4> QED
        BY <2>1, <2>2, <4>1, <4>2
    <3>4. \A t \in mcPast.revoked : t <= mcPast.minted + 1
      BY <1>1, <1>3
    <3>5. SettingsOwned'
      BY <1>4, <2>2, <3>0, <3>1, <3>2, <3>4 DEF SettingsOwned
    <3>3. ListenerCurrent'
      BY <3>1 DEF ListenerCurrent, McInv
    <3> QED
      BY <1>1, <1>4, <2>2, <3>1, <3>3, <3>5, SettingsStep
  <2> QED
    BY <2>1, <2>3, <2>4
<1>9. CASE mcKind = "daemon" /\ mcp_rotate(l)
  <2>1. PICK c \in write_settings(next) :
          /\ Stored(c, next)
          /\ IF c.ok THEN /\ reconcile_listener(Served(next), l.cost)
                          /\ Acknowledged(next, mcPast.minted + 1)
                     ELSE Mints(mcPast.minted + 1) /\ UNCHANGED <<mcToken, mcEx>>
    BY <1>6, <1>9 DEF mcp_rotate
  <2> HIDE DEF next
  <2>2. CASE c.ok
    <3>1. Served(next) \in {0, next.token} /\ Served(next) \in Nat
          /\ (Served(next) # 0 => mcFile.enabled)
      BY <1>1, <1>2 DEF Served
    <3>2. mcToken' \in {0, Served(next)}
          /\ (mcEx' = mcEx \/ mcEx' = [d \in Connections |-> ClosedConnection])
      BY <2>1, <2>2, <3>1, ReconcileIs
    <3> QED
      BY <1>8, <1>9, <2>1, <2>2, <3>1, <3>2 DEF next
  <2>3. CASE ~c.ok
    BY <1>8, <2>1, <2>3 DEF next
  <2> QED
    BY <2>2, <2>3
<1>10. CASE mcKind = "app" /\ AppRotates(l)
  <2>1. PICK c \in write_settings(next) :
          /\ Stored(c, next)
          /\ IF c.ok THEN set_token(next.token) /\ Acknowledged(next, mcPast.minted + 1)
                     ELSE UNCHANGED <<mcToken, mcEx>> /\ Mints(mcPast.minted + 1)
    BY <1>6, <1>10 DEF AppRotates
  <2> HIDE DEF next
  <2>2. CASE c.ok
    <3>1. mcToken' \in {0, next.token} /\ (mcToken' # 0 => mcToken # 0) /\ mcEx' = mcEx
      BY <2>1, <2>2 DEF set_token, KeepListener
    <3> QED
      BY <1>8, <1>10, <2>1, <2>2, <3>1 DEF next
  <2>3. CASE ~c.ok
    BY <1>8, <2>1, <2>3 DEF next
  <2> QED
    BY <2>2, <2>3
<1> QED
  BY <1>5, <1>7, <1>9, <1>10

\* What a failed switch may leave: the file as it was, or switched with its token taken
\* back from the revoked ones.
LEMMA DoubtfulSwitch ==
  ASSUME McInv, mcFile.token # 0, NEW on \in BOOLEAN, NEW c \in EnabledCommits(mcFile, on), ~c.ok,
         Stored(c, [mcFile EXCEPT !.enabled = on]), InDoubt([mcFile EXCEPT !.enabled = on]),
         UNCHANGED <<mcKind, mcToken, mcEx>>, mcKind = "app" => on
  PROVE  McInv'
<1> DEFINE next == [mcFile EXCEPT !.enabled = on]
<1>1. mcFile \in McSettings /\ mcToken \in Nat
      /\ mcPast \in [minted : Nat, revoked : SUBSET Nat, replaced : SUBSET Nat]
  BY DEF McInv, McTypeOK
<1>2. next \in McSettings /\ next.token = mcFile.token /\ next.enabled = on
  BY <1>1 DEF McSettings
<1>3. /\ mcPast' \in [minted : Nat, revoked : SUBSET Nat, replaced : SUBSET Nat]
      /\ mcPast'.minted = mcPast.minted /\ mcPast'.revoked \subseteq mcPast.revoked
      /\ next.enabled => next.token \notin mcPast'.revoked
  BY InDoubtIs
<1>4. c.ok \in BOOLEAN /\ c.file \in {mcFile, next} /\ (c.ok => c.file = next)
  BY <1>1, SwitchIs
<1> HIDE DEF next
<1>6. /\ mcFile' = c.file /\ mcFile' \in McSettings /\ mcCache' \in McSettings
      /\ mcCache'.token # 0 => mcCache' = mcFile'
  BY <1>2, <1>4, StoredIs DEF next
<1>7. /\ mcFile.token <= mcPast.minted /\ (mcKind = "app" /\ mcToken # 0 => mcFile.enabled)
      /\ mcFile.enabled => mcFile.token # 0 /\ mcFile.token \notin mcPast.revoked
      /\ \A t \in mcPast.revoked : t <= mcPast.minted
      /\ mcToken # 0 => mcToken \notin mcPast.revoked
  BY DEF McInv, SettingsOwned, ListenerCurrent
<1>8. mcFile'.token = mcFile.token /\ mcFile'.enabled \in {mcFile.enabled, on}
  BY <1>2, <1>4, <1>6
<1>9. mcFile'.enabled => mcFile'.token # 0 /\ mcFile'.token \notin mcPast'.revoked
  <2>1. CASE mcFile.enabled
    BY <1>3, <1>7, <1>8, <2>1
  <2>2. CASE ~mcFile.enabled
    BY <1>2, <1>3, <1>8, <2>2
  <2> QED
    BY <2>1, <2>2
<1>10. SettingsOwned'
  BY <1>3, <1>6, <1>7, <1>8, <1>9 DEF SettingsOwned
<1>11. ListenerCurrent'
  BY <1>3, <1>7 DEF ListenerCurrent
<1> QED
  BY <1>1, <1>3, <1>6, <1>10, <1>11, SettingsStep

\* What a switch that was acknowledged leaves.
LEMMA SwitchedInv ==
  ASSUME McInv, mcFile.token # 0, NEW on \in BOOLEAN, NEW c \in EnabledCommits(mcFile, on), c.ok,
         Stored(c, [mcFile EXCEPT !.enabled = on]), mcKind' = mcKind, mcToken' \in Nat,
         mcPast' \in [minted : Nat, revoked : SUBSET Nat, replaced : SUBSET Nat],
         mcPast'.minted = mcPast.minted, \A t \in mcPast'.revoked : t <= mcPast.minted,
         on => mcFile.token \notin mcPast'.revoked,
         mcToken' # 0 => on /\ mcToken' \notin mcPast'.revoked,
         mcEx' = mcEx \/ mcEx' = [d \in Connections |-> ClosedConnection]
  PROVE  McInv'
<1> DEFINE next == [mcFile EXCEPT !.enabled = on]
<1>1. mcFile \in McSettings
  BY DEF McInv, McTypeOK
<1>2. next \in McSettings /\ next.token = mcFile.token /\ next.enabled = on
  BY <1>1 DEF McSettings
<1>3. c.ok \in BOOLEAN /\ c.file \in {mcFile, next} /\ (c.ok => c.file = next)
  BY <1>1, SwitchIs
<1> HIDE DEF next
<1>4. /\ mcFile' = next /\ mcFile' \in McSettings /\ mcCache' \in McSettings
      /\ mcCache'.token # 0 => mcCache' = mcFile'
  <2>1. Stored(c, next)
    BY DEF next
  <2> QED
    <3>1. c.file = next
      BY <1>3
    <3>2. mcFile' = next /\ mcCache' \in {next, NoSettings}
      BY <2>1, <3>1 DEF Stored, Snapshot
    <3>3. NoSettings \in McSettings /\ NoSettings.token = 0
      BY DEF NoSettings, McSettings
    <3> QED
      BY <1>2, <3>2, <3>3
<1>5. mcFile.token <= mcPast.minted
  BY DEF McInv, SettingsOwned
<1>6. SettingsOwned'
  BY <1>2, <1>4, <1>5 DEF SettingsOwned
<1>7. ListenerCurrent'
  BY DEF ListenerCurrent
<1> QED
  BY <1>4, <1>6, <1>7, SettingsStep

\* The daemon commits the switch, then brings its listener to it.
LEMMA DaemonSwitchInv ==
  ASSUME McInv, mcFile.token # 0, NEW on \in BOOLEAN, NEW l, l.s = mcFile, mcKind = "daemon",
         mcp_set_enabled(l, on), mcKind' = mcKind
  PROVE  McInv'
<1> DEFINE next == [mcFile EXCEPT !.enabled = on]
<1>1. PICK c \in EnabledCommits(mcFile, on) :
        /\ Stored(c, next)
        /\ IF c.ok THEN reconcile_listener(Served(next), l.cost) /\ Acknowledged(next, mcPast.minted)
                   ELSE InDoubt(next) /\ UNCHANGED <<mcToken, mcEx>>
  BY DEF mcp_set_enabled
<1>2. mcFile \in McSettings /\ mcPast.minted \in Nat /\ mcFile.token \in Nat
  BY DEF McInv, McTypeOK, McSettings
<1>3. next.token = mcFile.token /\ next.enabled = on
  BY <1>2 DEF McSettings
<1>4. CASE c.ok
  <2> HIDE DEF next
  <2>1. Served(next) \in {0, mcFile.token} /\ Served(next) \in Nat /\ (Served(next) # 0 => on)
    BY <1>2, <1>3 DEF Served
  <2>2. mcToken' \in {0, Served(next)}
        /\ (mcEx' = mcEx \/ mcEx' = [d \in Connections |-> ClosedConnection])
    BY <1>1, <1>4, <2>1, ReconcileIs
  <2>3. /\ mcPast' \in [minted : Nat, revoked : SUBSET Nat, replaced : SUBSET Nat]
        /\ mcPast'.minted = mcPast.minted
        /\ \A t \in mcPast'.revoked : t <= mcPast.minted
        /\ on => mcFile.token \notin mcPast'.revoked
    BY <1>1, <1>2, <1>3, <1>4, AcknowledgedIs
  <2>4. mcToken' \in Nat /\ (mcToken' # 0 => on /\ mcToken' \notin mcPast'.revoked)
    BY <2>1, <2>2, <2>3
  <2> QED
    BY <1>1, <1>4, <2>2, <2>3, <2>4, SwitchedInv DEF next
<1>5. CASE ~c.ok
  BY <1>1, <1>5, DoubtfulSwitch
<1> QED
  BY <1>4, <1>5

\* The App commits, then listens; a listener that already runs is left as it is.
LEMMA AppEnablesInv ==
  ASSUME McInv, mcFile.token # 0, NEW l, l.s = mcFile, mcKind = "app", AppEnables(l), mcKind' = mcKind
  PROVE  McInv'
<1> DEFINE next == [mcFile EXCEPT !.enabled = TRUE]
<1>1. PICK c \in EnabledCommits(mcFile, TRUE) :
        /\ Stored(c, next)
        /\ IF c.ok
           THEN /\ AppListens(next, l.cost)
                /\ mcPast' = [mcPast EXCEPT !.revoked = mcPast.revoked \ {next.token},
                                            !.replaced = (1..mcPast.minted) \ {next.token}]
           ELSE InDoubt(next) /\ UNCHANGED <<mcToken, mcEx>>
  BY DEF AppEnables
<1>2. /\ mcFile \in McSettings /\ mcPast.minted \in Nat /\ mcFile.token \in Nat /\ mcToken \in Nat
      /\ mcPast \in [minted : Nat, revoked : SUBSET Nat, replaced : SUBSET Nat]
  BY DEF McInv, McTypeOK, McSettings
<1>3. next.token = mcFile.token /\ next.enabled = TRUE
  BY <1>2 DEF McSettings
<1>4. CASE c.ok
  <2> HIDE DEF next
  <2>1. mcEx' = mcEx /\ mcToken' \in {0, mcToken, mcFile.token}
    BY <1>1, <1>3, <1>4 DEF AppListens, StartListener, KeepListener
  <2>2. mcPast' = [mcPast EXCEPT !.revoked = mcPast.revoked \ {mcFile.token},
                                 !.replaced = (1..mcPast.minted) \ {mcFile.token}]
    BY <1>1, <1>3, <1>4
  <2>3. /\ mcPast' \in [minted : Nat, revoked : SUBSET Nat, replaced : SUBSET Nat]
        /\ mcPast'.minted = mcPast.minted
        /\ mcPast'.revoked = mcPast.revoked \ {mcFile.token}
    <3>1. (1..mcPast.minted) \ {mcFile.token} \in SUBSET Nat
      BY <1>2
    <3> DEFINE rest == (1..mcPast.minted) \ {mcFile.token}
    <3> HIDE DEF rest
    <3>2. mcPast' = [mcPast EXCEPT !.revoked = mcPast.revoked \ {mcFile.token}, !.replaced = rest]
      BY <2>2 DEF rest
    <3> QED
      BY <1>2, <3>1, <3>2 DEF rest
  <2>4. /\ \A t \in mcPast'.revoked : t <= mcPast.minted
        /\ mcFile.token \notin mcPast'.revoked
        /\ mcToken' \in Nat /\ (mcToken' # 0 => mcToken' \notin mcPast'.revoked)
    BY <1>2, <2>1, <2>3 DEF McInv, SettingsOwned, ListenerCurrent
  <2> QED
    BY <1>1, <1>4, <2>1, <2>3, <2>4, SwitchedInv DEF next
<1>5. CASE ~c.ok
  BY <1>1, <1>5, DoubtfulSwitch
<1> QED
  BY <1>4, <1>5

\* The App stops listening before it commits that MCP is off.
LEMMA AppDisablesInv ==
  ASSUME McInv, mcFile.token # 0, NEW l, l.s = mcFile, mcKind = "app", AppDisables(l), mcKind' = mcKind
  PROVE  McInv'
<1> DEFINE next == [mcFile EXCEPT !.enabled = FALSE]
<1>1. PICK c \in EnabledCommits(mcFile, FALSE) :
        /\ StopListener /\ Stored(c, next)
        /\ IF c.ok THEN Acknowledged(next, mcPast.minted) ELSE UNCHANGED mcPast
  BY DEF AppDisables
<1>2. /\ mcFile \in McSettings /\ mcPast.minted \in Nat
      /\ mcPast \in [minted : Nat, revoked : SUBSET Nat, replaced : SUBSET Nat]
  BY DEF McInv, McTypeOK
<1>3. next \in McSettings /\ next.token = mcFile.token /\ ~next.enabled
  BY <1>2 DEF McSettings
<1>4. mcToken' = 0 /\ mcEx' = [d \in Connections |-> ClosedConnection]
  BY <1>1 DEF StopListener
<1>5. CASE c.ok
  <2> HIDE DEF next
  <2>1. /\ mcPast' \in [minted : Nat, revoked : SUBSET Nat, replaced : SUBSET Nat]
        /\ mcPast'.minted = mcPast.minted /\ \A t \in mcPast'.revoked : t <= mcPast.minted
    BY <1>1, <1>2, <1>5, AcknowledgedIs
  <2> QED
    BY <1>1, <1>4, <1>5, <2>1, SwitchedInv DEF next
<1>6. CASE ~c.ok
  <2>1. c.ok \in BOOLEAN /\ c.file \in {mcFile, next} /\ (c.ok => c.file = next)
    BY <1>2, SwitchIs
  <2> HIDE DEF next
  <2>2. /\ mcFile' = c.file /\ mcFile' \in McSettings /\ mcCache' \in McSettings
        /\ mcCache'.token # 0 => mcCache' = mcFile'
    BY <1>1, <1>3, <2>1, StoredIs
  <2>3. /\ mcFile.token <= mcPast.minted /\ (\A t \in mcPast.revoked : t <= mcPast.minted)
        /\ mcFile.enabled => mcFile.token # 0 /\ mcFile.token \notin mcPast.revoked
    BY DEF McInv, SettingsOwned
  <2>4. mcPast' = mcPast
    BY <1>1, <1>6
  <2>5. SettingsOwned' /\ ListenerCurrent'
    BY <1>3, <1>4, <2>1, <2>2, <2>3, <2>4 DEF SettingsOwned, ListenerCurrent
  <2> QED
    BY <1>2, <1>4, <2>2, <2>4, <2>5, SettingsStep
<1> QED
  BY <1>5, <1>6

\* Enabling and disabling MCP, in either edition, whatever of it fails.
LEMMA SetEnabledInv ==
  ASSUME McInv, McSetEnabled
  PROVE  McInv'
<1>1. mcKind' = mcKind /\ mcFile.token # 0
  BY DEF McSetEnabled
<1>2. PICK l \in read_settings, on \in BOOLEAN :
        \/ ReadRefused(l)
        \/ mcKind = "daemon" /\ mcp_set_enabled(l, on)
        \/ mcKind = "app" /\ AppEnables(l)
        \/ mcKind = "app" /\ AppDisables(l)
  BY Zenon DEF McSetEnabled
<1>3. l.s = mcFile
  BY ReadIsFile
<1>4. CASE ReadRefused(l)
  BY <1>1, <1>4 DEF ReadRefused, McInv, McTypeOK, SettingsOwned, ListenerCurrent, Honest
<1> QED
  BY <1>1, <1>2, <1>3, <1>4, DaemonSwitchInv, AppEnablesInv, AppDisablesInv

-----------------------------------------------------------------------------
(* Hosts, the App's Service and restarts.                                  *)

\* attach: the committed settings decide what is served.
LEMMA AttachInv ==
  ASSUME McInv, NEW host, attach(host)
  PROVE  McInv'
<1>1. /\ mcKind = "daemon" /\ UNCHANGED <<mcKind, mcFile, mcCache, mcPast>>
      /\ mcEx' = [c \in Connections |-> ClosedConnection]
  BY DEF attach
<1>2. PICK l \in read_settings : (l.s.enabled /\ mcToken' = l.s.token) \/ mcToken' = 0
  BY DEF attach
<1>3. l.s = mcFile
  BY ReadIsFile
<1>4. /\ mcFile \in McSettings /\ mcCache \in McSettings /\ mcFile.token \in Nat
      /\ mcPast \in [minted : Nat, revoked : SUBSET Nat, replaced : SUBSET Nat]
  BY DEF McInv, McTypeOK, McSettings
<1>5. mcToken' \in Nat /\ SettingsOwned' /\ ListenerCurrent'
  BY <1>1, <1>2, <1>3, <1>4 DEF McInv, SettingsOwned, ListenerCurrent
<1> QED
  BY <1>1, <1>4, <1>5, SettingsStep

\* The Service ends with its listener, and the process with everything but the file.
LEMMA EndsInv ==
  ASSUME McInv, SuspendListener \/ McRestart
  PROVE  McInv'
<1>1. NoSettings \in McSettings /\ NoSettings.token = 0
  BY DEF NoSettings, McSettings
<1>2. /\ mcToken' = 0 /\ mcCache' \in {mcCache, NoSettings} /\ UNCHANGED <<mcKind, mcFile, mcPast>>
      /\ mcEx' = [c \in Connections |-> ClosedConnection]
  BY DEF SuspendListener, McRestart, StopListener, mcSettings
<1>3. /\ mcFile \in McSettings /\ mcCache \in McSettings
      /\ mcPast \in [minted : Nat, revoked : SUBSET Nat, replaced : SUBSET Nat]
  BY DEF McInv, McTypeOK
<1>4. SettingsOwned' /\ ListenerCurrent'
  BY <1>1, <1>2 DEF McInv, SettingsOwned, ListenerCurrent
<1> QED
  BY <1>1, <1>2, <1>3, <1>4, SettingsStep

\* A client that binds the Service restores the listener of the committed settings.
LEMMA RestoreInv ==
  ASSUME McInv, RestoreListener
  PROVE  McInv'
<1>1. UNCHANGED <<mcKind, mcFile, mcPast>> /\ mcToken = 0
  BY DEF RestoreListener
<1>2. PICK l \in read_settings : l.s.enabled /\ AppListens(l.s, l.cost) /\ mcCache' = l.s
  BY DEF RestoreListener
<1>3. l.s = mcFile
  BY ReadIsFile
<1>4. /\ mcFile \in McSettings /\ mcFile.token \in Nat
      /\ mcPast \in [minted : Nat, revoked : SUBSET Nat, replaced : SUBSET Nat]
  BY DEF McInv, McTypeOK, McSettings
<1>5. mcToken' \in {0, mcFile.token} /\ mcEx' = mcEx
  BY <1>1, <1>2, <1>3 DEF AppListens, StartListener, KeepListener
<1>6. mcToken' \in Nat /\ SettingsOwned' /\ ListenerCurrent'
  BY <1>1, <1>2, <1>3, <1>4, <1>5 DEF McInv, SettingsOwned, ListenerCurrent
<1> QED
  BY <1>1, <1>2, <1>3, <1>4, <1>5, <1>6, SettingsStep

-----------------------------------------------------------------------------
(* The results.                                                            *)

\* A store that was never written, and no listener.
LEMMA McInitInv == McInit => McInv
<1> SUFFICES ASSUME McInit PROVE McInv
  OBVIOUS
<1>1. NoSettings \in McSettings /\ NoSettings.token = 0 /\ ~NoSettings.enabled
  BY DEF NoSettings, McSettings
<1>2. ClosedConnection \in Exchanges
  BY ClosedHonest DEF Honest
<1>3. /\ mcPast \in [minted : Nat, revoked : SUBSET Nat, replaced : SUBSET Nat]
      /\ mcPast.minted = 0 /\ mcPast.revoked = {}
  BY DEF McInit
<1>4. McTypeOK
  BY <1>1, <1>2, <1>3 DEF McInit, McTypeOK
<1>5. SettingsOwned /\ ListenerCurrent
  BY <1>1, <1>3 DEF McInit, SettingsOwned, ListenerCurrent
<1>6. \A c \in Connections : Honest(mcEx[c])
  BY ClosedHonest DEF McInit
<1> QED
  BY <1>4, <1>5, <1>6 DEF McInv

\* Every step keeps the invariant.
LEMMA McNextInv == McInv /\ [McNext]_mcVars => McInv'
<1> SUFFICES ASSUME McInv, [McNext]_mcVars PROVE McInv'
  OBVIOUS
<1>1. CASE UNCHANGED mcVars
  BY <1>1 DEF mcVars, McInv, McTypeOK, SettingsOwned, ListenerCurrent, Honest
<1>2. ASSUME NEW c \in Connections,
             \/ accept_loop(c) \/ respond(c) \/ Written(c) \/ Departs(c)
             \/ SlotGranted(c) \/ SlotWaitEnds(c) \/ on_host_thread(c)
      PROVE  McInv'
  BY <1>2, ConnectionInv, RespondInv, SlotInv, HostThreadInv
<1>3. ASSUME NEW host \in BOOLEAN, attach(host) PROVE McInv'
  BY <1>3, AttachInv
<1> QED
  BY <1>1, <1>2, <1>3, OrphanInv, FirstReadInv, RotateInv, SetEnabledInv, EndsInv, RestoreInv
     DEF McNext

\* The loopback MCP server keeps its inductive invariant for every number of
\* connections, permits, tokens and faults: what a listener accepts is a token the
\* settings file holds, or held when the listener was last brought to it, and no
\* acknowledged rotation or switch has revoked it.
THEOREM McpInductive == McSpec => []McInv
BY McInitInv, McNextInv, PTL DEF McSpec

\* Once a rotation or a disabling is acknowledged, no request that completes later with
\* a revoked token passes the checks of `handle`.
THEOREM RevokedRefused == McSpec => []RevokedTokenRefused
<1>1. McInv => RevokedTokenRefused
  BY DEF McInv, Honest, RevokedTokenRefused
<1> QED
  BY <1>1, McpInductive, PTL

\* An answer that invites the client to ask again belongs to a call that was not served.
THEOREM RetrySafe == McSpec => []RetryableNotServed
<1>1. McInv => RetryableNotServed
  BY DEF McInv, Honest, RetryableNotServed
<1> QED
  BY <1>1, McpInductive, PTL

-----------------------------------------------------------------------------
(***************************************************************************)
(* The walk over the resource pages.  A walk is told only the last         *)
(* artifact of the page before, so the invariant says what that tells: all *)
(* that was listed so far is no older, and all that is not older and was   *)
(* there from the beginning has been listed.                               *)
(***************************************************************************)
\* A sequence that lists the numbers of S, the greatest first.
Descending(s, S) ==
  /\ s \in [1..Cardinality(S) -> S]
  /\ \A i, j \in DOMAIN s : i < j => s[i] > s[j]

\* A finite set of numbers can be listed: the place of a number is how many are not less.
LEMMA ListingExists ==
  ASSUME NEW S \in SUBSET Nat, IsFiniteSet(S)
  PROVE  \E s : Descending(s, S)
<1> DEFINE n == Cardinality(S)
           Above(r) == {x \in S : x >= r}
           rank == [r \in S |-> Cardinality(Above(r))]
<1>1. n \in Nat /\ IsFiniteSet(1..n) /\ Cardinality(1..n) = n
  BY FS_CardinalityType, FS_Interval
<1>2. \A r \in S : /\ Above(r) \in SUBSET S /\ IsFiniteSet(Above(r))
                   /\ Cardinality(Above(r)) \in 1..n
  <2> TAKE r \in S
  <2>1. Above(r) \in SUBSET S /\ r \in Above(r)
    OBVIOUS
  <2>2. IsFiniteSet(Above(r)) /\ Cardinality(Above(r)) <= n
    BY <2>1, FS_Subset
  <2>3. Cardinality(Above(r)) \in Nat /\ Cardinality(Above(r)) # 0
    BY <2>1, <2>2, FS_CardinalityType, FS_EmptySet
  <2> QED
    BY <1>1, <2>1, <2>2, <2>3
<1>3. \A q, r \in S : q < r => rank[r] < rank[q]
  <2> SUFFICES ASSUME NEW q \in S, NEW r \in S, q < r
               PROVE  Cardinality(Above(r)) < Cardinality(Above(q))
    OBVIOUS
  <2>0. q \in Nat /\ r \in Nat /\ \A x \in S : x \in Nat
    OBVIOUS
  <2>1. Above(r) \in SUBSET Above(q) /\ q \in Above(q) /\ q \notin Above(r)
    <3>1. \A x \in S : x >= r => x >= q
      BY <2>0
    <3>2. q >= q /\ ~(q >= r)
      BY <2>0
    <3> QED
      BY <3>1, <3>2
  <2>2. Cardinality(Above(r)) <= Cardinality(Above(q)) /\ Cardinality(Above(q)) # Cardinality(Above(r))
    BY <1>2, <2>1, FS_Subset
  <2>3. Cardinality(Above(r)) \in Nat /\ Cardinality(Above(q)) \in Nat
    BY <1>2
  <2> QED
    BY <2>2, <2>3
<1>4. rank \in [S -> 1..n]
  BY <1>2
<1>5. rank \in Injection(S, 1..n)
  <2>1. \A q, r \in S : rank[q] \in Nat /\ rank[r] \in Nat /\ (q < r \/ r < q \/ q = r)
    BY <1>1, <1>4
  <2>2. \A q, r \in S : rank[q] = rank[r] => q = r
    BY <1>3, <2>1
  <2> QED
    BY <1>4, <2>2 DEF Injection, IsInjective
<1>6. rank \in Surjection(S, 1..n)
  BY <1>1, <1>5, FS_Injection
<1> DEFINE s == [i \in 1..n |-> CHOOSE r \in S : rank[r] = i]
<1>7. \A i \in 1..n : s[i] \in S /\ rank[s[i]] = i
  BY <1>6 DEF Surjection
<1> HIDE DEF rank
<1>8. s \in [1..n -> S]
  BY <1>7
<1>9. ASSUME NEW i \in 1..n, NEW j \in 1..n, i < j
      PROVE  s[i] > s[j]
  <2>1. s[i] \in Nat /\ s[j] \in Nat /\ rank[s[i]] = i /\ rank[s[j]] = j /\ s[i] \in S /\ s[j] \in S
    BY <1>7
  <2>2. s[i] # s[j] /\ ~(s[i] < s[j])
    BY <1>1, <1>3, <1>9, <2>1
  <2> QED
    BY <2>1, <2>2
<1>10. Descending(s, S)
  BY <1>8, <1>9 DEF Descending
<1> QED
  BY <1>10

\* The listing names every live artifact once, the newest first.
LEMMA ListingIs ==
  ASSUME rsLive \in SUBSET Nat, IsFiniteSet(rsLive)
  PROVE  /\ Listing \in Seq(rsLive) /\ Len(Listing) \in Nat
         /\ \A i \in 1..Len(Listing) : Listing[i] \in rsLive
         /\ \A i, j \in 1..Len(Listing) : i < j => Listing[i] > Listing[j]
         /\ \A r \in rsLive : \E i \in 1..Len(Listing) : Listing[i] = r
<1> DEFINE n == Cardinality(rsLive)
<1>1. PICK s : Descending(s, rsLive)
  BY ListingExists
<1>2. Listing \in [1..n -> rsLive] /\ \A i, j \in DOMAIN Listing : i < j => Listing[i] > Listing[j]
  BY <1>1 DEF Listing, Descending
<1>3. n \in Nat /\ IsFiniteSet(1..n) /\ Cardinality(1..n) = n
  BY FS_CardinalityType, FS_Interval
<1>4. Listing \in Seq(rsLive) /\ Len(Listing) = n /\ DOMAIN Listing = 1..n
  BY <1>2, <1>3
<1>5. Listing \in Injection(1..n, rsLive)
  <2>1. ASSUME NEW i \in 1..n, NEW j \in 1..n, Listing[i] = Listing[j] PROVE i = j
    <3>0. Listing[i] \in rsLive
      BY <1>2
    <3>1. Listing[i] \in Nat
      BY <3>0
    <3>2. i < j \/ j < i \/ i = j
      BY <1>3
    <3> QED
      BY <1>2, <1>4, <2>1, <3>1, <3>2
  <2> QED
    BY <1>2, <1>4, <2>1 DEF Injection, IsInjective
<1>6. Listing \in Surjection(1..n, rsLive)
  BY <1>3, <1>5, FS_Injection
<1> QED
  BY <1>2, <1>3, <1>4, <1>6 DEF Surjection

\* The least of two numbers.
LEMMA LeastOfTwo ==
  ASSUME NEW a \in Nat, NEW b \in Nat
  PROVE  Min({a, b}) = IF a <= b THEN a ELSE b
<1>1. {a, b} \in SUBSET Nat /\ {a, b} # {}
  OBVIOUS
<1>2. Min({a, b}) \in {a, b} /\ \A n \in {a, b} : Min({a, b}) <= n
  BY <1>1, LeastIs
<1> QED
  BY <1>2

\* Where a page begins, the artifacts older than its cursor begin.
LEMMA StartIs ==
  ASSUME rsLive \in SUBSET (Nat \ {0}), IsFiniteSet(rsLive), NEW c \in Nat, PageStart(c) # 0
  PROVE  /\ PageStart(c) \in 1..(Len(Listing) + 1)
         /\ \A i \in 1..Len(Listing) : i >= PageStart(c) <=> c = NoCursor \/ Listing[i] < c
<1> DEFINE L == Listing
           I == {i \in 1..Len(L) : L[i] = c}
<1>1. /\ L \in Seq(rsLive) /\ Len(L) \in Nat
      /\ \A i, j \in 1..Len(L) : i < j => L[i] > L[j]
      /\ \A i \in 1..Len(L) : L[i] \in Nat
  <2>1. rsLive \in SUBSET Nat
    OBVIOUS
  <2>2. /\ L \in Seq(rsLive) /\ Len(L) \in Nat
        /\ \A i \in 1..Len(L) : L[i] \in rsLive
        /\ \A i, j \in 1..Len(L) : i < j => L[i] > L[j]
    BY <2>1, ListingIs
  <2> QED
    BY <2>1, <2>2
<1> HIDE DEF L
<1>2. CASE c = NoCursor
  <2>1. PageStart(c) = 1
    BY <1>2 DEF PageStart
  <2> QED
    BY <1>1, <1>2, <2>1 DEF L
<1>3. CASE c # NoCursor
  <2>1. PageStart(c) = IF I = {} THEN 0 ELSE Min(I) + 1
    <3>1. I \in SUBSET Nat /\ 0 \notin I
      BY <1>1
    <3>2. SelectInSeq(Listing, LAMBDA r : r = c) = IF I # {} THEN Min(I) ELSE 0
      BY DEF SelectInSeq, L
    <3>3. PageStart(c) = LET at == SelectInSeq(Listing, LAMBDA r : r = c)
                         IN  IF at = 0 THEN 0 ELSE at + 1
      BY <1>3 DEF PageStart, mcp_resource_cursor_ref
    <3>4. CASE I = {}
      BY <3>2, <3>3, <3>4
    <3>5. CASE I # {}
      <4>1. Min(I) \in I
        BY <3>1, <3>5, LeastIs
      <4> QED
        BY <3>1, <3>2, <3>3, <3>5, <4>1
    <3> QED
      BY <3>4, <3>5
  <2>2. I # {} /\ I \in SUBSET Nat
    BY <1>1, <2>1
  <2>3. Min(I) \in 1..Len(L) /\ L[Min(I)] = c
    BY <2>2, LeastIs
  <2>4. \A i \in 1..Len(L) : i > Min(I) <=> L[i] < c
    <3> TAKE i \in 1..Len(L)
    <3>1. i < Min(I) \/ i = Min(I) \/ i > Min(I)
      BY <1>1, <2>3
    <3>2. L[i] \in Nat
      BY <1>1
    <3>3. CASE i < Min(I)
      BY <1>1, <2>3, <3>2, <3>3
    <3>4. CASE i > Min(I)
      BY <1>1, <2>3, <3>2, <3>4
    <3> QED
      BY <1>1, <2>3, <3>1, <3>2, <3>3, <3>4
  <2> HIDE DEF I
  <2>5. PageStart(c) = Min(I) + 1
    BY <2>1, <2>2
  <2> QED
    BY <1>1, <1>3, <2>3, <2>4, <2>5 DEF L
<1> QED
  BY <1>2, <1>3

\* A page lists the newest artifacts older than its cursor, and the next cursor is the
\* last of them, or none when they are all.
LEMMA PageIs ==
  ASSUME rsLive \in SUBSET (Nat \ {0}), IsFiniteSet(rsLive), NEW c \in Nat, PageStart(c) # 0,
         NEW page, page = PageFrom(PageStart(c)), NEW next, next = NextCursor(PageStart(c))
  PROVE  /\ page \in Seq(rsLive)
         /\ \A i \in 1..Len(page) : c = NoCursor \/ page[i] < c
         /\ \A i, j \in 1..Len(page) : i < j => page[i] > page[j]
         /\ next \in rsLive \cup {NoCursor} /\ (next = NoCursor \/ c = NoCursor \/ next < c)
         /\ \A i \in 1..Len(page) : next <= page[i]
         /\ \A r \in rsLive : (c = NoCursor \/ r < c) /\ r >= next => \E i \in 1..Len(page) : page[i] = r
<1> DEFINE L == Listing
           start == PageStart(c)
           last == Min({start + PageSize - 1, Len(L)})
<1>1. /\ L \in Seq(rsLive) /\ Len(L) \in Nat
      /\ \A i, j \in 1..Len(L) : i < j => L[i] > L[j]
      /\ \A i \in 1..Len(L) : L[i] \in Nat /\ L[i] \in rsLive /\ L[i] # 0
      /\ \A r \in rsLive : \E i \in 1..Len(L) : L[i] = r
  <2>1. rsLive \in SUBSET Nat
    OBVIOUS
  <2>2. /\ L \in Seq(rsLive) /\ Len(L) \in Nat
        /\ \A i \in 1..Len(L) : L[i] \in rsLive
        /\ \A i, j \in 1..Len(L) : i < j => L[i] > L[j]
        /\ \A r \in rsLive : \E i \in 1..Len(L) : L[i] = r
    BY <2>1, ListingIs
  <2>3. \A r \in rsLive : r \in Nat /\ r # 0
    OBVIOUS
  <2> QED
    BY <2>2, <2>3
<1>2. /\ start \in 1..(Len(L) + 1)
      /\ \A i \in 1..Len(L) : i >= start <=> c = NoCursor \/ L[i] < c
  BY StartIs
<1>3. page = SubSeq(L, start, last)
  BY DEF PageFrom
<1>4. next = IF start - 1 + Len(page) < Len(L) /\ page # <<>> THEN Last(page) ELSE NoCursor
  BY DEF NextCursor
<1> HIDE DEF L, start
<1>5. PageSize \in Nat /\ PageSize >= 1
  BY McpResourcesAssumption
<1>6. last = IF start + PageSize - 1 <= Len(L) THEN start + PageSize - 1 ELSE Len(L)
  <2>1. start + PageSize - 1 \in Nat /\ Len(L) \in Nat
    BY <1>1, <1>2, <1>5
  <2> QED
    BY <2>1, LeastOfTwo
<1> HIDE DEF last
<1>7. last \in Nat /\ start - 1 <= last /\ last <= Len(L) /\ (start <= last \/ last = Len(L))
  BY <1>1, <1>2, <1>5, <1>6
<1>8. /\ page \in Seq(rsLive) /\ Len(page) = last - start + 1
      /\ \A i \in 1..Len(page) : page[i] = L[start - 1 + i]
  <2>1. CASE start <= last
    BY <1>1, <1>2, <1>3, <1>7, <2>1, SubSeqProperties
  <2>2. CASE start > last
    <3>1. page = <<>> /\ last - start + 1 = 0
      BY <1>1, <1>2, <1>3, <1>7, <2>2, SubSeqProperties
    <3> QED
      BY <3>1
  <2> QED
    BY <1>2, <1>7, <2>1, <2>2
<1>9. \A i \in 1..Len(page) : start - 1 + i \in start..last
  BY <1>2, <1>7, <1>8
<1>10. \A k \in start..last : k \in 1..Len(L) /\ k - start + 1 \in 1..Len(page) /\ page[k - start + 1] = L[k]
  BY <1>1, <1>2, <1>7, <1>8
<1>11. \A i \in 1..Len(page) : c = NoCursor \/ page[i] < c
  <2> TAKE i \in 1..Len(page)
  <2>1. /\ start - 1 + i \in 1..Len(L) /\ start - 1 + i >= start
        /\ page[i] = L[start - 1 + i]
    BY <1>1, <1>2, <1>7, <1>8, <1>9
  <2> QED
    BY <1>2, <2>1
<1>12. \A i, j \in 1..Len(page) : i < j => page[i] > page[j]
  <2> SUFFICES ASSUME NEW i \in 1..Len(page), NEW j \in 1..Len(page), i < j
               PROVE  page[i] > page[j]
    OBVIOUS
  <2>1. /\ start - 1 + i \in 1..Len(L) /\ start - 1 + j \in 1..Len(L)
        /\ start - 1 + i < start - 1 + j
        /\ page[i] = L[start - 1 + i] /\ page[j] = L[start - 1 + j]
    BY <1>1, <1>2, <1>7, <1>8, <1>9
  <2> QED
    BY <1>1, <2>1
<1>13. CASE last < Len(L)
  <2>1. start <= last /\ page # <<>> /\ next = page[Len(page)] /\ next = L[last]
    <3>1. start <= last /\ Len(page) \in 1..Len(page) /\ start - 1 + Len(page) = last
      BY <1>1, <1>2, <1>7, <1>8, <1>13
    <3>2. page # <<>> /\ page[Len(page)] = L[last]
      BY <1>8, <3>1
    <3> QED
      BY <1>4, <1>13, <3>1, <3>2 DEF Last
  <2>2. next \in rsLive /\ next \in Nat /\ last \in 1..Len(L) /\ (c = NoCursor \/ next < c)
    BY <1>1, <1>2, <1>7, <2>1
  <2>3. \A i \in 1..Len(page) : next <= page[i]
    <3> TAKE i \in 1..Len(page)
    <3>1. start - 1 + i \in 1..Len(L) /\ start - 1 + i <= last /\ page[i] = L[start - 1 + i]
      BY <1>2, <1>7, <1>8, <1>9
    <3>2. L[start - 1 + i] \in Nat /\ L[last] \in Nat
      BY <1>1, <2>2, <3>1
    <3>3. start - 1 + i = last \/ start - 1 + i < last
      BY <1>2, <1>7, <3>1
    <3> QED
      BY <1>1, <2>1, <2>2, <3>1, <3>2, <3>3
  <2>4. ASSUME NEW r \in rsLive, c = NoCursor \/ r < c, r >= next
        PROVE  \E i \in 1..Len(page) : page[i] = r
    <3>1. PICK k \in 1..Len(L) : L[k] = r
      BY <1>1
    <3>2. k >= start
      BY <1>2, <2>4, <3>1
    <3>3. k <= last
      <4>1. ~(last < k)
        BY <1>1, <2>1, <2>2, <2>4, <3>1
      <4> QED
        BY <1>7, <4>1
    <3> QED
      BY <1>2, <1>7, <1>10, <3>1, <3>2, <3>3
  <2> QED
    BY <1>8, <1>11, <1>12, <2>2, <2>3, <2>4
<1>14. CASE last = Len(L)
  <2>1. next = NoCursor /\ next = 0
    BY <1>2, <1>4, <1>7, <1>8, <1>14 DEF NoCursor
  <2>2. \A i \in 1..Len(page) : next <= page[i]
    BY <1>1, <1>8, <1>9, <1>10, <2>1
  <2>3. ASSUME NEW r \in rsLive, c = NoCursor \/ r < c
        PROVE  \E i \in 1..Len(page) : page[i] = r
    <3>1. PICK k \in 1..Len(L) : L[k] = r
      BY <1>1
    <3>2. k \in start..last
      BY <1>1, <1>2, <1>7, <1>14, <2>3, <3>1
    <3> QED
      BY <1>10, <3>1, <3>2
  <2> QED
    BY <1>8, <1>11, <1>12, <2>1, <2>2, <2>3
<1> QED
  BY <1>1, <1>7, <1>13, <1>14

WalkStates == [at : {"idle", "walking", "done"}, cursor : Nat, seen : Seq(Nat), stays : SUBSET Nat,
               walks : Nat]

RsTypeOK ==
  /\ rsIssued \in SUBSET (1..Refs)
  /\ rsLive \in SUBSET rsIssued
  /\ rsWalk \in WalkStates
  /\ rsWalk.stays \in SUBSET rsLive

\* What the pages so far have listed, once each: nothing older than the cursor, and of
\* what stays all that is not older.
Paged ==
  /\ IsInjective(rsWalk.seen)
  /\ rsWalk.at = "walking" =>
       IF rsWalk.cursor = NoCursor THEN rsWalk.seen = <<>>
       ELSE /\ \A i \in 1..Len(rsWalk.seen) : rsWalk.seen[i] >= rsWalk.cursor
            /\ \A r \in rsWalk.stays : r >= rsWalk.cursor => r \in ToSet(rsWalk.seen)
  /\ rsWalk.at = "done" => rsWalk.stays \subseteq ToSet(rsWalk.seen)

RsInv == RsTypeOK /\ Paged

\* Two sequences without repetitions, all of the first above all of the second.
LEMMA InjectiveJoined ==
  ASSUME NEW s \in Seq(Nat), NEW t \in Seq(Nat), IsInjective(s),
         \A i, j \in 1..Len(t) : i < j => t[i] > t[j],
         \A i \in 1..Len(s), j \in 1..Len(t) : s[i] > t[j]
  PROVE  IsInjective(s \o t)
<1>1. /\ s \o t \in Seq(Nat) /\ Len(s \o t) = Len(s) + Len(t)
      /\ \A i \in 1..Len(s) : (s \o t)[i] = s[i]
      /\ \A i \in 1..Len(t) : (s \o t)[Len(s) + i] = t[i]
      /\ DOMAIN (s \o t) = 1..(Len(s) + Len(t)) /\ DOMAIN s = 1..Len(s)
      /\ Len(s) \in Nat /\ Len(t) \in Nat
  BY ConcatProperties
<1> DEFINE u == s \o t
<1> HIDE DEF u
<1>2. \A i \in 1..Len(t) : t[i] \in Nat
  OBVIOUS
<1>3. \A i \in 1..Len(s) : s[i] \in Nat
  OBVIOUS
<1>4. ASSUME NEW a \in DOMAIN u, NEW b \in DOMAIN u, a < b
      PROVE  u[a] # u[b]
  <2>0. a \in 1..(Len(s) + Len(t)) /\ b \in 1..(Len(s) + Len(t))
    BY <1>1 DEF u
  <2>1. CASE b <= Len(s)
    <3>1. a \in 1..Len(s) /\ b \in 1..Len(s) /\ u[a] = s[a] /\ u[b] = s[b] /\ a # b
      BY <1>1, <1>4, <2>1 DEF u
    <3> QED
      BY <1>1, <3>1 DEF IsInjective
  <2>2. CASE a > Len(s)
    <3>1. /\ a - Len(s) \in 1..Len(t) /\ b - Len(s) \in 1..Len(t) /\ a - Len(s) < b - Len(s)
          /\ a = Len(s) + (a - Len(s)) /\ b = Len(s) + (b - Len(s))
      <4>1. ASSUME NEW m \in Nat, NEW k \in Nat, NEW x \in 1..(m + k), x > m
            PROVE  x - m \in 1..k /\ x = m + (x - m)
        BY <4>1
      <4>2. b > Len(s) /\ a \in Int /\ b \in Int
        BY <1>1, <1>4, <2>0, <2>2
      <4>3. a - Len(s) \in 1..Len(t) /\ a = Len(s) + (a - Len(s))
        BY <1>1, <2>0, <2>2, <4>1
      <4>4. b - Len(s) \in 1..Len(t) /\ b = Len(s) + (b - Len(s))
        BY <1>1, <2>0, <4>1, <4>2
      <4> QED
        BY <1>1, <1>4, <4>2, <4>3, <4>4
    <3>2. u[a] = t[a - Len(s)] /\ u[b] = t[b - Len(s)]
      BY <1>1, <3>1 DEF u
    <3>3. t[a - Len(s)] > t[b - Len(s)] /\ t[a - Len(s)] \in Nat /\ t[b - Len(s)] \in Nat
      BY <1>2, <3>1
    <3> QED
      BY <3>2, <3>3
  <2>3. CASE a <= Len(s) /\ b > Len(s)
    <3>1. a \in 1..Len(s) /\ b - Len(s) \in 1..Len(t) /\ b = Len(s) + (b - Len(s))
      BY <1>1, <1>4, <2>3 DEF u
    <3>2. u[a] = s[a] /\ u[b] = t[b - Len(s)]
      BY <1>1, <3>1 DEF u
    <3>3. s[a] > t[b - Len(s)] /\ s[a] \in Nat /\ t[b - Len(s)] \in Nat
      BY <1>2, <1>3, <3>1
    <3> QED
      BY <3>2, <3>3
  <2>4. a \in Int /\ b \in Int
    BY <1>1 DEF u
  <2> QED
    BY <1>1, <1>4, <2>1, <2>2, <2>3, <2>4
<1>5. \A a, b \in DOMAIN u : a < b \/ b < a \/ a = b
  BY <1>1 DEF u
<1> QED
  BY <1>4, <1>5 DEF IsInjective, u

\* What two sequences list together.
LEMMA JoinedSet ==
  ASSUME NEW s \in Seq(Nat), NEW t \in Seq(Nat), NEW r, r \in ToSet(s) \/ \E i \in 1..Len(t) : t[i] = r
  PROVE  r \in ToSet(s \o t)
<1>1. /\ s \o t \in Seq(Nat)
      /\ \A i \in 1..Len(s) : (s \o t)[i] = s[i]
      /\ \A i \in 1..Len(t) : (s \o t)[Len(s) + i] = t[i]
      /\ DOMAIN (s \o t) = 1..(Len(s) + Len(t)) /\ DOMAIN s = 1..Len(s)
      /\ Len(s) \in Nat /\ Len(t) \in Nat
  BY ConcatProperties
<1> DEFINE u == s \o t
<1> HIDE DEF u
<1>2. CASE r \in ToSet(s)
  <2>1. PICK i \in 1..Len(s) : s[i] = r
    BY <1>1, <1>2 DEF ToSet
  <2>2. i \in DOMAIN u /\ u[i] = r
    BY <1>1, <2>1 DEF u
  <2> QED
    BY <2>2 DEF ToSet, u
<1>3. CASE \E i \in 1..Len(t) : t[i] = r
  <2>1. PICK i \in 1..Len(t) : t[i] = r
    BY <1>3
  <2>2. Len(s) + i \in DOMAIN u /\ u[Len(s) + i] = r
    BY <1>1, <2>1 DEF u
  <2> QED
    BY <2>2 DEF ToSet, u
<1> QED
  BY <1>2, <1>3

\* A page keeps what the walk has listed.
LEMMA ListKeeps ==
  ASSUME RsInv, list_resources
  PROVE  RsInv'
<1> DEFINE w == rsWalk
           start == PageStart(w.cursor)
           page == PageFrom(start)
           next == NextCursor(start)
<1>1. /\ w.at = "walking" /\ start # 0 /\ UNCHANGED <<rsIssued, rsLive>>
      /\ rsWalk' = [w EXCEPT !.seen = @ \o page, !.cursor = next,
                             !.at = IF next = NoCursor THEN "done" ELSE @]
  BY DEF list_resources
<1>2. w \in WalkStates /\ w.cursor \in Nat /\ w.seen \in Seq(Nat) /\ w.stays \in SUBSET rsLive
  BY DEF RsInv, RsTypeOK, WalkStates
<1>3. rsLive \in SUBSET (Nat \ {0}) /\ IsFiniteSet(rsLive)
  <2>1. rsLive \in SUBSET (1..Refs) /\ Refs \in Nat
    BY McpResourcesAssumption DEF RsInv, RsTypeOK
  <2>2. IsFiniteSet(1..Refs) /\ 1..Refs \subseteq Nat \ {0}
    BY <2>1, FS_Interval
  <2> QED
    BY <2>1, <2>2, FS_Subset
<1>4. /\ page \in Seq(rsLive)
      /\ \A i \in 1..Len(page) : w.cursor = NoCursor \/ page[i] < w.cursor
      /\ \A i, j \in 1..Len(page) : i < j => page[i] > page[j]
      /\ next \in rsLive \cup {NoCursor}
      /\ next = NoCursor \/ w.cursor = NoCursor \/ next < w.cursor
      /\ \A i \in 1..Len(page) : next <= page[i]
      /\ \A r \in rsLive : (w.cursor = NoCursor \/ r < w.cursor) /\ r >= next
           => \E i \in 1..Len(page) : page[i] = r
  BY <1>1, <1>2, <1>3, PageIs
<1> HIDE DEF page, next, start
<1>5. page \in Seq(Nat) /\ next \in Nat /\ \A i \in 1..Len(page) : page[i] \in Nat
  <2>1. rsLive \subseteq Nat /\ next \in Nat
    BY <1>3, <1>4 DEF NoCursor
  <2>2. page \in [1..Len(page) -> rsLive] /\ Len(page) \in Nat
    BY <1>4
  <2>3. page \in [1..Len(page) -> Nat]
    BY <2>1, <2>2
  <2> QED
    BY <2>1, <2>2, <2>3
<1>6. w.seen \o page \in Seq(Nat)
  BY <1>2, <1>5
<1>7. /\ rsWalk'.seen = w.seen \o page /\ rsWalk'.cursor = next /\ rsWalk'.stays = w.stays
      /\ rsWalk'.at = (IF next = NoCursor THEN "done" ELSE "walking") /\ rsWalk'.walks = w.walks
      /\ rsWalk' \in WalkStates
  BY <1>1, <1>2, <1>5, <1>6 DEF WalkStates
<1>8. /\ IsInjective(w.seen)
      /\ w.cursor = NoCursor => w.seen = <<>>
      /\ w.cursor # NoCursor =>
           /\ \A i \in 1..Len(w.seen) : w.seen[i] >= w.cursor
           /\ \A r \in w.stays : r >= w.cursor => r \in ToSet(w.seen)
  BY <1>1 DEF RsInv, Paged
<1>9. \A i \in 1..Len(w.seen) : w.seen[i] \in Nat
  BY <1>2
<1>10. \A i \in 1..Len(w.seen), j \in 1..Len(page) : w.seen[i] > page[j]
  <2>1. CASE w.cursor = NoCursor
    BY <1>8, <2>1
  <2>2. CASE w.cursor # NoCursor
    <3> TAKE i \in 1..Len(w.seen), j \in 1..Len(page)
    <3>1. w.seen[i] >= w.cursor /\ page[j] < w.cursor
      BY <1>4, <1>8, <2>2
    <3>2. w.seen[i] \in Nat /\ page[j] \in Nat
      BY <1>5, <1>9
    <3> QED
      BY <1>2, <3>1, <3>2
  <2> QED
    BY <2>1, <2>2
<1>11. IsInjective(rsWalk'.seen)
  BY <1>2, <1>4, <1>5, <1>7, <1>8, <1>10, InjectiveJoined
<1>12. \A r \in w.stays : r >= next => r \in ToSet(w.seen \o page)
  <2> TAKE r \in w.stays
  <2> SUFFICES ASSUME r >= next PROVE r \in ToSet(w.seen) \/ \E i \in 1..Len(page) : page[i] = r
    BY <1>2, <1>5, JoinedSet
  <2>1. r \in rsLive /\ r \in Nat
    BY <1>2, <1>3
  <2>2. CASE w.cursor = NoCursor \/ r < w.cursor
    BY <1>4, <2>1, <2>2
  <2>3. CASE w.cursor # NoCursor /\ r >= w.cursor
    BY <1>8, <2>3
  <2> QED
    BY <1>2, <2>1, <2>2, <2>3
<1>13. next # NoCursor => \A i \in 1..Len(w.seen \o page) : (w.seen \o page)[i] >= next
  <2> SUFFICES ASSUME next # NoCursor, NEW i \in 1..Len(w.seen \o page)
               PROVE  (w.seen \o page)[i] >= next
    OBVIOUS
  <2>1. /\ Len(w.seen \o page) = Len(w.seen) + Len(page)
        /\ \A k \in 1..Len(w.seen) : (w.seen \o page)[k] = w.seen[k]
        /\ \A k \in 1..Len(page) : (w.seen \o page)[Len(w.seen) + k] = page[k]
        /\ Len(w.seen) \in Nat /\ Len(page) \in Nat
    BY <1>2, <1>5, ConcatProperties
  <2>2. CASE i > Len(w.seen)
    <3>1. i - Len(w.seen) \in 1..Len(page) /\ i = Len(w.seen) + (i - Len(w.seen))
      BY <2>1, <2>2
    <3>2. (w.seen \o page)[i] = page[i - Len(w.seen)]
      BY <2>1, <3>1
    <3> QED
      BY <1>4, <1>5, <3>1, <3>2
  <2>3. CASE i <= Len(w.seen)
    <3>1. i \in 1..Len(w.seen) /\ (w.seen \o page)[i] = w.seen[i]
      BY <2>1, <2>3
    <3>2. w.cursor # NoCursor
      <4>1. CASE w.cursor = NoCursor
        BY <1>8, <3>1, <4>1
      <4> QED
        BY <4>1
    <3>3. next < w.cursor /\ w.seen[i] >= w.cursor /\ w.seen[i] \in Nat
      BY <1>4, <1>8, <1>9, <3>1, <3>2
    <3> QED
      BY <1>2, <1>5, <3>1, <3>3
  <2> QED
    BY <2>1, <2>2, <2>3
<1>14. Paged'
  <2>1. rsWalk'.at = "done" => rsWalk'.stays \subseteq ToSet(rsWalk'.seen)
    <3> SUFFICES ASSUME rsWalk'.at = "done", NEW r \in w.stays PROVE r \in ToSet(w.seen \o page)
      BY <1>7
    <3>1. next = 0 /\ r \in Nat
      BY <1>2, <1>3, <1>7 DEF NoCursor
    <3> QED
      BY <1>12, <3>1
  <2> QED
    BY <1>7, <1>11, <1>12, <1>13, <2>1 DEF Paged
<1>15. RsTypeOK'
  BY <1>1, <1>2, <1>7 DEF RsInv, RsTypeOK
<1> QED
  BY <1>14, <1>15 DEF RsInv

\* The manifest grows and shrinks beside the walk; what goes, no longer stays.
LEMMA ManifestKeeps ==
  ASSUME RsInv, NEW r \in 1..Refs, PublishRef(r) \/ DropRef(r)
  PROVE  RsInv'
<1>1. CASE PublishRef(r)
  BY <1>1 DEF RsInv, RsTypeOK, Paged, PublishRef
<1>2. CASE DropRef(r)
  <2>1. /\ rsWalk' = [rsWalk EXCEPT !.stays = @ \ {r}] /\ rsWalk \in WalkStates
        /\ rsLive' = rsLive \ {r} /\ rsIssued' = rsIssued
    BY <1>2 DEF RsInv, RsTypeOK, DropRef
  <2>2. /\ rsWalk' \in WalkStates /\ rsWalk'.at = rsWalk.at /\ rsWalk'.cursor = rsWalk.cursor
        /\ rsWalk'.seen = rsWalk.seen /\ rsWalk'.stays = rsWalk.stays \ {r}
    BY <2>1 DEF WalkStates
  <2>3. RsTypeOK'
    BY <2>1, <2>2 DEF RsInv, RsTypeOK
  <2>4. Paged'
    BY <2>2 DEF RsInv, Paged
  <2> QED
    BY <2>3, <2>4 DEF RsInv
<1> QED
  BY <1>1, <1>2

\* A walk begins with nothing listed, also after its cursor was refused.
LEMMA WalkBegins ==
  ASSUME RsInv, InvalidCursor \/ StartWalk
  PROVE  RsInv'
<1>1. IsInjective(<<>>) /\ <<>> \in Seq(Nat)
  BY DEF IsInjective
<1>2. rsWalk.walks \in Nat /\ rsLive \in SUBSET Nat
  <2>1. rsLive \in SUBSET (1..Refs) /\ 1..Refs \subseteq Nat
    BY McpResourcesAssumption DEF RsInv, RsTypeOK
  <2> QED
    BY <2>1 DEF RsInv, RsTypeOK, WalkStates
<1>3. CASE InvalidCursor
  <2>1. /\ rsWalk' = [at |-> "idle", cursor |-> 0, seen |-> <<>>, stays |-> {}, walks |-> rsWalk.walks]
        /\ UNCHANGED <<rsIssued, rsLive>>
    BY <1>3 DEF InvalidCursor, NoWalk, NoCursor
  <2> QED
    BY <1>1, <1>2, <2>1 DEF RsInv, RsTypeOK, WalkStates, Paged
<1>4. CASE StartWalk
  <2>1. /\ rsWalk' = [at |-> "walking", cursor |-> 0, seen |-> <<>>, stays |-> rsLive,
                      walks |-> rsWalk.walks + 1]
        /\ UNCHANGED <<rsIssued, rsLive>>
    BY <1>4 DEF StartWalk, NoCursor
  <2> QED
    BY <1>1, <1>2, <2>1 DEF RsInv, RsTypeOK, WalkStates, Paged, NoCursor
<1> QED
  BY <1>3, <1>4

\* The invariant of the walk holds in every state, whatever is published, expires or is
\* evicted between the pages of answer_mcp_query.
THEOREM WalkInductive == RsSpec => []RsInv
<1>1. RsInit => RsInv
  <2>1. IsInjective(<<>>) /\ <<>> \in Seq(Nat)
    BY DEF IsInjective
  <2> QED
    BY <2>1 DEF RsInit, NoWalk, NoCursor, RsInv, RsTypeOK, WalkStates, Paged
<1>2. RsInv /\ [RsNext]_rsVars => RsInv'
  <2> SUFFICES ASSUME RsInv, [RsNext]_rsVars PROVE RsInv'
    OBVIOUS
  <2>1. CASE UNCHANGED rsVars
    BY <2>1 DEF rsVars, RsInv, RsTypeOK, Paged
  <2> QED
    BY <2>1, ManifestKeeps, ListKeeps, WalkBegins DEF RsNext
<1> QED
  BY <1>1, <1>2, PTL DEF RsSpec

\* A client that follows the cursors of list_resources to the end has listed everything
\* that was there throughout, and nothing twice.
THEOREM WalksComplete == RsSpec => []WalkComplete
<1>1. RsInv => WalkComplete
  BY DEF RsInv, Paged, WalkComplete
<1> QED
  BY <1>1, WalkInductive, PTL
=============================================================================
