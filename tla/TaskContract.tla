---------------------------- MODULE TaskContract ----------------------------
(***************************************************************************)
(* What a Task promises to its client, whatever threads, crashes and disk  *)
(* faults stand behind it:                                                 *)
(*   - its process is started at most once, and only while it is running;  *)
(*   - it completes only after its process ran, and it completes, fails or *)
(*     is cancelled only when nothing of it is alive any more;             *)
(*   - it is cancelled only when somebody asked for it;                    *)
(*   - what cannot be known after a lost host or an unverified cleanup is  *)
(*     recorded as an interruption, and a recorded end never changes.      *)
(***************************************************************************)
CONSTANT Tasks

VARIABLES status,   \* [Tasks -> "absent", "queued", "running" or an end]
          asked,    \* the Tasks somebody asked to cancel
          ran,      \* the Tasks whose process was started
          live      \* the Tasks whose process may be alive

vars == <<status, asked, ran, live>>

Open(t) == status[t] \in {"queued", "running"}

Init == /\ status = [t \in Tasks |-> "absent"]
        /\ asked = {} /\ ran = {} /\ live = {}

Admit(t) == /\ status[t] = "absent"
            /\ status' = [status EXCEPT ![t] = "queued"]
            /\ UNCHANGED <<asked, ran, live>>

Start(t) == /\ status[t] = "queued"
            /\ status' = [status EXCEPT ![t] = "running"]
            /\ UNCHANGED <<asked, ran, live>>

Ask(t) == /\ status[t] = "running"
          /\ asked' = asked \cup {t}
          /\ UNCHANGED <<status, ran, live>>

Begin(t) == /\ status[t] = "running" /\ t \notin ran
            /\ ran' = ran \cup {t} /\ live' = live \cup {t}
            /\ UNCHANGED <<status, asked>>

\* Processes end: one when its guard reaps it, all of them when the device reboots.
Stop(S) == /\ S \subseteq live /\ live' = live \ S
           /\ UNCHANGED <<status, asked, ran>>

Complete(t) == /\ status[t] = "running" /\ t \in ran /\ t \notin live
               /\ status' = [status EXCEPT ![t] = "completed"]
               /\ UNCHANGED <<asked, ran, live>>

Fail(t) == /\ Open(t) /\ t \notin live
           /\ status' = [status EXCEPT ![t] = "failed"]
           /\ UNCHANGED <<asked, ran, live>>

\* A queued Task is asked and cancelled at once; a running one was asked before.
Cancel(t) == /\ Open(t) /\ t \notin live
             /\ status[t] = "running" => t \in asked
             /\ status' = [status EXCEPT ![t] = "cancelled"]
             /\ asked' = asked \cup {t}
             /\ UNCHANGED <<ran, live>>

Interrupt(S) == /\ \A t \in S : Open(t)
                /\ status' = [t \in Tasks |-> IF t \in S THEN "interrupted" ELSE status[t]]
                /\ UNCHANGED <<asked, ran, live>>

Next == \/ \E t \in Tasks : Admit(t) \/ Start(t) \/ Ask(t) \/ Begin(t)
                            \/ Complete(t) \/ Fail(t) \/ Cancel(t)
        \/ \E S \in SUBSET Tasks : Stop(S) \/ Interrupt(S)

Spec == Init /\ [][Next]_vars
=============================================================================
