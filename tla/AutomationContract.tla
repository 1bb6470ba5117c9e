------------------------- MODULE AutomationContract -------------------------
(***************************************************************************)
(* What an Automation and its executions promise to their owner, whatever  *)
(* tool calls, drivers, failed writes and crashes stand behind it:         *)
(*   - an Automation has at most one execution at a time, and admits none  *)
(*     before it is created and none after it is removed;                  *)
(*   - an execution calls one child Task at a time, only while it runs,    *)
(*     and it ends, except with its host, only when it waits for none; it  *)
(*     leaves a child behind only if somebody else asked for that child's  *)
(*     cancellation, or if something failed;                               *)
(*   - an execution that never started can only be cancelled, and one that *)
(*     runs is cancelled only when somebody asked for it;                  *)
(*   - an end never changes, it frees the Automation in the same step, and *)
(*     a removed Automation is gone with its last execution;               *)
(*   - what a lost host left open is interrupted before anything else.     *)
(***************************************************************************)
EXTENDS Naturals

CONSTANTS Autos, Execs,
          None  \* no execution

VARIABLES status,   \* [Execs -> "absent", "queued", "running" or an end]
          asked,    \* the executions somebody asked to cancel
          call,     \* [Execs -> its child Task: "none", "active", "asked" to be cancelled by
                    \* somebody else, or "left" behind]
          active,   \* [Autos -> its execution that is not over, or None]
          life,     \* [Autos -> "unborn", "visible", "deleted" (with its last execution), "gone"]
          up,       \* whether there is a host
          faults    \* how often something failed

visible == <<status, asked, call, active, life, up>>
vars    == <<visible, faults>>

Ends    == {"completed", "failed", "cancelled", "interrupted"}
Open(e) == status[e] \in {"queued", "running"}

Init == /\ status = [e \in Execs |-> "absent"]
        /\ asked = {} /\ call = [e \in Execs |-> "none"]
        /\ active = [a \in Autos |-> None]
        /\ life = [a \in Autos |-> "unborn"]
        /\ up = FALSE /\ faults = 0

Create(a) == /\ up /\ life[a] = "unborn"
             /\ life' = [life EXCEPT ![a] = "visible"]
             /\ UNCHANGED <<status, asked, call, active, up>>

Remove(a) == /\ up /\ life[a] = "visible"
             /\ life' = [life EXCEPT ![a] = IF active[a] = None THEN "gone" ELSE "deleted"]
             /\ UNCHANGED <<status, asked, call, active, up>>

Admit(a, e) == /\ up /\ life[a] = "visible" /\ active[a] = None /\ status[e] = "absent"
               /\ status' = [status EXCEPT ![e] = "queued"]
               /\ active' = [active EXCEPT ![a] = e]
               /\ UNCHANGED <<asked, call, life, up>>

Start(e) == /\ up /\ status[e] = "queued"
            /\ status' = [status EXCEPT ![e] = "running"]
            /\ UNCHANGED <<asked, call, active, life, up>>

Ask(e) == /\ up /\ status[e] = "running"
          /\ asked' = asked \cup {e}
          /\ UNCHANGED <<status, call, active, life, up>>

Call(e) == /\ up /\ status[e] = "running" /\ call[e] \in {"none", "left"}
           /\ call' = [call EXCEPT ![e] = "active"]
           /\ UNCHANGED <<status, asked, active, life, up>>

\* Somebody else asks for the child's cancellation.
AskChild(e) == /\ up /\ call[e] = "active"
               /\ call' = [call EXCEPT ![e] = "asked"]
               /\ UNCHANGED <<status, asked, active, life, up>>

\* The child has ended.
Return(e) == /\ up /\ call[e] # "none"
             /\ call' = [call EXCEPT ![e] = "none"]
             /\ UNCHANGED <<status, asked, active, life, up>>

\* The child is not waited for any more.
Leave(e) == /\ up
            /\ call[e] = "asked" \/ (call[e] = "active" /\ faults' > faults)
            /\ call' = [call EXCEPT ![e] = "left"]
            /\ UNCHANGED <<status, asked, active, life, up>>

\* The Automations of the executions E are free again, and gone if they were removed.
Frees(E) == /\ active' = [a \in Autos |-> IF active[a] \in E THEN None ELSE active[a]]
            /\ life' = [a \in Autos |-> IF active[a] \in E /\ life[a] = "deleted" THEN "gone"
                                                                               ELSE life[a]]

End(e, how) == /\ up /\ Open(e) /\ call[e] \in {"none", "left"}
               /\ status[e] = "queued" => how = "cancelled"
               /\ status[e] = "running" /\ how = "cancelled" => e \in asked
               /\ status' = [status EXCEPT ![e] = how]
               /\ asked' = IF how = "cancelled" THEN asked \cup {e} ELSE asked
               /\ Frees({e})
               /\ UNCHANGED <<call, up>>

Lose == /\ up /\ up' = FALSE /\ call' = [e \in Execs |-> "none"]
        /\ UNCHANGED <<status, asked, active, life>>

Recover == /\ ~up /\ up' = TRUE
           /\ status' = [e \in Execs |-> IF Open(e) THEN "interrupted" ELSE status[e]]
           /\ Frees({e \in Execs : Open(e)})
           /\ UNCHANGED <<asked, call>>

Step == \/ \E a \in Autos : Create(a) \/ Remove(a) \/ \E e \in Execs : Admit(a, e)
        \/ \E e \in Execs : Start(e) \/ Ask(e)
                            \/ Call(e) \/ AskChild(e) \/ Return(e) \/ Leave(e)
                            \/ \E how \in Ends : End(e, how)
        \/ Lose \/ Recover

\* A failure goes with a step, or with none that is seen.
Next == /\ Step \/ UNCHANGED visible
        /\ faults' >= faults

Spec == Init /\ [][Next]_vars
=============================================================================
