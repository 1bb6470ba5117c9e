--------------------------- MODULE TaskLifecycle ---------------------------
(***************************************************************************)
(* The Task state machine of domain/task.rs as pure operators.  A          *)
(* lifecycle is any record with the fields "state" and "cancel"; an event  *)
(* is a record [type, cleanup], where "cleanup" is the cleanup_verified    *)
(* field the settling events carry.  Every caller passes                   *)
(* postcondition_verified = true, so that field is left out.               *)
(***************************************************************************)

Terminal == {"completed", "failed", "cancelled", "interrupted"}

TaskState == {"absent", "created", "queued", "running"} \cup Terminal

IsTerminal(lc) == lc.state \in Terminal

\* TaskLifecycle::new
NewLifecycle == [state |-> "created", cancel |-> FALSE]

TaskEvent == [type : {"Queue", "Start", "Complete", "Fail", "RequestCancel",
                      "SettleCancellation", "HostLost"},
              cleanup : BOOLEAN]

Event(type) == [type |-> type, cleanup |-> TRUE]

\* The events TaskLifecycle::apply accepts; it answers every other with an error.
Legal(lc, ev) ==
    IF IsTerminal(lc)
      THEN ev.type = "RequestCancel"
      ELSE \/ ev.type = "Queue" /\ lc.state = "created"
           \/ ev.type = "Start" /\ lc.state = "queued"
           \/ ev.type = "Complete" /\ lc.state = "running"
           \/ ev.type = "SettleCancellation" /\ lc.cancel
           \/ ev.type \in {"Fail", "RequestCancel", "HostLost"}

\* Mutant: a settled cancellation is given a state that is not a Task's.
Selects_Cancelling == [Queue |-> "queued", Start |-> "running", Complete |-> "completed",
                       Fail |-> "failed", SettleCancellation |-> "cancelling",
                       HostLost |-> "interrupted"]

\* The state each event selects.
Selects == [Queue |-> "queued", Start |-> "running", Complete |-> "completed",
            Fail |-> "failed", SettleCancellation |-> "cancelled",
            HostLost |-> "interrupted"]

\* The lifecycle after a legal event.  Unverified cleanup is always an interruption; a
\* request to cancel is only recorded, and not any more on a terminal Task.
After(lc, ev) ==
    IF ev.type = "RequestCancel"
      THEN IF IsTerminal(lc) THEN lc ELSE [lc EXCEPT !.cancel = TRUE]
      ELSE [lc EXCEPT !.state = IF ev.cleanup THEN Selects[ev.type] ELSE "interrupted"]
=============================================================================
