------------------------ MODULE RequestStateMachine ------------------------
(***************************************************************************)
(* The request state machine of domain/state_machine.py and the two        *)
(* enumerations it is about (domain/enums.py).  Statuses are the strings   *)
(* the source stores in the database.                                      *)
(***************************************************************************)

RequestStatus == {"received", "validating", "dispatching", "pending", "succeeded",
                  "failed", "retry_scheduled", "cancelled", "manual_review"}

NormalizedStatus == {"accepted", "pending", "succeeded", "failed", "cancelled", "unknown"}

Terminal == {"succeeded", "cancelled"}

TRANSITIONS ==
  [received        |-> {"validating", "failed", "cancelled"},
   validating      |-> {"dispatching", "failed", "cancelled"},
   dispatching     |-> {"pending", "succeeded", "failed", "retry_scheduled",
                        "manual_review", "cancelled"},
   pending         |-> {"succeeded", "failed", "cancelled", "manual_review"},
   failed          |-> {"retry_scheduled", "manual_review", "cancelled"},
   retry_scheduled |-> {"dispatching", "failed", "cancelled", "manual_review"},
   manual_review   |-> {"dispatching", "retry_scheduled", "succeeded", "failed",
                        "cancelled"},
   succeeded       |-> {},
   cancelled       |-> {}]

\* Faults: reconciliation looks at one of the two in-flight statuses only.
RECONCILABLE_STATUSES_pending_only == {"pending"}
RECONCILABLE_STATUSES_dispatching_only == {"dispatching"}

RECONCILABLE_STATUSES == {"dispatching", "pending"}

MANUALLY_RETRYABLE_STATUSES == {"failed", "manual_review"}

CANCELLABLE_STATUSES == {"received", "validating", "pending", "retry_scheduled",
                         "failed", "manual_review"}

can_transition(current, requested) == requested \in TRANSITIONS[current]

\* None of the request statuses: what the projection gives an unknown status.
NoStatus == "none"

project_normalized_status(status) ==
  CASE status \in {"accepted", "pending"} -> "pending"
    [] status = "unknown"                 -> NoStatus
    [] OTHER                              -> status

is_forward_progress(current, candidate) ==
  /\ current # candidate
  /\ current \notin Terminal
  /\ can_transition(current, candidate)
=============================================================================
