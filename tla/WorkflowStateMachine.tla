------------------------ MODULE WorkflowStateMachine ------------------------
(***************************************************************************)
(* The two state machines of domain/workflow_state_machine.py: one for an  *)
(* execution and one for each of its steps, with the enumerations of       *)
(* domain/enums.py.  Statuses are the strings the database stores.         *)
(***************************************************************************)

WorkflowStatus == {"created", "queued", "running", "waiting", "retry_scheduled",
                   "compensating", "compensated", "succeeded", "failed", "cancelled",
                   "manual_review", "dead_lettered", "timed_out"}

WORKFLOW_TERMINAL == {"succeeded", "compensated", "failed", "cancelled", "dead_lettered"}

WorkflowStepStatus == {"pending", "ready", "running", "waiting", "retry_scheduled",
                       "succeeded", "failed", "skipped", "compensating", "compensated",
                       "cancelled", "dead_lettered"}

WORKFLOW_TRANSITIONS ==
  [created         |-> {"queued", "running", "cancelled"},
   queued          |-> {"running", "cancelled", "failed", "timed_out"},
   running         |-> {"waiting", "retry_scheduled", "compensating", "succeeded", "failed",
                        "cancelled", "manual_review", "timed_out"},
   waiting         |-> {"running", "compensating", "failed", "cancelled", "manual_review",
                        "timed_out"},
   retry_scheduled |-> {"running", "compensating", "failed", "cancelled", "manual_review",
                        "timed_out"},
   timed_out       |-> {"compensating", "cancelled", "manual_review", "failed"},
   compensating    |-> {"compensated", "manual_review", "dead_lettered", "failed",
                        "cancelled"},
   manual_review   |-> {"running", "compensating", "cancelled", "dead_lettered"},
   succeeded       |-> {},
   compensated     |-> {},
   failed          |-> {"manual_review"},
   cancelled       |-> {},
   dead_lettered   |-> {}]

STEP_TRANSITIONS ==
  [pending         |-> {"ready", "skipped", "cancelled"},
   ready           |-> {"running", "skipped", "cancelled"},
   running         |-> {"waiting", "retry_scheduled", "succeeded", "failed", "cancelled"},
   waiting         |-> {"running", "succeeded", "failed", "cancelled"},
   retry_scheduled |-> {"ready", "running", "failed", "cancelled"},
   succeeded       |-> {"compensating", "cancelled"},
   failed          |-> {"dead_lettered"},
   skipped         |-> {},
   compensating    |-> {"compensated", "retry_scheduled", "dead_lettered", "failed"},
   compensated     |-> {},
   cancelled       |-> {},
   dead_lettered   |-> {}]

workflow_allows(current, new) == new \in WORKFLOW_TRANSITIONS[current]

step_allows(current, new) == new \in STEP_TRANSITIONS[current]
=============================================================================
