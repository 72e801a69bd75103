------------------------- MODULE WorkflowExecution -------------------------
(***************************************************************************)
(* The aggregate of domain/workflow.py: an execution and its steps.  Every *)
(* operator maps an execution record to the record the source method       *)
(* leaves; a method that would raise InvalidStateTransitionError has its   *)
(* legality as a separate operator, and the caller raises.                 *)
(*                                                                         *)
(* completed_at matters for the order of completion only, so it is a rank: *)
(* steps completed by one transaction share a rank.                        *)
(***************************************************************************)
EXTENDS WorkflowStateMachine, Integers, FiniteSets, FiniteSetsExt

CONSTANTS
  Steps,       \* the steps of the definition
  DependsOn    \* DependsOn[s]: the steps s waits for

\* A definition lists its steps, each with the steps it depends on.
ASSUME StepsAssumption == IsFiniteSet(Steps)
ASSUME DependsOnAssumption == DependsOn \in [Steps -> SUBSET Steps]

\* A step's forward request and the request that compensates it.
Forward(s) == <<s, "forward">>
Undo(s) == <<s, "compensation">>
Requests == Steps \X {"forward", "compensation"}
NoRequest == <<"none">>

StepExecution ==
  [status : WorkflowStepStatus,
   completed_at : 0 .. Cardinality(Steps),
   compensation_request_id : Requests \union {NoRequest}]

Execution ==
  [status : WorkflowStatus,
   steps : [Steps -> StepExecution],
   cancel_reason : BOOLEAN,
   deadline_processed : BOOLEAN]

with_status(e, status) == [e EXCEPT !.status = status]

transition_steps(e, S, status) ==
  [e EXCEPT !.steps =
     [s \in Steps |-> IF s \in S THEN [@[s] EXCEPT !.status = status] ELSE @[s]]]

in_status(e, statuses) == {s \in Steps : e.steps[s].status \in statuses}

mark_succeeded(e, S) ==
  LET now == 1 + Max({0} \union {e.steps[s].completed_at : s \in Steps})
      succeeded == transition_steps(e, S, "succeeded")
  IN  [succeeded EXCEPT !.steps =
         [s \in Steps |-> IF s \in S THEN [@[s] EXCEPT !.completed_at = now] ELSE @[s]]]

mark_failed(e, s) == transition_steps(e, {s}, "failed")

mark_compensated(e, s, request_id) ==
  LET compensated == transition_steps(e, {s}, "compensated")
  IN  [compensated EXCEPT !.steps[s].compensation_request_id = request_id]

can_move(e, s, status) == step_allows(e.steps[s].status, status)

dependencies_satisfied(e, s) == \A d \in DependsOn[s] : e.steps[d].status = "succeeded"

\* Fault: dependencies are not looked at.
promote_all_steps(e) == transition_steps(e, in_status(e, {"pending"}), "ready")

promote_ready_steps(e) ==
  transition_steps(e, {s \in in_status(e, {"pending"}) : dependencies_satisfied(e, s)}, "ready")

\* Fault: the sort is not reversed.
first_completed(e) ==
  {s \in in_status(e, {"succeeded"}) :
     \A t \in in_status(e, {"succeeded"}) : e.steps[s].completed_at <= e.steps[t].completed_at}

\* The head of succeeded_in_reverse(): rows come back in no fixed order, so ties are open.
last_completed(e) ==
  {s \in in_status(e, {"succeeded"}) :
     \A t \in in_status(e, {"succeeded"}) : e.steps[t].completed_at <= e.steps[s].completed_at}

\* Fault: any instead of all.
any_forward_succeeded(e) == in_status(e, {"succeeded"}) # {}

all_forward_succeeded(e) == in_status(e, {"succeeded"}) = Steps

any_waiting(e) == in_status(e, {"waiting"}) # {}

has_succeeded_steps(e) == in_status(e, {"succeeded"}) # {}

\* start_execution(): QUEUED, with the steps that depend on nothing promoted.
start_execution ==
  promote_ready_steps(
    [status |-> "queued",
     steps |-> [s \in Steps |-> [status |-> "pending", completed_at |-> 0,
                                 compensation_request_id |-> NoRequest]],
     cancel_reason |-> FALSE,
     deadline_processed |-> FALSE])
=============================================================================
