------------------------ MODULE WorkflowOrchestrator ------------------------
(***************************************************************************)
(* application/services/workflow_orchestrator.py: one execution, worked on *)
(* by any number of tasks at once (workflow workers, the API calls that    *)
(* start and cancel it, webhook handlers), with the requests of its steps  *)
(* moving underneath.                                                      *)
(*                                                                         *)
(* The orchestrator's methods call each other across transactions: advance *)
(* runs a step, the dispatcher's hook calls on_request_terminal, which     *)
(* advances again.  A task is therefore a stack of frames, the running one *)
(* first, and every transaction is one step of the running frame.  A       *)
(* transition the state machines refuse raises: the transaction is rolled  *)
(* back and the stack unwound to the hook that catches, or to the bottom.  *)
(*                                                                         *)
(* The execution is always loaded FOR UPDATE by the transaction that       *)
(* writes it, so the version test of update() never refuses; versions are  *)
(* left out.  Of the requests only the status is modelled: a request moves *)
(* as RequestContract allows.                                              *)
(***************************************************************************)
EXTENDS WorkflowExecution, RequestStateMachine, Sequences

CONSTANTS
  Tasks,         \* concurrent callers: workers, API calls, webhook handlers
  Compensable,   \* the steps that declare a compensate_operation
  HasDeadline,   \* whether the execution was started with deadline_seconds
  Operated,         \* bound: the steps whose requests an operator may cancel or retry
  MaxWebhooks,      \* bound: webhooks that settle a request
  MaxInterruptions  \* bound: cancellations, crashes, operators and the deadline, together

ASSUME CompensableAssumption == Compensable \subseteq Steps /\ Operated \subseteq Steps
ASSUME BoundsAssumption == MaxWebhooks \in Nat /\ MaxInterruptions \in Nat

VARIABLES
  execution,     \* the row of workflow_executions with its steps
  request,       \* status of each step's forward and compensation request
  created,       \* how often each request was created
  stack,         \* the frames of each task
  past_deadline, \* whether the clock has passed deadline_at
  webhooks,      \* how many webhooks settled a request
  interruptions  \* how many of them happened

vars == <<execution, request, created, stack, past_deadline, webhooks, interruptions>>

\* What the status of a step's request is before the request is created.
Absent == "none"

TERMINAL_REQUESTS == {"succeeded", "failed", "cancelled", "manual_review"}

NOTIFIED == TERMINAL_REQUESTS \union {"pending"}

\* Statuses that stop a step from being started; terminal ones stop everything.
STOPPED == {"cancelled", "compensating", "manual_review"}

RUNNABLE == {"queued", "running", "waiting", "compensating", "retry_scheduled", "timed_out"}

-----------------------------------------------------------------------------
(***************************************************************************)
(* Frames.                                                                 *)
(***************************************************************************)
FramePoint == {"advance", "run_steps", "dispatch", "settle", "forward_outcome",
               "undo_outcome", "hook_read", "hook", "compensate", "compensate_step",
               "enforce_deadline"}

Frame ==
  [at : FramePoint,
   todo : SUBSET Steps,
   request : Requests \union {NoRequest},
   result : RequestStatus \union {Absent},
   catches : BOOLEAN]

frame(at, q) ==
  [at |-> at, todo |-> {}, request |-> q, result |-> Absent, catches |-> at = "hook_read"]

running(t) == Head(stack[t])

is_at(t, at) == stack[t] # <<>> /\ running(t).at = at

Return(t) == stack' = [stack EXCEPT ![t] = Tail(@)]

\* The running frame goes on as f; a frame that catches exceptions keeps doing so.
Continue(t, f) ==
  stack' = [stack EXCEPT ![t] = <<[f EXCEPT !.catches = running(t).catches]>> \o Tail(@)]

Call(t, f, callee) == stack' = [stack EXCEPT ![t] = <<callee, f>> \o Tail(@)]

unwound(frames) ==
  LET catching == {i \in DOMAIN frames : frames[i].catches}
  IN  IF catching = {} THEN <<>> ELSE SubSeq(frames, Min(catching) + 1, Len(frames))

Raise(t) ==
  /\ stack' = [stack EXCEPT ![t] = unwound(@)]
  /\ UNCHANGED <<execution, request, created>>

\* Commit e and carry on as at, or return when at is NoFrame.
NoFrame == "return"

CommitThen(t, e, at, q) ==
  /\ execution' = e
  /\ IF at = NoFrame THEN Return(t) ELSE Continue(t, frame(at, q))

-----------------------------------------------------------------------------
refreshed(e) ==
  LET failed == in_status(e, {"failed"})
      resumed == IF e.status = "waiting" /\ ~ any_waiting(e) /\ failed = {}
                 THEN promote_ready_steps(with_status(e, "running"))
                 ELSE e
  IN  IF e.status \in {"cancelled", "compensated", "succeeded", "dead_lettered"} THEN e
      ELSE IF /\ failed # {}
              /\ e.status \notin {"compensating", "manual_review", "failed", "timed_out"}
           THEN with_status(e, "compensating")
      ELSE IF any_waiting(e) /\ e.status = "running" THEN with_status(e, "waiting")
      ELSE IF all_forward_succeeded(resumed) /\ resumed.status = "running"
           THEN with_status(resumed, "succeeded")
      ELSE resumed

deadline_due == past_deadline /\ ~ execution.deadline_processed

\* Fault: the requests of waiting steps are left to the hook.
none_succeeded_quietly(e) == {}

\* The waiting steps whose request succeeded without the hook being run.
succeeded_quietly(e) == {s \in in_status(e, {"waiting"}) : request[Forward(s)] = "succeeded"}

\* advance(), up to the commit before the ready steps are run.
Advance(t) ==
  LET begun == IF execution.status = "queued" THEN with_status(execution, "running")
                                             ELSE execution
      e == refreshed(promote_ready_steps(mark_succeeded(begun, succeeded_quietly(begun))))
  IN  /\ is_at(t, "advance")
      /\ \/ /\ execution.status \in WORKFLOW_TERMINAL \union {"manual_review"}
            /\ Return(t)
            /\ UNCHANGED execution
         \/ /\ execution.status \notin WORKFLOW_TERMINAL \union {"manual_review", "compensating"}
            /\ deadline_due
            /\ Continue(t, frame("enforce_deadline", NoRequest))
            /\ UNCHANGED execution
         \/ /\ execution.status \notin WORKFLOW_TERMINAL \union {"manual_review"}
            /\ deadline_due => execution.status = "compensating"
            /\ execution' = e
            /\ IF e.status \in STOPPED \union WORKFLOW_TERMINAL
               THEN Return(t)
               ELSE Continue(t, [frame("run_steps", NoRequest) EXCEPT
                                   !.todo = in_status(e, {"ready"})])
      /\ UNCHANGED <<request, created, past_deadline, webhooks, interruptions>>

\* Fault: the step's status is not read again under the lock.
may_start_unlocked(s) ==
  execution.status \notin STOPPED \union WORKFLOW_TERMINAL \union {"timed_out"}

may_start(s) ==
  /\ execution.steps[s].status = "ready"
  /\ execution.status \notin STOPPED \union WORKFLOW_TERMINAL \union {"timed_out"}

\* _run_forward_step(), up to the commit that creates the step's request.
RunForwardStep(t, s) ==
  LET rest == [running(t) EXCEPT !.todo = @ \ {s}]
  IN  /\ is_at(t, "run_steps")
      /\ s \in running(t).todo
      /\ \/ /\ ~ may_start(s)
            /\ Continue(t, rest)
            /\ UNCHANGED <<execution, request, created>>
         \/ /\ may_start(s)
            /\ deadline_due
            /\ Call(t, rest, frame("enforce_deadline", NoRequest))
            /\ UNCHANGED <<execution, request, created>>
         \/ /\ may_start(s)
            /\ ~ deadline_due
            /\ execution' = transition_steps(execution, {s}, "running")
            /\ request' = [request EXCEPT ![Forward(s)] = "received"]
            /\ created' = [created EXCEPT ![Forward(s)] = @ + 1]
            /\ Call(t, rest, frame("dispatch", Forward(s)))
      /\ UNCHANGED <<past_deadline, webhooks, interruptions>>

\* advance(), after the ready steps were run.
FinishAdvance(t) ==
  /\ is_at(t, "run_steps")
  /\ running(t).todo = {}
  /\ execution' = refreshed(execution)
  /\ Return(t)
  /\ UNCHANGED <<request, created, past_deadline, webhooks, interruptions>>

-----------------------------------------------------------------------------
(***************************************************************************)
(* The dispatcher, as the orchestrator sees it: a claim, a provider call   *)
(* of any outcome, and the hook.  A request another party settled during   *)
(* the call is returned as it is then.                                     *)
(***************************************************************************)
ClaimRequest(t) ==
  LET q == running(t).request
      claimable == request[q] = "received" \/ can_transition(request[q], "dispatching")
  IN  /\ is_at(t, "dispatch")
      /\ \/ /\ claimable
            /\ request' = [request EXCEPT ![q] = "dispatching"]
            /\ Continue(t, frame("settle", q))
            /\ UNCHANGED <<execution, created>>
         \/ ~ claimable /\ Raise(t)
      /\ UNCHANGED <<past_deadline, webhooks, interruptions>>

SettleRequest(t, outcome) ==
  LET q == running(t).request
      after == [frame(IF q = Forward(q[1]) THEN "forward_outcome" ELSE "undo_outcome", q)
                  EXCEPT !.result = outcome]
  IN  /\ is_at(t, "settle")
      /\ IF request[q] = "dispatching"
         THEN can_transition("dispatching", outcome)
         ELSE outcome = request[q]
      /\ request' = [request EXCEPT ![q] = outcome]
      /\ IF outcome \in NOTIFIED THEN Call(t, after, frame("hook_read", q))
                                 ELSE Continue(t, after)
      /\ UNCHANGED <<execution, created, past_deadline, webhooks, interruptions>>

\* on_request_terminal() reads the request before it locks the execution.
ReadRequest(t) ==
  LET q == running(t).request
  IN  /\ is_at(t, "hook_read")
      /\ IF request[q] \in TERMINAL_REQUESTS
         THEN Continue(t, [frame("hook", q) EXCEPT !.result = request[q]])
         ELSE Return(t)
      /\ UNCHANGED <<execution, request, created, past_deadline, webhooks, interruptions>>

step_for_request(e, q) ==
  {s \in Steps : q = Forward(s) \/ e.steps[s].compensation_request_id = q}

\* The step after its request ended as result.
notified(e, s, q, result) ==
  LET status == e.steps[s].status
  IN  CASE status \in {"running", "waiting"} /\ result = "succeeded" -> mark_succeeded(e, {s})
        [] status \in {"running", "waiting"} /\ result \in {"failed", "manual_review"} ->
             mark_failed(e, s)
        [] status \in {"running", "waiting"} /\ result = "cancelled" ->
             transition_steps(e, {s}, "cancelled")
        [] status = "compensating" /\ result = "succeeded" -> mark_compensated(e, s, q)
        [] status = "compensating" /\ result \in {"failed", "manual_review"} ->
             IF e.status = "compensating" THEN with_status(e, "manual_review") ELSE e
        [] OTHER -> e

OnRequestTerminal(t) ==
  LET q == running(t).request
      result == running(t).result
  IN  /\ is_at(t, "hook")
      /\ \/ /\ step_for_request(execution, q) = {}
            /\ Return(t)
            /\ UNCHANGED <<execution, request, created>>
         \/ \E s \in step_for_request(execution, q) :
              LET e == refreshed(notified(execution, s, q, result))
              IN  IF result = "cancelled" /\ execution.steps[s].status = "compensating"
                  THEN Raise(t)
                  ELSE /\ CommitThen(t, e, CASE e.status = "running" -> "advance"
                                             [] e.status = "compensating" -> "compensate"
                                             [] OTHER -> NoFrame, NoRequest)
                       /\ UNCHANGED <<request, created>>
      /\ UNCHANGED <<past_deadline, webhooks, interruptions>>

-----------------------------------------------------------------------------
\* Fault: a request the provider accepted counts as done.
forward_target_accepted(status, result) ==
  CASE result \in {"succeeded", "pending"} -> "succeeded"
    [] result \in {"failed", "manual_review"}
         /\ status \notin {"failed", "cancelled", "succeeded"} -> "failed"
    [] result = "retry_scheduled" /\ status = "running" -> "retry_scheduled"
    [] OTHER -> status

\* What the step becomes when dispatch() returned its request as result.
forward_target(status, result) ==
  CASE result = "succeeded" -> "succeeded"
    [] result = "pending" /\ status \in {"running", "waiting"} -> "waiting"
    [] result \in {"failed", "manual_review"}
         /\ status \notin {"failed", "cancelled", "succeeded"} -> "failed"
    [] result = "retry_scheduled" /\ status = "running" -> "retry_scheduled"
    [] OTHER -> status

forward_refused(e, s, result) ==
  LET status == e.steps[s].status
      target == forward_target(status, result)
  IN  \/ target # status /\ ~ can_move(e, s, target)
      \/ result = "succeeded" /\ status = "succeeded"
      \/ result = "pending" /\ status = "waiting"

forward_settled(e, s, result) ==
  LET target == forward_target(e.steps[s].status, result)
  IN  IF target = e.steps[s].status THEN e
      ELSE IF target = "succeeded" THEN mark_succeeded(e, {s})
           ELSE transition_steps(e, {s}, target)

\* _run_forward_step(), after dispatch() returned the request as result.
SettleForwardStep(t) ==
  LET s == running(t).request[1]
      result == running(t).result
      e == refreshed(forward_settled(execution, s, result))
  IN  /\ is_at(t, "forward_outcome")
      /\ \/ forward_refused(execution, s, result) /\ Raise(t)
         \/ /\ ~ forward_refused(execution, s, result)
            /\ CommitThen(t, e, IF e.status = "compensating" THEN "compensate" ELSE NoFrame,
                          NoRequest)
            /\ UNCHANGED <<request, created>>
      /\ UNCHANGED <<past_deadline, webhooks, interruptions>>

\* _continue_compensation().
unwinding_done(e) ==
  \A s \in Steps :
    e.steps[s].status \in {"compensated", "failed", "skipped", "cancelled", "pending"}

\* Fault: the recorded cancellation is forgotten.
unwound_as_compensated(e) == "compensated"

unwound_as(e) == IF e.cancel_reason THEN "cancelled" ELSE "compensated"

ContinueCompensation(t) ==
  /\ is_at(t, "compensate")
  /\ \/ /\ execution.status # "compensating"
        /\ Return(t)
        /\ UNCHANGED execution
     \/ /\ execution.status = "compensating"
        /\ \E s \in last_completed(execution) :
             CommitThen(t, transition_steps(execution, {s}, "compensating"),
                        "compensate_step", Undo(s))
     \/ /\ execution.status = "compensating"
        /\ last_completed(execution) = {}
        /\ Return(t)
        /\ execution' = IF ~ unwinding_done(execution) THEN execution
                        ELSE with_status(execution, unwound_as(execution))
  /\ UNCHANGED <<request, created, past_deadline, webhooks, interruptions>>

\* _compensate_step(), up to the commit that creates the compensating request.
CompensateStep(t) ==
  LET q == running(t).request
      s == q[1]
  IN  /\ is_at(t, "compensate_step")
      /\ \/ /\ s \notin Compensable
            /\ \/ /\ can_move(execution, s, "compensated")
                  /\ CommitThen(t, mark_compensated(execution, s, NoRequest), "compensate",
                                NoRequest)
                  /\ UNCHANGED <<request, created>>
               \/ ~ can_move(execution, s, "compensated") /\ Raise(t)
         \/ /\ s \in Compensable
            /\ request' = [request EXCEPT ![q] = "received"]
            /\ created' = [created EXCEPT ![q] = @ + 1]
            /\ CommitThen(t, [execution EXCEPT !.steps[s].compensation_request_id = q],
                          "dispatch", q)
      /\ UNCHANGED <<past_deadline, webhooks, interruptions>>

\* _compensate_step(), after dispatch().
SettleCompensation(t) ==
  LET q == running(t).request
      s == q[1]
      result == running(t).result
      e == CASE result = "succeeded" -> mark_compensated(execution, s, q)
             [] result = "pending" -> execution
             [] OTHER -> with_status(mark_failed(execution, s), "manual_review")
      raises == \/ result = "succeeded" /\ ~ can_move(execution, s, "compensated")
                \/ /\ result \notin {"succeeded", "pending"}
                   /\ \/ ~ can_move(execution, s, "failed")
                      \/ ~ workflow_allows(execution.status, "manual_review")
  IN  /\ is_at(t, "undo_outcome")
      /\ \/ raises /\ Raise(t)
         \/ /\ ~ raises
            /\ CommitThen(t, e, IF e.status = "compensating" THEN "compensate" ELSE NoFrame,
                          NoRequest)
            /\ UNCHANGED <<request, created>>
      /\ UNCHANGED <<past_deadline, webhooks, interruptions>>

-----------------------------------------------------------------------------
\* enforce_deadline(); it raises when the execution can no longer time out.
expired(e) ==
  LET stopped == transition_steps(transition_steps(e, in_status(e, {"pending", "ready"}), "cancelled"),
                                  in_status(e, {"waiting", "retry_scheduled", "running"}), "failed")
  IN  [stopped EXCEPT !.deadline_processed = TRUE,
                      !.status = IF has_succeeded_steps(e) THEN "compensating" ELSE "cancelled",
                      !.cancel_reason = @ \/ ~ has_succeeded_steps(e)]

EnforceDeadline(t) ==
  /\ is_at(t, "enforce_deadline")
  /\ \/ /\ ~ deadline_due
        /\ Return(t)
        /\ UNCHANGED <<execution, request, created>>
     \/ /\ deadline_due
        /\ workflow_allows(execution.status, "timed_out")
        /\ CommitThen(t, expired(execution),
                      IF has_succeeded_steps(execution) THEN "compensate" ELSE NoFrame, NoRequest)
        /\ UNCHANGED <<request, created>>
     \/ /\ deadline_due
        /\ ~ workflow_allows(execution.status, "timed_out")
        /\ Raise(t)
  /\ UNCHANGED <<past_deadline, webhooks, interruptions>>

\* Fault: what already succeeded is left in place.
cancelled_at_once(e) ==
  [transition_steps(e, in_status(e, {"pending", "ready", "waiting", "retry_scheduled", "running"}),
                    "cancelled") EXCEPT !.status = "cancelled", !.cancel_reason = TRUE]

\* cancel(), called through the API.
cancelled(e) ==
  LET open == in_status(e, {"pending", "ready", "waiting", "retry_scheduled", "running"})
  IN  [transition_steps(e, open, "cancelled") EXCEPT
         !.status = IF has_succeeded_steps(e) THEN "compensating" ELSE "cancelled",
         !.cancel_reason = TRUE]

Cancel(t) ==
  /\ stack[t] = <<>>
  /\ interruptions < MaxInterruptions
  /\ execution.status \notin WORKFLOW_TERMINAL
  /\ interruptions' = interruptions + 1
  /\ \/ /\ execution.status = "compensating"
        /\ execution' = [execution EXCEPT !.cancel_reason = TRUE]
        /\ UNCHANGED stack
     \/ /\ execution.status # "compensating"
        /\ execution' = cancelled(execution)
        /\ stack' = IF execution'.status = "compensating"
                    THEN [stack EXCEPT ![t] = <<frame("compensate", NoRequest)>>]
                    ELSE stack
  /\ UNCHANGED <<request, created, past_deadline, webhooks>>

(***************************************************************************)
(* WorkflowWorker.run_once(): claim, then advance or go on compensating.   *)
(* The lease of claim_runnable bounds how long another worker stays away,  *)
(* and a slow task outlives it, so a claim is possible at any time.        *)
(***************************************************************************)
ClaimRunnable(t) ==
  /\ stack[t] = <<>>
  /\ execution.status \in RUNNABLE
  /\ stack' = [stack EXCEPT ![t] =
                 <<frame(IF execution.status = "compensating" THEN "compensate" ELSE "advance",
                         NoRequest)>>]
  /\ UNCHANGED <<execution, request, created, past_deadline, webhooks, interruptions>>

-----------------------------------------------------------------------------
(***************************************************************************)
(* What happens around the orchestrator.  A webhook settles a request and  *)
(* runs the hook; the retry worker, reconciliation and the request API     *)
(* move one without telling anybody.  A claim of the retry worker that     *)
(* ends in another retry is the same to the orchestrator as a long claim.  *)
(***************************************************************************)
ApplyWebhook(t, q, outcome) ==
  /\ stack[t] = <<>>
  /\ request[q] \notin {Absent, "received"}
  /\ outcome \in {"succeeded", "failed", "cancelled"}
  /\ is_forward_progress(request[q], outcome)
  /\ webhooks < MaxWebhooks
  /\ webhooks' = webhooks + 1
  /\ request' = [request EXCEPT ![q] = outcome]
  /\ stack' = [stack EXCEPT ![t] = <<frame("hook_read", q)>>]
  /\ UNCHANGED <<execution, created, past_deadline, interruptions>>

SettledQuietly ==
  [dispatching |-> {"pending", "succeeded", "failed", "cancelled", "manual_review"},
   pending |-> {"succeeded", "failed", "cancelled", "manual_review"},
   retry_scheduled |-> {"dispatching", "manual_review"}]

SettleQuietly(q, outcome) ==
  /\ request[q] \in DOMAIN SettledQuietly
  /\ outcome \in SettledQuietly[request[q]]
  /\ request' = [request EXCEPT ![q] = outcome]
  /\ UNCHANGED <<execution, created, stack, past_deadline, webhooks, interruptions>>

\* An operator cancels or retries the step's request through the request API.
OperateOnRequest(q, outcome) ==
  /\ q[1] \in Operated
  /\ \/ /\ request[q] \in {"received", "retry_scheduled", "failed", "manual_review"}
        /\ outcome = "cancelled"
     \/ /\ request[q] \in MANUALLY_RETRYABLE_STATUSES
        /\ outcome = "retry_scheduled"
  /\ interruptions < MaxInterruptions
  /\ interruptions' = interruptions + 1
  /\ request' = [request EXCEPT ![q] = outcome]
  /\ UNCHANGED <<execution, created, stack, past_deadline, webhooks>>

DeadlinePasses ==
  /\ HasDeadline
  /\ ~ past_deadline
  /\ interruptions < MaxInterruptions
  /\ interruptions' = interruptions + 1
  /\ past_deadline' = TRUE
  /\ UNCHANGED <<execution, request, created, stack, webhooks>>

Crash(t) ==
  /\ stack[t] # <<>>
  /\ interruptions < MaxInterruptions
  /\ interruptions' = interruptions + 1
  /\ stack' = [stack EXCEPT ![t] = <<>>]
  /\ UNCHANGED <<execution, request, created, past_deadline, webhooks>>

-----------------------------------------------------------------------------
\* StartWorkflowUseCase commits the execution and then advances it.
Init ==
  /\ execution = start_execution
  /\ request = [q \in Requests |-> Absent]
  /\ created = [q \in Requests |-> 0]
  /\ \E t \in Tasks :
       stack = [u \in Tasks |-> IF u = t THEN <<frame("advance", NoRequest)>> ELSE <<>>]
  /\ past_deadline = FALSE
  /\ webhooks = 0
  /\ interruptions = 0

Stepping(t) ==
  \/ Advance(t)
  \/ \E s \in Steps : RunForwardStep(t, s)
  \/ FinishAdvance(t)
  \/ ClaimRequest(t)
  \/ \E outcome \in RequestStatus : SettleRequest(t, outcome)
  \/ ReadRequest(t)
  \/ OnRequestTerminal(t)
  \/ SettleForwardStep(t)
  \/ ContinueCompensation(t)
  \/ CompensateStep(t)
  \/ SettleCompensation(t)
  \/ EnforceDeadline(t)

Starting(t) ==
  \/ Cancel(t)
  \/ ClaimRunnable(t)
  \/ \E q \in Requests, outcome \in RequestStatus : ApplyWebhook(t, q, outcome)

Surroundings ==
  \/ \E q \in Requests, outcome \in RequestStatus :
       SettleQuietly(q, outcome) \/ OperateOnRequest(q, outcome)
  \/ DeadlinePasses

Next ==
  \/ \E t \in Tasks : Stepping(t) \/ Starting(t) \/ Crash(t)
  \/ Surroundings

Spec == Init /\ [][Next]_vars

(***************************************************************************)
(* Tasks run until they return, the workflow worker polls and every lease  *)
(* lapses, and no request stays open: its provider answers, or the retry   *)
(* worker and reconciliation settle it.                                    *)
(***************************************************************************)
Fairness ==
  /\ \A t \in Tasks : WF_vars(Stepping(t)) /\ WF_vars(ClaimRunnable(t))
  /\ \A q \in Requests : WF_vars(\E outcome \in RequestStatus : SettleQuietly(q, outcome))

FairSpec == Spec /\ Fairness

-----------------------------------------------------------------------------
(***************************************************************************)
(* Properties.                                                             *)
(***************************************************************************)

\* Every variable keeps its type.
TypeOK ==
  /\ execution \in Execution
  /\ request \in [Requests -> RequestStatus \union {Absent}]
  /\ created \in [Requests -> Nat]
  /\ \A t \in Tasks : \A i \in DOMAIN stack[t] : stack[t][i] \in Frame
  /\ past_deadline \in BOOLEAN
  /\ webhooks \in 0 .. MaxWebhooks
  /\ interruptions \in 0 .. MaxInterruptions

(***************************************************************************)
(* "Each forward step creates one IntegrationRequest": whatever leases     *)
(* lapse and whichever tasks hold a stale list of ready steps, a step      *)
(* calls its provider through one request, and is compensated through one. *)
(***************************************************************************)
OneRequestPerStep == \A q \in Requests : created[q] <= 1

(***************************************************************************)
(* A step is started only in a live execution and on top of dependencies   *)
(* that stand: each succeeded and none is being compensated, although the  *)
(* step was promoted in an earlier transaction.                            *)
(***************************************************************************)
StepsStartOnSolidGround ==
  [][\A s \in Steps : created'[Forward(s)] > created[Forward(s)] =>
       /\ execution.status \in {"running", "waiting"}
       /\ dependencies_satisfied(execution, s)
       /\ ~ deadline_due]_vars

(***************************************************************************)
(* An execution reports success only when every step's request succeeded   *)
(* and nothing of it was compensated.                                      *)
(***************************************************************************)
SuccessIsWhole ==
  execution.status = "succeeded" =>
    \A s \in Steps : request[Forward(s)] = "succeeded" /\ request[Undo(s)] = Absent

(***************************************************************************)
(* A cancellation that was accepted is honoured: "record intent; finish as *)
(* CANCELLED when unwind completes".                                       *)
(***************************************************************************)
CancellationIsHonoured ==
  execution.cancel_reason /\ execution.status \in WORKFLOW_TERMINAL =>
    execution.status = "cancelled"

(***************************************************************************)
(* A compensating request is created only for an effect that was made: the *)
(* step's forward request succeeded, whatever deadline, cancellation or    *)
(* failure started the unwind while requests were open.                    *)
(***************************************************************************)
OnlyDoneIsUndone ==
  \A s \in Steps : request[Undo(s)] # Absent => request[Forward(s)] = "succeeded"

(***************************************************************************)
(* "Failed compensation routes the execution to MANUAL_REVIEW": it is not  *)
(* reported as compensated while a compensating request has failed.        *)
(***************************************************************************)
FailedUndoIsReviewed ==
  execution.status = "compensated" =>
    \A s \in Steps : request[Undo(s)] \notin {"failed", "manual_review"}

(***************************************************************************)
(* "succeeded steps compensate in reverse completion order": the undo of a *)
(* step does not begin while a step built on it still counts as succeeded. *)
(* A dependent need not be gone: it may be compensating, its own undo only *)
(* pending, or (after a failure elsewhere) still running or waiting.       *)
(***************************************************************************)
UnwindsInReverse ==
  [][\A s \in Steps :
       execution.steps[s].status = "succeeded" /\ execution'.steps[s].status = "compensating" =>
         \A d \in Steps : s \in DependsOn[d] => execution.steps[d].status # "succeeded"]_vars

(***************************************************************************)
(* A cancelled or compensated execution leaves no step that still stands,  *)
(* runs or is about to run, whichever of cancel, deadline and failure came *)
(* first and whatever was in flight; a compensated one leaves none that is *)
(* still being undone.  A cancelled one may: cancel() out of manual review *)
(* ends an execution without succeeded steps at once, also when the undo   *)
(* of one failed or is open, and leaves that step compensating.            *)
(***************************************************************************)
EndedMeansUnwound ==
  /\ execution.status \in {"cancelled", "compensated"} =>
       in_status(execution, {"succeeded", "running", "waiting", "ready", "retry_scheduled"}) = {}
  /\ execution.status = "compensated" => in_status(execution, {"compensating"}) = {}

(***************************************************************************)
(* A waiting step whose request succeeded without anybody being told       *)
(* (reconciliation settled it, or the webhook's process died before the    *)
(* hook) does not keep a live execution waiting: the worker's next advance *)
(* notices.  A step left retry_scheduled is not waiting, and when the      *)
(* retry worker settles its request, neither advance nor the hook resumes  *)
(* it.                                                                     *)
(***************************************************************************)
QuietSuccessIsNoticed ==
  \A s \in Steps :
    /\ execution.status = "waiting"
    /\ execution.steps[s].status = "waiting"
    /\ request[Forward(s)] = "succeeded"
    ~> execution.steps[s].status # "waiting" \/ execution.status \notin {"running", "waiting"}

(***************************************************************************)
(* "Pending never-run steps stay pending; succeeded ones compensated":     *)
(* an unwind comes to an end, with the execution compensated, cancelled    *)
(* or handed to manual review.                                             *)
(***************************************************************************)
CompensationEnds ==
  execution.status = "compensating" ~> execution.status # "compensating"

=============================================================================
