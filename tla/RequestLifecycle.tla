-------------------------- MODULE RequestLifecycle --------------------------
(***************************************************************************)
(* The life of one integration request: the dispatcher's claim / call /    *)
(* settle phases, the retry worker, operator retry, cancellation,          *)
(* webhooks and reconciliation, all acting on one row while the provider   *)
(* works on its own.                                                       *)
(*                                                                         *)
(* Every handler loads the row with SELECT ... FOR UPDATE and commits      *)
(* once, so each transaction is one step.  A handler that calls the        *)
(* provider between two transactions is two steps, and anything may happen *)
(* in between.  Time is abstracted: a due retry, a stale request or an     *)
(* elapsed grace period may come at any moment.                            *)
(*                                                                         *)
(* Attempt n is the dispatch that raised attempt_count to n.  A provider   *)
(* operation is named by the attempt that created it; at a provider that   *)
(* honours the idempotency key every attempt names operation 1.            *)
(***************************************************************************)
EXTENDS IntegrationRequest, FiniteSets

CONSTANTS
  Providers,          \* the providers a request may be addressed to
  MaxAttempts,        \* RetryPolicy.max_attempts
  MaxOperatorRetries, \* bound: how often an operator asks for a retry
  MaxEvents,          \* bound: how many webhook events reach the platform
  Reconcilers,        \* reconciliation worker replicas
  Cancellers          \* API calls that may be cancelling the request

ASSUME ProvidersAssumption == Providers \subseteq {"northstar", "meridian", "cobalt"}
ASSUME MaxAttemptsAssumption == MaxAttempts \in Nat \ {0}
ASSUME MaxOperatorRetriesAssumption == MaxOperatorRetries \in Nat

VARIABLES
  row,              \* the row of integration_requests
  pending_dispatch, \* the API call that created the row has still to run dispatch()
  operator_retries, \* how many operator retries were accepted
  call,             \* phase of each attempt's provider call
  wire,             \* attempts whose create the provider has not processed yet
  op,               \* state of each operation at the provider
  receipt,          \* processing status of each webhook event's receipt
  recon,            \* what each reconciler read before asking the provider
  cancel            \* reference each canceller asked the provider to cancel

vars == <<row, pending_dispatch, operator_retries, call, wire, op, receipt, recon, cancel>>

Attempts == 1 .. (MaxAttempts + MaxOperatorRetries)
References == Attempts \union {NoReference}

OpState == {"absent", "running", "succeeded", "failed", "cancelled"}
CallPhase == {"idle", "calling", "settled", "crashed"}

\* ACCEPTED and PENDING project alike, so events carry the second only.
Event == [reference : Attempts, status : NormalizedStatus \ {"accepted"}]
ReceiptStatus == {"none", "received", "deferred", "processed", "abandoned"}

(***************************************************************************)
(* What the provider descriptors declare.                                  *)
(***************************************************************************)
supports_provider_idempotency(p) == p \in {"northstar", "cobalt"}
supports_cancellation(p) == p = "cobalt"
supports_status_lookup(p) == p \in {"meridian", "cobalt"}

\* A reconciler between candidates.
idle == [busy |-> FALSE, reference |-> NoReference]

Init ==
  /\ \E p \in Providers : row = create(p)
  /\ pending_dispatch = TRUE
  /\ operator_retries = 0
  /\ call = [n \in Attempts |-> "idle"]
  /\ wire = {}
  /\ op = [o \in Attempts |-> "absent"]
  /\ receipt = [e \in Event |-> "none"]
  /\ recon = [r \in Reconcilers |-> idle]
  /\ cancel = [c \in Cancellers |-> NoReference]

-----------------------------------------------------------------------------
(***************************************************************************)
(* The provider.  A create sits on the wire until the provider processes   *)
(* it, which may be after the caller timed out or died.                    *)
(***************************************************************************)
OperationOf(n) == IF supports_provider_idempotency(row.provider) THEN 1 ELSE n

ProviderCreates(n) ==
  /\ n \in wire
  /\ wire' = wire \ {n}
  /\ op' = [op EXCEPT ![OperationOf(n)] = IF @ = "absent" THEN "running" ELSE @]
  /\ UNCHANGED <<row, pending_dispatch, operator_retries, call, receipt, recon, cancel>>

ProviderFinishes(o) ==
  /\ op[o] = "running"
  /\ \E outcome \in {"succeeded", "failed", "cancelled"} :
       op' = [op EXCEPT ![o] = outcome]
  /\ UNCHANGED <<row, pending_dispatch, operator_retries, call, wire, receipt, recon, cancel>>

(***************************************************************************)
(* What a provider can have said about operation o by now.  An answer may  *)
(* be old, so "still running" is always among them, and any answer may use *)
(* a vocabulary the adapter does not know.                                 *)
(***************************************************************************)
Reports(o) ==
  IF o \notin Attempts \/ op[o] = "absent" THEN {}
  ELSE {"accepted", "pending", "unknown"} \union ({op[o]} \ {"running"})

-----------------------------------------------------------------------------
(***************************************************************************)
(* Dispatch.                                                               *)
(***************************************************************************)
claim_for_dispatch(r) ==
  LET n == r.attempt_count + 1
  IN  /\ row' = begin_dispatch(r)
      /\ call' = [call EXCEPT ![n] = "calling"]
      /\ wire' = wire \union {n}

\* dispatch() after the creating transaction; it raises when the row moved on meanwhile.
Dispatch ==
  LET ready == IF row.status = "received" THEN begin_validation(row) ELSE row
  IN  /\ pending_dispatch
      /\ pending_dispatch' = FALSE
      /\ \/ /\ can_transition(ready.status, "dispatching")
            /\ claim_for_dispatch(ready)
         \/ /\ ~ can_transition(ready.status, "dispatching")
            /\ UNCHANGED <<row, call, wire>>
      /\ UNCHANGED <<operator_retries, op, receipt, recon, cancel>>

\* The retry worker locks a due row and claims it in the same transaction.
ClaimDueForRetry ==
  /\ row.status = "retry_scheduled"
  /\ row.next_retry_at
  /\ claim_for_dispatch(row)
  /\ UNCHANGED <<pending_dispatch, operator_retries, op, receipt, recon, cancel>>

(***************************************************************************)
(* The results of a create call.  An acceptance needs a processed create;  *)
(* Cobalt's adapter does not believe a terminal status on create.  Errors: *)
(* "timeout", "transient" (every other retryable error) and "permanent".   *)
(***************************************************************************)
create_status(s) ==
  IF row.provider = "cobalt" /\ s \in {"succeeded", "failed"} THEN "unknown" ELSE s

Acceptances(n) ==
  IF n \in wire THEN {}
  ELSE {[accepted |-> TRUE, status |-> create_status(s), reference |-> OperationOf(n)] :
          s \in Reports(OperationOf(n))}
       \union {[accepted |-> TRUE, status |-> "accepted", reference |-> NoReference]}

Errors == {[accepted |-> FALSE, status |-> e, reference |-> NoReference] :
             e \in {"timeout", "transient", "permanent"}}

apply_acceptance(r, result) ==
  CASE result.status = "succeeded" -> mark_succeeded(r, result.reference)
    [] result.status \in {"accepted", "pending"} ->
         IF result.reference = NoReference THEN mark_manual_review(r)
                                           ELSE mark_accepted(r, result.reference)
    [] result.status = "cancelled" -> mark_cancelled(r)
    [] result.status \in {"failed", "unknown"} -> mark_manual_review(r)

has_attempts_remaining(attempt_count) == attempt_count < MaxAttempts

should_retry(attempt_count, error) ==
  error # "permanent" /\ has_attempts_remaining(attempt_count)

\* Fault: an error that is not retried is only logged.
apply_failure_logging_only(r, error) ==
  IF should_retry(r.attempt_count, error) THEN schedule_retry(r) ELSE r

apply_failure(r, error) ==
  IF should_retry(r.attempt_count, error) THEN schedule_retry(r)
  ELSE IF error = "timeout" THEN mark_manual_review(r)
  ELSE mark_failed(r)

record_superseded(r, result) ==
  IF result.reference # NoReference /\ r.reference = NoReference
  THEN attach_provider_reference(r, result.reference)
  ELSE r

\* Fault: the outcome is applied without looking at the status found.
settled_row_unchecked(result) ==
  IF result.accepted THEN apply_acceptance(row, result) ELSE apply_failure(row, result.status)

\* The settle transaction tests the status only, not which attempt it belongs to.
settled_row(result) ==
  IF row.status # "dispatching" THEN record_superseded(row, result)
  ELSE IF result.accepted THEN apply_acceptance(row, result)
  ELSE apply_failure(row, result.status)

\* A definite answer to a create that was sent once: nothing of it is left on the wire.
answers_create(result) ==
  result.status = "permanent" /\ ~ supports_provider_idempotency(row.provider)

CompleteAttempt(n) ==
  /\ call[n] = "calling"
  /\ call' = [call EXCEPT ![n] = "settled"]
  /\ \E result \in Acceptances(n) \union Errors :
       /\ row' = settled_row(result)
       /\ wire' = IF answers_create(result) THEN wire \ {n} ELSE wire
  /\ UNCHANGED <<pending_dispatch, operator_retries, op, receipt, recon, cancel>>

\* The process dies, or an unexpected exception escapes, before the settle transaction.
CrashInCall(n) ==
  /\ call[n] = "calling"
  /\ call' = [call EXCEPT ![n] = "crashed"]
  /\ UNCHANGED <<row, pending_dispatch, operator_retries, wire, op, receipt, recon, cancel>>

\* The API process dies between the creating transaction and dispatch().
CrashBeforeDispatch ==
  /\ pending_dispatch
  /\ pending_dispatch' = FALSE
  /\ UNCHANGED <<row, operator_retries, call, wire, op, receipt, recon, cancel>>

-----------------------------------------------------------------------------
(***************************************************************************)
(* Operator actions.                                                       *)
(***************************************************************************)
RetryRequest ==
  /\ row.status \in MANUALLY_RETRYABLE_STATUSES
  /\ operator_retries < MaxOperatorRetries
  /\ row' = restore_for_retry(row)
  /\ operator_retries' = operator_retries + 1
  /\ UNCHANGED <<pending_dispatch, call, wire, op, receipt, recon, cancel>>

assert_cancellable ==
  /\ row.status \in CANCELLABLE_STATUSES
  /\ row.status = "pending" => supports_cancellation(row.provider)

\* No reference: the cancellation is decided locally, in one transaction.
CancelLocally ==
  /\ assert_cancellable
  /\ row.reference = NoReference
  /\ row' = mark_cancelled(row)
  /\ UNCHANGED <<pending_dispatch, operator_retries, call, wire, op, receipt, recon, cancel>>

\* A gateway without cancellation raises, which changes nothing.
CancelAtProvider(c) ==
  /\ cancel[c] = NoReference
  /\ assert_cancellable
  /\ row.reference # NoReference
  /\ supports_cancellation(row.provider)
  /\ cancel' = [cancel EXCEPT ![c] = row.reference]
  /\ UNCHANGED <<row, pending_dispatch, operator_retries, call, wire, op, receipt, recon>>

\* Fault: any answer to the cancel call counts as a cancellation.
SettleCancellation_unconfirmed(c) ==
  /\ cancel[c] # NoReference
  /\ cancel' = [cancel EXCEPT ![c] = NoReference]
  /\ row' = IF row.status \in Terminal THEN row ELSE mark_cancelled(row)
  /\ UNCHANGED <<pending_dispatch, operator_retries, call, wire, op, receipt, recon>>

(***************************************************************************)
(* The provider's answer.  Cobalt's adapter reports acceptance only for a  *)
(* job that is cancelled; a refusal or an error leaves the row alone.      *)
(***************************************************************************)
SettleCancellation(c) ==
  /\ cancel[c] # NoReference
  /\ cancel' = [cancel EXCEPT ![c] = NoReference]
  /\ \/ /\ op[cancel[c]] = "cancelled"
        /\ row.status \notin Terminal
        /\ row' = mark_cancelled(row)
     \/ row' = row
  /\ UNCHANGED <<pending_dispatch, operator_retries, call, wire, op, receipt, recon>>

-----------------------------------------------------------------------------
(***************************************************************************)
(* Reconciliation.  The candidate is read without a lock and its reference *)
(* is used after the provider answered.                                    *)
(***************************************************************************)
FindCandidate(r) ==
  /\ ~ recon[r].busy
  /\ row.status \in RECONCILABLE_STATUSES
  /\ recon' = [recon EXCEPT ![r] = [busy |-> TRUE, reference |-> row.reference]]
  /\ UNCHANGED <<row, pending_dispatch, operator_retries, call, wire, op, receipt, cancel>>

ApplyProviderState(r, status) ==
  /\ recon[r].busy
  /\ supports_status_lookup(row.provider)
  /\ status \in Reports(recon[r].reference) \ {"unknown"}
  /\ row' = apply_normalized_status(row, status, recon[r].reference)
  /\ recon' = [recon EXCEPT ![r] = idle]
  /\ UNCHANGED <<pending_dispatch, operator_retries, call, wire, op, receipt, cancel>>

escalated(r) ==
  IF r.status = "manual_review" \/ r.status \in Terminal THEN r ELSE mark_manual_review(r)

\* No reference or no lookup and the grace period is over, an unknown status, or not found.
Escalate(r) ==
  /\ recon[r].busy
  /\ row' = escalated(row)
  /\ recon' = [recon EXCEPT ![r] = idle]
  /\ UNCHANGED <<pending_dispatch, operator_retries, call, wire, op, receipt, cancel>>

\* Inside the grace period, the provider is unreachable, or the worker dies.
LeaveAlone(r) ==
  /\ recon[r].busy
  /\ recon' = [recon EXCEPT ![r] = idle]
  /\ UNCHANGED <<row, pending_dispatch, operator_retries, call, wire, op, receipt, cancel>>

-----------------------------------------------------------------------------
(***************************************************************************)
(* Webhooks.  The receipt is committed first and processed in a            *)
(* transaction of its own; one that matches no row is deferred to the      *)
(* webhook worker.                                                         *)
(***************************************************************************)
PersistReceipt(e) ==
  /\ receipt[e] = "none"
  /\ e.status \in Reports(e.reference)
  /\ Cardinality({f \in Event : receipt[f] # "none"}) < MaxEvents
  /\ receipt' = [receipt EXCEPT ![e] = "received"]
  /\ UNCHANGED <<row, pending_dispatch, operator_retries, call, wire, op, recon, cancel>>

ProcessReceipt(e) ==
  /\ receipt[e] \in {"received", "deferred"}
  /\ \/ /\ row.reference = e.reference
        /\ row' = apply_normalized_status(row, e.status, e.reference)
        /\ receipt' = [receipt EXCEPT ![e] = "processed"]
     \/ /\ row.reference # e.reference
        /\ receipt' = [receipt EXCEPT ![e] = "deferred"]
        /\ UNCHANGED row
  /\ UNCHANGED <<pending_dispatch, operator_retries, call, wire, op, recon, cancel>>

\* The worker drops a deferred receipt by its age alone.
AbandonReceipt(e) ==
  /\ receipt[e] = "deferred"
  /\ receipt' = [receipt EXCEPT ![e] = "abandoned"]
  /\ UNCHANGED <<row, pending_dispatch, operator_retries, call, wire, op, recon, cancel>>

-----------------------------------------------------------------------------
Dispatching ==
  \/ Dispatch
  \/ ClaimDueForRetry
  \/ \E n \in Attempts : CompleteAttempt(n)

Crashing ==
  \/ CrashBeforeDispatch
  \/ \E n \in Attempts : CrashInCall(n)

Operating ==
  \/ RetryRequest
  \/ CancelLocally
  \/ \E c \in Cancellers : CancelAtProvider(c) \/ SettleCancellation(c)

Reconciling ==
  \E r \in Reconcilers :
    \/ FindCandidate(r)
    \/ \E status \in NormalizedStatus : ApplyProviderState(r, status)
    \/ Escalate(r)
    \/ LeaveAlone(r)

Receiving ==
  \E e \in Event : PersistReceipt(e) \/ ProcessReceipt(e) \/ AbandonReceipt(e)

Providing ==
  \/ \E n \in Attempts : ProviderCreates(n)
  \/ \E o \in Attempts : ProviderFinishes(o)

Next == Dispatching \/ Crashing \/ Operating \/ Reconciling \/ Receiving \/ Providing

Spec == Init /\ [][Next]_vars

(***************************************************************************)
(* Fairness.  Workers poll forever and every provider call is bounded by   *)
(* its timeout budget, so their steps are weakly fair.  A reconciler that  *)
(* keeps returning to a request finds the grace period over at last, and a *)
(* provider that is asked again and again about a finished operation says  *)
(* so at last: strong fairness.  Crashes, operators, webhooks and the      *)
(* provider's own progress are never owed.                                 *)
(***************************************************************************)
CannotAsk(r) == recon[r].reference = NoReference \/ ~ supports_status_lookup(row.provider)

ReportFinished(r) ==
  \E status \in {"succeeded", "failed", "cancelled"} : ApplyProviderState(r, status)

ReportProgress(r) == ApplyProviderState(r, "pending")

Finish(r) ==
  LeaveAlone(r) \/ Escalate(r) \/ \E status \in NormalizedStatus : ApplyProviderState(r, status)

Fairness ==
  /\ WF_vars(ClaimDueForRetry)
  /\ \A n \in Attempts : WF_vars(CompleteAttempt(n))
  /\ \A r \in Reconcilers :
       /\ WF_vars(FindCandidate(r))
       /\ WF_vars(Finish(r))
       /\ SF_vars(CannotAsk(r) /\ Escalate(r))
       /\ SF_vars(ReportFinished(r))
       /\ SF_vars(ReportProgress(r))

FairSpec == Spec /\ Fairness

-----------------------------------------------------------------------------
(***************************************************************************)
(* Properties.                                                             *)
(***************************************************************************)

\* Every variable keeps its type; in particular no handler invents a status or a reference.
TypeOK ==
  /\ row \in Row(Providers, Attempts)
  /\ pending_dispatch \in BOOLEAN
  /\ operator_retries \in 0 .. MaxOperatorRetries
  /\ call \in [Attempts -> CallPhase]
  /\ wire \subseteq Attempts
  /\ op \in [Attempts -> OpState]
  /\ receipt \in [Event -> ReceiptStatus]
  /\ recon \in [Reconcilers -> [busy : BOOLEAN, reference : References]]
  /\ cancel \in [Cancellers -> References]

(***************************************************************************)
(* The platform calls a provider at most max_attempts times, plus once per *)
(* operator retry, whatever crashes, webhooks and escalations interleave:  *)
(* begin_dispatch counts the attempt before the call and nothing resets    *)
(* the count.                                                              *)
(***************************************************************************)
RetriesBounded == row.attempt_count <= MaxAttempts + operator_retries

(***************************************************************************)
(* The timestamps other parts query agree with the status: the retry       *)
(* worker finds exactly the scheduled rows (next_retry_at), and a row has  *)
(* a completion time only once it is settled or was settled before being   *)
(* put up for review.                                                      *)
(***************************************************************************)
TimestampsAgree ==
  /\ row.next_retry_at <=> row.status = "retry_scheduled"
  /\ row.completed_at => row.status \in {"succeeded", "failed", "cancelled", "manual_review"}
  /\ row.status \in {"succeeded", "failed", "cancelled"} => row.completed_at

(***************************************************************************)
(* A row says succeeded only when the operation it is linked to succeeded  *)
(* at the provider, by whichever of the create response, a webhook or      *)
(* reconciliation the outcome came and however late.                       *)
(***************************************************************************)
SuccessIsTheProviders ==
  row.status = "succeeded" => row.reference # NoReference /\ op[row.reference] = "succeeded"

(***************************************************************************)
(* A dispatching row belongs to an attempt that is still running or whose  *)
(* process died: an attempt that reached its settle transaction never      *)
(* leaves the row dispatching, even when it races another attempt.         *)
(***************************************************************************)
DispatchingHasOwner ==
  row.status = "dispatching" =>
    row.attempt_count > 0 /\ call[row.attempt_count] \in {"calling", "crashed"}

(***************************************************************************)
(* No handler changes the status against the transition table, so          *)
(* assert_transition_allowed never fires outside a dispatch() that finds   *)
(* the row cancelled.  dispatch() takes received through validating to     *)
(* dispatching in one transaction.                                         *)
(***************************************************************************)
LegalTransitions ==
  [][\/ row'.status = row.status
     \/ can_transition(row.status, row'.status)
     \/ row.status = "received" /\ row'.status = "dispatching"]_vars

(***************************************************************************)
(* Once a row is succeeded or cancelled no late response, webhook, poll,   *)
(* cancellation or escalation changes it; a superseded dispatch may only   *)
(* add a missing provider reference.                                       *)
(***************************************************************************)
TerminalIsFinal ==
  [][row.status \in Terminal =>
       \/ row' = row
       \/ /\ row.reference = NoReference
          /\ row' = attach_provider_reference(row, row'.reference)]_vars

(***************************************************************************)
(* The lifecycle implements RequestContract: behind all attempts, retries, *)
(* webhooks and polls there is one request whose status moves legally,     *)
(* whose provider acts only once it was dispatched, and which succeeds     *)
(* only when the provider did.                                             *)
(***************************************************************************)
Contract ==
  INSTANCE RequestContract WITH
    status <- row.status,
    sent <- row.attempt_count > 0,
    effect <- \E o \in Attempts : op[o] = "succeeded"

ImplementsContract == Contract!Spec

(***************************************************************************)
(* "Reconciliation never guesses": at a provider that honours the          *)
(* idempotency key a pending row is declared succeeded, failed or          *)
(* cancelled only when that is the state of the operation the row tracks   *)
(* (reconciliation.py, cancel_request.py, ingest_webhook.py).  At the      *)
(* other provider a poll about an earlier operation may be applied to a    *)
(* row that has moved to a later one.                                      *)
(***************************************************************************)
PendingLeavesOnEvidence ==
  [][/\ supports_provider_idempotency(row.provider)
     /\ row.status = "pending"
     /\ row'.status \in {"succeeded", "failed", "cancelled"}
     => op[row.reference] = row'.status]_vars

(***************************************************************************)
(* A request does not stay dispatching or waiting for a retry for ever,    *)
(* even when the process that claimed it dies: the retry worker or         *)
(* reconciliation moves it on.                                             *)
(***************************************************************************)
InFlightSettles ==
  row.status \in {"dispatching", "retry_scheduled"} ~>
    row.status \notin {"dispatching", "retry_scheduled"}

(***************************************************************************)
(* A lost completion webhook does not strand a pending request: where the  *)
(* provider can be asked, reconciliation applies the finished operation's  *)
(* outcome; where it cannot, the request is escalated.                     *)
(***************************************************************************)
LostWebhookRecovered ==
  (/\ row.status = "pending"
   /\ supports_status_lookup(row.provider) => op[row.reference] # "running")
    ~> row.status # "pending"
=============================================================================
