-------------------------- MODULE ProviderSandbox ---------------------------
(***************************************************************************)
(* infrastructure/providers/sandbox: the three fake providers the platform *)
(* is run against.  A request's external reference selects a scenario, so  *)
(* the scenario belongs to the request.  The operators below are the       *)
(* sandbox's handlers: given the store, what is answered and what the      *)
(* store becomes.  "outcome" is not a field of the source: it is what the  *)
(* operation really came to, for the properties.                           *)
(***************************************************************************)
EXTENDS ProviderAdapters

CONSTANT OperationIds   \* the identifiers next_id() gives out, in their order

\* A sequence number and a random suffix make every identifier new.
ASSUME OperationIdsAssumption ==
  OperationIds \in Seq(STRING \ {None}) /\ IsInjective(OperationIds)

Scenario ==
  {"healthy", "timeout", "slow", "rate_limit", "unavailable_then_ok", "always_unavailable",
   "reject", "auth_challenge", "async_failure", "no_reference", "unknown_status",
   "webhook_first"}

UNAVAILABLE_ATTEMPTS == 2

\* A store: its operations in the order of creation, and the attempt counter.
empty_store(requests) == [operations |-> <<>>, attempts |-> [r \in requests |-> 0]]

get(store, id) ==
  LET found == {i \in DOMAIN store.operations : store.operations[i].id = id}
  IN  IF found = {} THEN 0 ELSE Min(found)

answer(code, body) == [code |-> code, body |-> body]

\* What the caller sees of a handler that outlasts its timeout.
Silence == answer(0, <<>>)

-----------------------------------------------------------------------------
FIRST_STATUS == [northstar |-> "queued", meridian |-> "processing", cobalt |-> "accepted"]

succeeded_status == [northstar |-> "complete", meridian |-> "fulfilled", cobalt |-> "succeeded"]

failed_status == [northstar |-> "error", meridian |-> "rejected", cobalt |-> "failed"]

SandboxOperation(requests) ==
  [id : Range(OperationIds), scenario : Scenario,
   status : Range(FIRST_STATUS) \union Range(succeeded_status) \union Range(failed_status)
              \union {"cancelled"},
   failed : BOOLEAN, idempotency_key : requests \union {None}, request : requests,
   outcome : {"open", "succeeded", "failed", "cancelled"}]

\* Fault: Northstar's two completion events are exchanged.
success_event_swapped ==
  [northstar |-> "operation.failed", meridian |-> "request.fulfilled",
   cobalt |-> "job.succeeded"]

success_event ==
  [northstar |-> "operation.completed", meridian |-> "request.fulfilled",
   cobalt |-> "job.succeeded"]

failure_event ==
  [northstar |-> "operation.failed", meridian |-> "request.rejected", cobalt |-> "job.failed"]

unknown_status ==
  [northstar |-> "awaiting_downstream_review", meridian |-> "held_for_review",
   cobalt |-> "quarantined"]

counts_attempts(scenario) == scenario \in {"unavailable_then_ok", "auth_challenge"}

\* The error a scenario demands on its n-th attempt, Silence for one that comes too late.
apply_pre_response_scenario(scenario, n) ==
  CASE scenario = "timeout"                                 -> {Silence}
    [] scenario = "rate_limit"                              -> {answer(429, <<>>)}
    [] scenario = "always_unavailable"                      -> {answer(503, <<>>)}
    [] scenario = "unavailable_then_ok" /\ n <= UNAVAILABLE_ATTEMPTS -> {answer(503, <<>>)}
    [] scenario = "reject"                                  -> {answer(400, <<>>)}
    [] scenario = "auth_challenge" /\ n = 1                 -> {answer(401, <<>>)}
    [] OTHER                                                -> {}

-----------------------------------------------------------------------------
(***************************************************************************)
(* Creating.  completed() is _schedule_completion: the stored status is    *)
(* final at once, the webhook that says so is sent later.                  *)
(***************************************************************************)
new_operation(p, store, r, scenario, key) ==
  [id |-> OperationIds[Len(store.operations) + 1], scenario |-> scenario,
   status |-> FIRST_STATUS[p], failed |-> FALSE,
   idempotency_key |-> key, request |-> r, outcome |-> "open"]

completed(p, o) ==
  IF o.scenario = "async_failure"
  THEN [o EXCEPT !.status = failed_status[p], !.failed = TRUE, !.outcome = "failed"]
  ELSE [o EXCEPT !.status = succeeded_status[p], !.outcome = "succeeded"]

completion_event(p, o) == IF o.failed THEN failure_event[p] ELSE success_event[p]

create_body(p, id, status, deduplicated) ==
  CASE p = "northstar" -> [operation_id |-> id, state |-> status, deduplicated |-> deduplicated]
    [] p = "meridian"  -> [requestId |-> id, status |-> status]
    [] p = "cobalt"    -> [job_id |-> id, status |-> status]

never_completes(p, scenario) ==
  \/ scenario = "unknown_status"
  \/ scenario = "no_reference" /\ p = "northstar"

existing_operation(p, store, key) ==
  {i \in DOMAIN store.operations :
     dedupes_creates(p) /\ key # None /\ store.operations[i].idempotency_key = key}

\* The answer to an accepted create, given the operation and whether it was deduplicated.
accepted_answer(p, o, scenario, deduplicated) ==
  LET code == IF p = "cobalt" THEN 202 ELSE 201
  IN  CASE scenario = "no_reference" /\ p = "northstar" -> answer(code, [state |-> "queued"])
        [] scenario = "unknown_status" ->
             answer(code, create_body(p, o.id, unknown_status[p], deduplicated))
        [] OTHER -> answer(code, create_body(p, o.id, o.status, deduplicated))

create_operation(p, store, r, scenario, key) ==
  LET n       == store.attempts[r] + 1
      counted == IF counts_attempts(scenario)
                 THEN [store EXCEPT !.attempts[r] = Min({n, UNAVAILABLE_ATTEMPTS + 1})]
                 ELSE store
      early   == apply_pre_response_scenario(scenario, n)
      known   == existing_operation(p, store, key)
      fresh   == new_operation(p, store, r, scenario, key)
      kept    == IF never_completes(p, scenario) THEN fresh ELSE completed(p, fresh)
  IN  IF early # {} THEN [store |-> counted, answer |-> CHOOSE a \in early : TRUE, sent |-> {}]
      ELSE IF known # {}
           THEN [store |-> counted, sent |-> {},
                 answer |-> accepted_answer(p, store.operations[Min(known)], scenario, TRUE)]
      ELSE [store |-> [counted EXCEPT !.operations = Append(@, kept)],
            answer |-> accepted_answer(p, fresh, scenario, FALSE),
            sent |-> IF never_completes(p, scenario) THEN {}
                     ELSE {[operation |-> fresh.id, event_type |-> completion_event(p, kept)]}]

-----------------------------------------------------------------------------
(***************************************************************************)
(* Looking up and cancelling.  Meridian's status endpoint spells its keys  *)
(* unlike its create endpoint.                                             *)
(***************************************************************************)
status_body(p, o) ==
  IF p = "meridian" THEN [request_id |-> o.id, state |-> o.status]
                    ELSE [job_id |-> o.id, status |-> o.status]

get_operation(p, store, id) ==
  LET i == get(store, id)
  IN  [store |-> store, sent |-> {},
       answer |-> IF i = 0 THEN answer(404, <<>>)
                  ELSE answer(200, status_body(p, store.operations[i]))]

cancel_job(p, store, id) ==
  LET i         == get(store, id)
      cancelled == [store.operations[i] EXCEPT !.status = "cancelled", !.outcome = "cancelled"]
  IN  IF i = 0 THEN [store |-> store, sent |-> {}, answer |-> answer(404, <<>>)]
      ELSE IF store.operations[i].status \in {"succeeded", "failed"}
           THEN [store |-> store, sent |-> {},
                 answer |-> answer(200, status_body(p, store.operations[i]))]
      ELSE [store |-> [store EXCEPT !.operations[i] = cancelled], sent |-> {},
            answer |-> answer(200, status_body(p, cancelled))]

-----------------------------------------------------------------------------
(***************************************************************************)
(* The bodies of sandbox/webhooks.py, for event n of an operation.         *)
(***************************************************************************)
northstar_webhook(o, event_type, event_id) ==
  [event_id |-> event_id, event_type |-> event_type,
   data |-> [operation_id |-> o.id, state |-> o.status]]

meridian_webhook(o, event_type, event_id) ==
  [notificationId |-> event_id, notificationType |-> event_type,
   requestId |-> o.id, status |-> o.status]

cobalt_webhook(o, event_type, event_id) ==
  [id |-> event_id, type |-> event_type, job |-> [job_id |-> o.id, status |-> o.status]]

webhook_body(p, o, event_type, event_id) ==
  CASE p = "northstar" -> northstar_webhook(o, event_type, event_id)
    [] p = "meridian"  -> meridian_webhook(o, event_type, event_id)
    [] p = "cobalt"    -> cobalt_webhook(o, event_type, event_id)
=============================================================================
