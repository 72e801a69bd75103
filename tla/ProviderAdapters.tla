-------------------------- MODULE ProviderAdapters --------------------------
(***************************************************************************)
(* What the three adapters of infrastructure/providers make of what a      *)
(* provider says: of the answer to a call, and of a webhook.  A JSON       *)
(* object is a record with the provider's own keys, a value that is absent *)
(* or null is None.  Amounts that are only passed on (messages, metadata,  *)
(* correlation ids) are left out.                                          *)
(***************************************************************************)
EXTENDS Integers, Sequences, FiniteSetsExt, TLC, RequestStateMachine

CONSTANT ReplayWindow   \* webhook_replay_window_seconds

ASSUME ReplayWindowAssumption == ReplayWindow \in Nat

None == "none"

Provider == {"northstar", "meridian", "cobalt"}

OperationType ==
  {"resource_provision", "resource_deprovision", "resource_update", "access_grant",
   "access_revoke"}

supported_operations ==
  [northstar |-> {"resource_provision", "resource_deprovision", "resource_update"},
   meridian  |-> {"resource_provision", "access_grant", "access_revoke"},
   cobalt    |-> OperationType]

dedupes_creates(p) == p \in {"northstar", "cobalt"}

cancels(p) == p = "cobalt"

answers_status(p) == p \in {"meridian", "cobalt"}

STATUS_MAP ==
  [northstar |-> [queued |-> "accepted", accepted |-> "accepted", running |-> "pending",
                  in_progress |-> "pending", complete |-> "succeeded",
                  completed |-> "succeeded", error |-> "failed", failed |-> "failed"],
   meridian  |-> [received |-> "accepted", processing |-> "pending", pending |-> "pending",
                  fulfilled |-> "succeeded", success |-> "succeeded",
                  rejected |-> "failed", failure |-> "failed", cancelled |-> "cancelled"],
   cobalt    |-> [accepted |-> "accepted", scheduled |-> "accepted",
                  executing |-> "pending", succeeded |-> "succeeded", failed |-> "failed",
                  cancelled |-> "cancelled", canceled |-> "cancelled"]]

map_status(p, raw) ==
  IF raw \in DOMAIN STATUS_MAP[p] THEN STATUS_MAP[p][raw] ELSE "unknown"

\* The first of several spellings of a key that is present.
first_present(body, keys) ==
  LET present == {i \in DOMAIN keys : keys[i] \in DOMAIN body /\ body[keys[i]] # None}
  IN  IF present = {} THEN None ELSE body[keys[Min(present)]]

-----------------------------------------------------------------------------
(***************************************************************************)
(* Results and errors.  A ProviderOperationResult is a result; an error is *)
(* either carried by a result or raised.                                   *)
(***************************************************************************)
ErrorCategory ==
  {"provider_validation", "provider_authentication", "provider_rate_limit",
   "provider_timeout", "provider_unavailable", "conflict"}

Error == [category : ErrorCategory, retryable : BOOLEAN]

RETRYABLE_BY_DEFAULT == {"provider_rate_limit", "provider_timeout", "provider_unavailable"}

error_of(category) ==
  [category |-> category, retryable |-> category \in RETRYABLE_BY_DEFAULT]

result(status, reference) == [raised |-> FALSE, status |-> status, reference |-> reference]

raised(error) == [raised |-> TRUE, error |-> error]

RETRYABLE_STATUS_CODES == {429, 502, 503, 504}

classify_response(code) ==
  CASE code = 429                    -> error_of("provider_rate_limit")
    [] code \in {401, 403}           -> error_of("provider_authentication")
    [] code \in {400, 404, 409, 422} -> error_of("provider_validation")
    [] code \in RETRYABLE_STATUS_CODES \ {429} -> error_of("provider_unavailable")
    [] OTHER -> [category |-> "provider_unavailable",
                 retryable |-> code \notin {500, 501, 505}]

\* "timeout": the answer did not come in time; "unreachable": no connection was made.
classify_transport_error(kind) ==
  IF kind = "timeout" THEN error_of("provider_timeout") ELSE error_of("provider_unavailable")

-----------------------------------------------------------------------------
(***************************************************************************)
(* The adapters' reading of a successful answer.                           *)
(***************************************************************************)
REFERENCE_KEYS ==
  [northstar |-> <<"operation_id">>,
   meridian  |-> <<"requestId", "request_id", "id", "serviceRequestId">>,
   cobalt    |-> <<"job_id", "jobId", "id">>]

CREATE_STATUS_KEYS ==
  [northstar |-> <<"state">>,
   meridian  |-> <<"status", "state", "requestStatus">>,
   cobalt    |-> <<"status", "state">>]

\* Fault: the status endpoint is read with the key of the create answer.
STATUS_KEYS_one_spelling == [meridian |-> <<"status">>, cobalt |-> <<"status">>]

\* Lookups and cancellations; Northstar has neither.
STATUS_KEYS ==
  [meridian |-> <<"status", "state", "requestStatus", "currentState">>,
   cobalt   |-> <<"status", "state">>]

created(p, body) ==
  LET reference == first_present(body, REFERENCE_KEYS[p])
      status    == map_status(p, first_present(body, CREATE_STATUS_KEYS[p]))
  IN  IF reference = None THEN result("accepted", None)
      ELSE IF p = "cobalt" /\ status \in {"succeeded", "failed"}
           THEN result("unknown", reference)
      ELSE result(status, reference)

\* A failure the provider reports is a result, not an exception.
operation_status(p, reference, body) ==
  result(map_status(p, first_present(body, STATUS_KEYS[p])), reference)

\* Anything but "cancelled" is a refusal: failure() reports FAILED with a conflict.
cancel_result(p, reference, body) ==
  IF map_status(p, first_present(body, STATUS_KEYS[p])) = "cancelled"
  THEN result("cancelled", reference)
  ELSE [raised |-> FALSE, status |-> "failed", reference |-> reference, refused |-> TRUE]

-----------------------------------------------------------------------------
(***************************************************************************)
(* Webhooks.  A delivery has a signature (missing, matching what it covers *)
(* or not), a timestamp header (missing, unreadable, or readable and "age" *)
(* seconds old, negative when it lies ahead) and a key id.                 *)
(***************************************************************************)
Abs(n) == IF n < 0 THEN -n ELSE n

\* Fault: only old deliveries are refused, not those from the future.
within_replay_window_past_only(w) == w.stamp = "readable" /\ w.age <= ReplayWindow

within_replay_window(w) == w.stamp = "readable" /\ Abs(w.age) <= ReplayWindow

northstar_validate(w) ==
  /\ w.signature # None
  /\ w.stamp # None
  /\ within_replay_window(w)
  /\ w.signature = "matching"

meridian_validate(w) ==
  /\ w.signature # None
  /\ w.signature = "matching"

cobalt_validate(w) ==
  /\ w.signature # None
  /\ w.stamp # None
  /\ w.key_id # None
  /\ within_replay_window(w)
  /\ w.signature = "matching"

validate_webhook(p, w) ==
  CASE p = "northstar" -> northstar_validate(w)
    [] p = "meridian"  -> meridian_validate(w)
    [] p = "cobalt"    -> cobalt_validate(w)

WEBHOOK_EVENT_STATUS ==
  [northstar |-> [type \in {"operation.completed", "operation.failed", "operation.progressed"} |->
                    CASE type = "operation.completed"  -> "succeeded"
                      [] type = "operation.failed"     -> "failed"
                      [] type = "operation.progressed" -> "pending"],
   meridian  |-> <<>>,
   cobalt    |-> [type \in {"job.succeeded", "job.failed", "job.cancelled", "job.started"} |->
                    CASE type = "job.succeeded" -> "succeeded"
                      [] type = "job.failed"    -> "failed"
                      [] type = "job.cancelled" -> "cancelled"
                      [] type = "job.started"   -> "pending"]]

event_status(p, type, raw) ==
  IF type \in DOMAIN WEBHOOK_EVENT_STATUS[p] THEN WEBHOOK_EVENT_STATUS[p][type]
                                             ELSE map_status(p, raw)

\* What normalize_webhook raises for.
Malformed == [id |-> None, status |-> "unknown", reference |-> None]

northstar_normalize(body) ==
  IF \/ first_present(body, <<"event_id">>) = None
     \/ first_present(body, <<"event_type">>) = None
     \/ "data" \notin DOMAIN body
  THEN Malformed
  ELSE [id |-> body.event_id,
        status |-> event_status("northstar", body.event_type,
                                first_present(body.data, <<"state">>)),
        reference |-> first_present(body.data, <<"operation_id">>)]

meridian_normalize(body) ==
  LET id   == first_present(body, <<"notificationId", "notification_id", "eventId">>)
      type == first_present(body, <<"notificationType", "type", "eventType">>)
  IN  IF id = None \/ type = None THEN Malformed
      ELSE [id |-> id,
            status |-> map_status("meridian",
                         first_present(body, <<"status", "state", "requestStatus">>)),
            reference |-> first_present(body, <<"requestId", "request_id",
                                                "serviceRequestId">>)]

cobalt_normalize(body) ==
  LET id   == first_present(body, <<"id", "event_id">>)
      type == first_present(body, <<"type", "event_type">>)
      job  == IF "job" \in DOMAIN body THEN body.job ELSE <<>>
  IN  IF id = None \/ type = None THEN Malformed
      ELSE [id |-> id,
            status |-> event_status("cobalt", type, first_present(job, <<"status">>)),
            reference |-> first_present(job, <<"job_id", "jobId", "id">>)]

normalize_webhook(p, body) ==
  CASE p = "northstar" -> northstar_normalize(body)
    [] p = "meridian"  -> meridian_normalize(body)
    [] p = "cobalt"    -> cobalt_normalize(body)
=============================================================================
