----------------------- MODULE ProviderGateway_proofs -----------------------
(***************************************************************************)
(* ProviderGateway for any calls, requests, scenarios and faults: types,   *)
(* that a repeated create makes no second operation, that results are      *)
(* true and that webhooks tell the outcome.                                *)
(***************************************************************************)
EXTENDS ProviderGateway, FiniteSetTheorems, TLAPS

Stores == [operations : Seq(SandboxOperation(Requests)), attempts : [Requests -> Nat]]

CallRow ==
  [at : {"idle", "slot", "await", "done"}, kind : {"create", "status", "cancel"},
   request : Requests \union {None}, reference : Range(OperationIds) \union {None},
   attempt : 1 .. IN_PROCESS_MAX_ATTEMPTS, send : 1 .. 2, result : Result]

(***************************************************************************)
(* The inductive invariant.                                                *)
(***************************************************************************)

\* The stored status and flag of an operation say what it came to.
OperationFits(p, o) ==
  \/ o.outcome = "open" /\ o.status = FIRST_STATUS[p] /\ o.failed = FALSE
  \/ o.outcome = "succeeded" /\ o.status = succeeded_status[p] /\ o.failed = FALSE
  \/ o.outcome = "failed" /\ o.status = failed_status[p] /\ o.failed = TRUE
  \/ p = "cobalt" /\ o.outcome = "cancelled" /\ o.status = "cancelled"

\* The n-th operation has the n-th identifier.
OperationsFit(p, ops) ==
  \A i \in DOMAIN ops :
    /\ i \in DOMAIN OperationIds
    /\ ops[i].id = OperationIds[i]
    /\ OperationFits(p, ops[i])

\* Where creates are deduplicated, operations differ in their keys, which are their requests.
KeysFit(p, ops) ==
  dedupes_creates(p) =>
    \A i, j \in DOMAIN ops :
      /\ ops[i].idempotency_key = ops[i].request
      /\ ops[i].request = ops[j].request => i = j

\* A scheduled webhook is about an operation that ended, and says how.
SentFits(p, ops, ws) ==
  \A w \in ws :
    \E i \in DOMAIN ops :
      /\ w.operation = OperationIds[i]
      /\ w.event_type = completion_event(p, ops[i])
      /\ ops[i].outcome \in {"succeeded", "failed"}

\* A result that names an operation is true of it.
ResultFits(ops, kind, r) ==
  ~ r.raised /\ r.reference # None =>
    \E i \in DOMAIN ops :
      /\ r.reference = OperationIds[i]
      /\ kind = "create" /\ r.status \in {"succeeded", "failed", "cancelled"} =>
           r.status = ops[i].outcome
      /\ kind = "status" /\ ops[i].outcome \in {"succeeded", "failed"} =>
           r.status = ops[i].outcome
      /\ kind = "cancel" /\ r.status = "cancelled" => ops[i].outcome = "cancelled"

CallFits(p, ops, x) ==
  /\ x \in CallRow
  /\ x.at # "idle" /\ x.kind = "create" => x.request \in Requests
  /\ x.kind = "status" => p \in {"meridian", "cobalt"}
  /\ x.kind = "cancel" => p = "cobalt"
  /\ x.kind # "create" => x.at # "idle"
  /\ x.at # "done" => x.result = NoResult
  /\ x.kind = "create" /\ ~ dedupes_creates(p) => x.attempt = 1 /\ x.send = 1
  /\ ResultFits(ops, x.kind, x.result)

CallsFit(p, ops, cs) ==
  /\ cs \in [Calls -> CallRow]
  /\ \A c \in Calls : CallFits(p, ops, cs[c])

\* A message on the wire is one its call has sent.
MessageFits(p, cs, m) ==
  /\ m.call \in Calls
  /\ cs[m.call].at \in {"slot", "await", "done"}
  /\ m.kind = cs[m.call].kind
  /\ m.request = cs[m.call].request
  /\ m.reference = cs[m.call].reference
  /\ m.key = IF dedupes_creates(p) THEN m.request ELSE None
  /\ m = [call |-> m.call, attempt |-> m.attempt, send |-> m.send, kind |-> m.kind,
          request |-> m.request, reference |-> m.reference, key |-> m.key]

\* Without deduplication a create is sent once, so what it sent is gone when it made something.
SentOnce(p, cs, msgs) ==
  ~ dedupes_creates(p) =>
    \A m \in msgs : m.kind = "create" =>
      m.attempt = 1 /\ m.send = 1 /\ cs[m.call].at # "slot"

WireFits(p, cs, msgs) ==
  (\A m \in msgs : MessageFits(p, cs, m)) /\ SentOnce(p, cs, msgs)

\* Without deduplication every operation was made by a create call of its own.
Makes(ops, cs, msgs, maker) ==
  \A i \in DOMAIN ops :
    /\ cs[maker[i]].kind = "create"
    /\ cs[maker[i]].request = ops[i].request
    /\ cs[maker[i]].at \in {"await", "done"}
    /\ \A m \in msgs : m.call # maker[i]

MakersFit(p, ops, cs, msgs) ==
  ~ dedupes_creates(p) => \E maker \in Injection(DOMAIN ops, Calls) : Makes(ops, cs, msgs, maker)

GInv ==
  /\ provider \in Providers
  /\ scenario \in [Requests -> Scenarios]
  /\ store \in Stores
  /\ OperationsFit(provider, store.operations)
  /\ KeysFit(provider, store.operations)
  /\ SentFits(provider, store.operations, sent)
  /\ CallsFit(provider, store.operations, call)
  /\ WireFits(provider, call, wire)
  /\ MakersFit(provider, store.operations, call, wire)
  /\ faults \in 0 .. MaxFaults

-----------------------------------------------------------------------------
(***************************************************************************)
(* Reading JSON bodies.                                                    *)
(***************************************************************************)

\* A least element is the minimum.
LEMMA MinIs ==
  ASSUME NEW S \in SUBSET Int, NEW x \in S, \A y \in S : x <= y
  PROVE  Min(S) = x
<1>1. \A z \in S : (\A y \in S : z <= y) => z = x
  OBVIOUS
<1>2. \E z \in S : \A y \in S : z <= y
  OBVIOUS
<1> QED
  BY <1>1, <1>2, Zenon DEF Min

\* The first spelling of a key that a body has.
LEMMA FirstPresent ==
  ASSUME NEW body, NEW keys, NEW n \in Nat, DOMAIN keys = 1 .. n, NEW k \in 1 .. n,
         keys[k] \in DOMAIN body, body[keys[k]] # None,
         \A i \in 1 .. k - 1 : keys[i] \notin DOMAIN body
  PROVE  first_present(body, keys) = body[keys[k]]
<1> DEFINE present == {i \in DOMAIN keys : keys[i] \in DOMAIN body /\ body[keys[i]] # None}
<1>1. k \in present /\ present \in SUBSET Int
  OBVIOUS
<1>2. \A i \in present : k <= i
  OBVIOUS
<1>3. Min(present) = k
  BY <1>1, <1>2, MinIs, Zenon
<1> QED
  BY <1>1, <1>3, Zenon DEF first_present

\* The first key is read where the body has it.
LEMMA FirstOf ==
  ASSUME NEW body, NEW a, a \in DOMAIN body, body[a] # None
  PROVE  /\ first_present(body, <<a>>) = body[a]
         /\ \A b : first_present(body, <<a, b>>) = body[a]
         /\ \A b, c : first_present(body, <<a, b, c>>) = body[a]
         /\ \A b, c, d : first_present(body, <<a, b, c, d>>) = body[a]
<1>0. ASSUME NEW keys, NEW n \in Nat \ {0}, DOMAIN keys = 1 .. n, keys[1] = a
      PROVE  first_present(body, keys) = body[a]
  <2>1. n \in Nat /\ 1 \in 1 .. n /\ \A i \in 1 .. 1 - 1 : keys[i] \notin DOMAIN body
    OBVIOUS
  <2>2. keys[1] \in DOMAIN body /\ body[keys[1]] # None
    BY <1>0, Zenon
  <2>3. first_present(body, keys) = body[keys[1]]
    BY <1>0, <2>1, <2>2, FirstPresent, SMT
  <2> QED
    BY <1>0, <2>3, Zenon
<1>1. first_present(body, <<a>>) = body[a]
  <2>1. 1 \in Nat \ {0} /\ DOMAIN <<a>> = 1 .. 1 /\ <<a>>[1] = a
    OBVIOUS
  <2> QED
    BY <1>0, <2>1, Zenon
<1>2. ASSUME NEW b
      PROVE  first_present(body, <<a, b>>) = body[a]
  <2>1. 2 \in Nat \ {0} /\ DOMAIN <<a, b>> = 1 .. 2 /\ <<a, b>>[1] = a
    OBVIOUS
  <2> QED
    BY <1>0, <2>1, Zenon
<1>3. ASSUME NEW b, NEW c
      PROVE  first_present(body, <<a, b, c>>) = body[a]
  <2>1. 3 \in Nat \ {0} /\ DOMAIN <<a, b, c>> = 1 .. 3 /\ <<a, b, c>>[1] = a
    OBVIOUS
  <2> QED
    BY <1>0, <2>1, Zenon
<1>4. ASSUME NEW b, NEW c, NEW d
      PROVE  first_present(body, <<a, b, c, d>>) = body[a]
  <2>1. 4 \in Nat \ {0} /\ DOMAIN <<a, b, c, d>> = 1 .. 4 /\ <<a, b, c, d>>[1] = a
    OBVIOUS
  <2> QED
    BY <1>0, <2>1, Zenon
<1> QED
  BY <1>1, <1>2, <1>3, <1>4, Zenon

\* The second key is read where the body lacks the first.
LEMMA SecondOf ==
  ASSUME NEW body, NEW a, NEW b, NEW c, NEW d,
         a \notin DOMAIN body, b \in DOMAIN body, body[b] # None
  PROVE  first_present(body, <<a, b, c, d>>) = body[b]
<1>1. ASSUME NEW keys, NEW n \in Nat, 2 \in 1 .. n, DOMAIN keys = 1 .. n,
             keys[1] = a, keys[2] = b
      PROVE  first_present(body, keys) = body[b]
  <2>1. \A i \in 1 .. 2 - 1 : keys[i] \notin DOMAIN body
    BY <1>1
  <2>2. keys[2] \in DOMAIN body /\ body[keys[2]] # None
    BY <1>1, Zenon
  <2>3. first_present(body, keys) = body[keys[2]]
    BY <1>1, <2>1, <2>2, FirstPresent, SMT
  <2> QED
    BY <1>1, <2>3, Zenon
<1>2. /\ 4 \in Nat /\ 2 \in 1 .. 4 /\ DOMAIN <<a, b, c, d>> = 1 .. 4
      /\ <<a, b, c, d>>[1] = a /\ <<a, b, c, d>>[2] = b
  OBVIOUS
<1> QED
  BY <1>1, <1>2, Zenon

\* What an adapter reads from the answer to a create.
LEMMA ReadsCreate ==
  ASSUME NEW p \in Provider, NEW id, id # None, NEW status, status # None, NEW d
  PROVE  /\ first_present(create_body(p, id, status, d), REFERENCE_KEYS[p]) = id
         /\ first_present(create_body(p, id, status, d), CREATE_STATUS_KEYS[p]) = status
<1>1. CASE p = "northstar"
  <2> DEFINE body == [operation_id |-> id, state |-> status, deduplicated |-> d]
  <2>1. create_body(p, id, status, d) = body
    BY <1>1 DEF create_body
  <2>2. REFERENCE_KEYS[p] = <<"operation_id">> /\ CREATE_STATUS_KEYS[p] = <<"state">>
    BY <1>1 DEF REFERENCE_KEYS, CREATE_STATUS_KEYS
  <2>3. /\ "operation_id" \in DOMAIN body /\ body["operation_id"] = id /\ body["operation_id"] # None
        /\ "state" \in DOMAIN body /\ body["state"] = status /\ body["state"] # None
    OBVIOUS
  <2> HIDE DEF body
  <2>4. first_present(body, <<"operation_id">>) = body["operation_id"]
    BY <2>3, FirstOf, Zenon
  <2>5. first_present(body, <<"state">>) = body["state"]
    BY <2>3, FirstOf, Zenon
  <2> QED
    BY <2>1, <2>2, <2>3, <2>4, <2>5, Zenon
<1>2. CASE p = "meridian"
  <2> DEFINE body == [requestId |-> id, status |-> status]
  <2>1. create_body(p, id, status, d) = body
    BY <1>2 DEF create_body
  <2>2. /\ REFERENCE_KEYS[p] = <<"requestId", "request_id", "id", "serviceRequestId">>
        /\ CREATE_STATUS_KEYS[p] = <<"status", "state", "requestStatus">>
    BY <1>2 DEF REFERENCE_KEYS, CREATE_STATUS_KEYS
  <2>3. /\ "requestId" \in DOMAIN body /\ body["requestId"] = id /\ body["requestId"] # None
        /\ "status" \in DOMAIN body /\ body["status"] = status /\ body["status"] # None
    OBVIOUS
  <2> HIDE DEF body
  <2>4. first_present(body, <<"requestId", "request_id", "id", "serviceRequestId">>) = body["requestId"]
    BY <2>3, FirstOf, Zenon
  <2>5. first_present(body, <<"status", "state", "requestStatus">>) = body["status"]
    BY <2>3, FirstOf, Zenon
  <2> QED
    BY <2>1, <2>2, <2>3, <2>4, <2>5, Zenon
<1>3. CASE p = "cobalt"
  <2> DEFINE body == [job_id |-> id, status |-> status]
  <2>1. create_body(p, id, status, d) = body
    BY <1>3 DEF create_body
  <2>2. REFERENCE_KEYS[p] = <<"job_id", "jobId", "id">> /\ CREATE_STATUS_KEYS[p] = <<"status", "state">>
    BY <1>3 DEF REFERENCE_KEYS, CREATE_STATUS_KEYS
  <2>3. /\ "job_id" \in DOMAIN body /\ body["job_id"] = id /\ body["job_id"] # None
        /\ "status" \in DOMAIN body /\ body["status"] = status /\ body["status"] # None
    OBVIOUS
  <2> HIDE DEF body
  <2>4. first_present(body, <<"job_id", "jobId", "id">>) = body["job_id"]
    BY <2>3, FirstOf, Zenon
  <2>5. first_present(body, <<"status", "state">>) = body["status"]
    BY <2>3, FirstOf, Zenon
  <2> QED
    BY <2>1, <2>2, <2>3, <2>4, <2>5, Zenon
<1> QED
  BY <1>1, <1>2, <1>3, Zenon DEF Provider

\* What an adapter reads from the answer to a lookup, where it has one.
LEMMA ReadsStatus ==
  ASSUME NEW p \in {"meridian", "cobalt"}, NEW o, o.status # None
  PROVE  first_present(status_body(p, o), STATUS_KEYS[p]) = o.status
<1>1. CASE p = "meridian"
  <2> DEFINE body == [request_id |-> o.id, state |-> o.status]
  <2>1. /\ status_body(p, o) = body
        /\ STATUS_KEYS[p] = <<"status", "state", "requestStatus", "currentState">>
    BY <1>1 DEF status_body, STATUS_KEYS
  <2>2. /\ "status" \notin DOMAIN body /\ "state" \in DOMAIN body
        /\ body["state"] = o.status /\ body["state"] # None
    OBVIOUS
  <2> HIDE DEF body
  <2>3. first_present(body, <<"status", "state", "requestStatus", "currentState">>) =
          body["state"]
    BY <2>2, SecondOf, Zenon
  <2> QED
    BY <2>1, <2>2, <2>3, Zenon
<1>2. CASE p = "cobalt"
  <2> DEFINE body == [job_id |-> o.id, status |-> o.status]
  <2>1. status_body(p, o) = body /\ STATUS_KEYS[p] = <<"status", "state">>
    BY <1>2 DEF status_body, STATUS_KEYS
  <2>2. "status" \in DOMAIN body /\ body["status"] = o.status /\ body["status"] # None
    OBVIOUS
  <2> HIDE DEF body
  <2>3. first_present(body, <<"status", "state">>) = body["status"]
    BY <2>2, FirstOf, Zenon
  <2> QED
    BY <2>1, <2>2, <2>3, Zenon
<1> QED
  BY <1>1, <1>2, Zenon

\* The status vocabulary of every provider is normalized.
LEMMA MapStatusType ==
  ASSUME NEW p \in Provider, NEW raw
  PROVE  map_status(p, raw) \in NormalizedStatus
<1>1. CASE p = "northstar"
  BY <1>1 DEF map_status, STATUS_MAP, NormalizedStatus
<1>2. CASE p = "meridian"
  BY <1>2 DEF map_status, STATUS_MAP, NormalizedStatus
<1>3. CASE p = "cobalt"
  BY <1>3 DEF map_status, STATUS_MAP, NormalizedStatus
<1> QED
  BY <1>1, <1>2, <1>3, Zenon DEF Provider

\* The status of an operation, as an adapter maps it, is its outcome.
LEMMA StatusTells ==
  ASSUME NEW p \in Provider, NEW o, OperationFits(p, o)
  PROVE  /\ o.status # None
         /\ o.outcome = "open" => map_status(p, o.status) \in {"accepted", "pending"}
         /\ o.outcome # "open" => map_status(p, o.status) = o.outcome
<1>1. CASE p = "northstar"
  BY <1>1 DEF OperationFits, map_status, STATUS_MAP, None, FIRST_STATUS, succeeded_status,
              failed_status
<1>2. CASE p = "meridian"
  BY <1>2 DEF OperationFits, map_status, STATUS_MAP, None, FIRST_STATUS, succeeded_status,
              failed_status
<1>3. CASE p = "cobalt"
  BY <1>3 DEF OperationFits, map_status, STATUS_MAP, None, FIRST_STATUS, succeeded_status,
              failed_status
<1> QED
  BY <1>1, <1>2, <1>3, Zenon DEF Provider

\* A new operation is not finished.
LEMMA FirstStatus ==
  ASSUME NEW p \in Provider
  PROVE  /\ FIRST_STATUS[p] # None
         /\ map_status(p, FIRST_STATUS[p]) \notin {"succeeded", "failed", "cancelled"}
<1>1. CASE p = "northstar"
  BY <1>1 DEF map_status, STATUS_MAP, None, FIRST_STATUS
<1>2. CASE p = "meridian"
  BY <1>2 DEF map_status, STATUS_MAP, None, FIRST_STATUS
<1>3. CASE p = "cobalt"
  BY <1>3 DEF map_status, STATUS_MAP, None, FIRST_STATUS
<1> QED
  BY <1>1, <1>2, <1>3, Zenon DEF Provider

\* The statuses outside the documented vocabulary are normalized to "unknown".
LEMMA UnknownStatus ==
  ASSUME NEW p \in Provider
  PROVE  unknown_status[p] # None /\ map_status(p, unknown_status[p]) = "unknown"
<1>1. CASE p = "northstar"
  BY <1>1 DEF map_status, STATUS_MAP, None, unknown_status
<1>2. CASE p = "meridian"
  BY <1>2 DEF map_status, STATUS_MAP, None, unknown_status
<1>3. CASE p = "cobalt"
  BY <1>3 DEF map_status, STATUS_MAP, None, unknown_status
<1> QED
  BY <1>1, <1>2, <1>3, Zenon DEF Provider

\* A completion webhook, read by the adapter, names the operation and its outcome.
LEMMA WebhookTells ==
  ASSUME NEW p \in Provider, NEW o, o.id # None, OperationFits(p, o),
         o.outcome \in {"succeeded", "failed"}
  PROVE  LET event == normalize_webhook(p, webhook_body(p, o, completion_event(p, o), "event"))
         IN  event.reference = o.id /\ event.status = o.outcome
<1> DEFINE type == completion_event(p, o)
<1>0. o.status # None /\ map_status(p, o.status) = o.outcome
  BY StatusTells, SMT
<1>1. CASE p = "northstar"
  <2> DEFINE data == [operation_id |-> o.id, state |-> o.status]
             body == [event_id |-> "event", event_type |-> type, data |-> data]
  <2>1. type # None /\ event_status("northstar", type, o.status) = o.outcome
    BY <1>1 DEF OperationFits, completion_event, success_event, failure_event, None,
                event_status, WEBHOOK_EVENT_STATUS
  <2>2. webhook_body(p, o, type, "event") = body
    BY <1>1 DEF webhook_body, northstar_webhook
  <2>3. normalize_webhook(p, body) = northstar_normalize(body)
    BY <1>1 DEF normalize_webhook
  <2>4. /\ "event_id" \in DOMAIN body /\ body["event_id"] = "event" /\ body["event_id"] # None
        /\ "event_type" \in DOMAIN body /\ body["event_type"] = type
        /\ "data" \in DOMAIN body /\ body["data"] = data
    BY DEF None
  <2>5. /\ "operation_id" \in DOMAIN data /\ data["operation_id"] = o.id
        /\ data["operation_id"] # None
        /\ "state" \in DOMAIN data /\ data["state"] = o.status /\ data["state"] # None
    BY <1>0
  <2> HIDE DEF type, data, body
  <2>6. first_present(body, <<"event_id">>) # None
    BY <2>4, FirstOf, Zenon
  <2>7. first_present(body, <<"event_type">>) # None
    BY <2>1, <2>4, FirstOf, Zenon
  <2>8. first_present(data, <<"operation_id">>) = o.id
    BY <2>5, FirstOf, Zenon
  <2>9. first_present(data, <<"state">>) = o.status
    BY <2>5, FirstOf, Zenon
  <2>10. northstar_normalize(body) =
           [id |-> "event", status |-> event_status("northstar", type, o.status),
            reference |-> o.id]
    BY <2>4, <2>6, <2>7, <2>8, <2>9, Zenon DEF northstar_normalize
  <2> QED
    BY <2>1, <2>2, <2>3, <2>10 DEF type
<1>2. CASE p = "meridian"
  <2> DEFINE body == [notificationId |-> "event", notificationType |-> type,
                      requestId |-> o.id, status |-> o.status]
  <2>1. type # None
    BY <1>2 DEF OperationFits, completion_event, success_event, failure_event, None
  <2>2. webhook_body(p, o, type, "event") = body
    BY <1>2 DEF webhook_body, meridian_webhook
  <2>3. normalize_webhook(p, body) = meridian_normalize(body)
    BY <1>2 DEF normalize_webhook
  <2>4. /\ "notificationId" \in DOMAIN body /\ body["notificationId"] = "event"
        /\ body["notificationId"] # None
    BY DEF None
  <2>5. "notificationType" \in DOMAIN body /\ body["notificationType"] = type
    OBVIOUS
  <2>6. "requestId" \in DOMAIN body /\ body["requestId"] = o.id /\ body["requestId"] # None
    OBVIOUS
  <2>7. "status" \in DOMAIN body /\ body["status"] = o.status /\ body["status"] # None
    BY <1>0
  <2> HIDE DEF type, body
  <2>8. /\ first_present(body, <<"notificationId", "notification_id", "eventId">>) = "event"
        /\ "event" # None
    BY <2>4, FirstOf, Zenon
  <2>9. first_present(body, <<"notificationType", "type", "eventType">>) = type
    BY <2>1, <2>5, FirstOf, Zenon
  <2>10. first_present(body, <<"status", "state", "requestStatus">>) = o.status
    BY <2>7, FirstOf, Zenon
  <2>11. first_present(body, <<"requestId", "request_id", "serviceRequestId">>) = o.id
    BY <2>6, FirstOf, Zenon
  <2>12. meridian_normalize(body) =
           [id |-> "event", status |-> map_status("meridian", o.status), reference |-> o.id]
    BY <2>1, <2>8, <2>9, <2>10, <2>11, Zenon DEF meridian_normalize
  <2> QED
    BY <1>0, <1>2, <2>2, <2>3, <2>12 DEF type
<1>3. CASE p = "cobalt"
  <2> DEFINE job == [job_id |-> o.id, status |-> o.status]
             body == [id |-> "event", type |-> type, job |-> job]
  <2>1. type # None /\ event_status("cobalt", type, o.status) = o.outcome
    BY <1>3 DEF OperationFits, completion_event, success_event, failure_event, None,
                event_status, WEBHOOK_EVENT_STATUS
  <2>2. webhook_body(p, o, type, "event") = body
    BY <1>3 DEF webhook_body, cobalt_webhook
  <2>3. normalize_webhook(p, body) = cobalt_normalize(body)
    BY <1>3 DEF normalize_webhook
  <2>4. /\ "id" \in DOMAIN body /\ body["id"] = "event" /\ body["id"] # None
        /\ "type" \in DOMAIN body /\ body["type"] = type
        /\ "job" \in DOMAIN body /\ body["job"] = job
    BY DEF None
  <2>5. /\ "job_id" \in DOMAIN job /\ job["job_id"] = o.id /\ job["job_id"] # None
        /\ "status" \in DOMAIN job /\ job["status"] = o.status /\ job["status"] # None
    BY <1>0
  <2> HIDE DEF type, job, body
  <2>6. first_present(body, <<"id", "event_id">>) = "event"
    BY <2>4, FirstOf, Zenon
  <2>7. first_present(body, <<"type", "event_type">>) = type
    BY <2>1, <2>4, FirstOf, Zenon
  <2>8. first_present(job, <<"job_id", "jobId", "id">>) = o.id
    BY <2>5, FirstOf, Zenon
  <2>9. first_present(job, <<"status">>) = o.status
    BY <2>5, FirstOf, Zenon
  <2>10. "event" # None
    BY DEF None
  <2>11. cobalt_normalize(body) =
           [id |-> "event", status |-> event_status("cobalt", type, o.status),
            reference |-> o.id]
    BY <2>1, <2>4, <2>6, <2>7, <2>8, <2>9, <2>10, Zenon DEF cobalt_normalize
  <2> QED
    BY <2>1, <2>2, <2>3, <2>11 DEF type
<1> QED
  BY <1>1, <1>2, <1>3, Zenon DEF Provider

-----------------------------------------------------------------------------
(***************************************************************************)
(* The provider's store.                                                   *)
(***************************************************************************)

\* Identifiers are strings, all different.
LEMMA Identifiers ==
  /\ \A i \in DOMAIN OperationIds : OperationIds[i] \in Range(OperationIds) /\ OperationIds[i] # None
  /\ \A i, j \in DOMAIN OperationIds : OperationIds[i] = OperationIds[j] => i = j
<1>1. \A i \in DOMAIN OperationIds : OperationIds[i] \in STRING \ {None}
  BY OperationIdsAssumption
<1>2. \A i \in DOMAIN OperationIds : OperationIds[i] \in Range(OperationIds)
  BY Zenon DEF Range
<1> QED
  BY <1>1, <1>2, OperationIdsAssumption, Zenon DEF IsInjective

\* The store finds the n-th operation under the n-th identifier, and under no other.
LEMMA GetIs ==
  ASSUME NEW p, NEW st \in Stores, OperationsFit(p, st.operations)
  PROVE  /\ \A i \in DOMAIN st.operations : get(st, OperationIds[i]) = i
         /\ \A id : \/ get(st, id) = 0
                    \/ get(st, id) \in DOMAIN st.operations /\ OperationIds[get(st, id)] = id
<1> DEFINE found(id) == {i \in DOMAIN st.operations : st.operations[i].id = id}
<1>1. DOMAIN st.operations \subseteq Nat /\ 0 \notin DOMAIN st.operations
  BY DEF Stores
<1>2. ASSUME NEW i \in DOMAIN st.operations
      PROVE  found(OperationIds[i]) = {i}
  BY Identifiers, Zenon DEF OperationsFit
<1>3. ASSUME NEW i \in DOMAIN st.operations
      PROVE  Min({i}) = i
  <2>1. {i} \in SUBSET Int /\ i \in {i} /\ \A y \in {i} : i <= y
    BY <1>1
  <2> QED
    BY <2>1, MinIs, Zenon
<1>4. ASSUME NEW i \in DOMAIN st.operations
      PROVE  get(st, OperationIds[i]) = i
  BY <1>2, <1>3, Zenon DEF get
<1>5. ASSUME NEW id, NEW i \in found(id)
      PROVE  i \in DOMAIN st.operations /\ OperationIds[i] = id
  BY Zenon DEF OperationsFit
<1>6. ASSUME NEW id, found(id) # {}
      PROVE  get(st, id) \in DOMAIN st.operations /\ OperationIds[get(st, id)] = id
  BY <1>4, <1>5, <1>6, Zenon
<1>7. ASSUME NEW id, found(id) = {}
      PROVE  get(st, id) = 0
  BY <1>7, Zenon DEF get
<1> QED
  BY <1>4, <1>6, <1>7, Zenon

\* Operations stay, and only an open one changes, when it is cancelled.
Grows(ops, new) ==
  /\ DOMAIN ops \subseteq DOMAIN new
  /\ \A i \in DOMAIN ops :
       \/ new[i] = ops[i]
       \/ /\ ops[i].outcome = "open"
          /\ new[i].outcome = "cancelled"
          /\ new[i].request = ops[i].request

\* What was said of the operations stays true.
LEMMA GrowsKeeps ==
  ASSUME NEW p, NEW ops, NEW new, Grows(ops, new)
  PROVE  /\ \A ws : SentFits(p, ops, ws) => SentFits(p, new, ws)
         /\ \A kind, r : ResultFits(ops, kind, r) => ResultFits(new, kind, r)
<1>1. ASSUME NEW ws, SentFits(p, ops, ws), NEW w \in ws
      PROVE  \E i \in DOMAIN new :
               /\ w.operation = OperationIds[i]
               /\ w.event_type = completion_event(p, new[i])
               /\ new[i].outcome \in {"succeeded", "failed"}
  <2>1. PICK i \in DOMAIN ops :
               /\ w.operation = OperationIds[i]
               /\ w.event_type = completion_event(p, ops[i])
               /\ ops[i].outcome \in {"succeeded", "failed"}
    BY <1>1, Zenon DEF SentFits
  <2>2. i \in DOMAIN new /\ new[i] = ops[i]
    BY <2>1 DEF Grows
  <2> QED
    BY <2>1, <2>2, Zenon
<1>2. ASSUME NEW kind, NEW r, ResultFits(ops, kind, r), ~ r.raised, r.reference # None
      PROVE  ResultFits(new, kind, r)
  <2>1. PICK i \in DOMAIN ops :
               /\ r.reference = OperationIds[i]
               /\ kind = "create" /\ r.status \in {"succeeded", "failed", "cancelled"} =>
                    r.status = ops[i].outcome
               /\ kind = "status" /\ ops[i].outcome \in {"succeeded", "failed"} =>
                    r.status = ops[i].outcome
               /\ kind = "cancel" /\ r.status = "cancelled" => ops[i].outcome = "cancelled"
    BY <1>2, Zenon DEF ResultFits
  <2>2. i \in DOMAIN new
    BY Zenon DEF Grows
  <2>3. CASE new[i] = ops[i]
    BY <2>1, <2>2, <2>3, Zenon DEF ResultFits
  <2>4. CASE ops[i].outcome = "open" /\ new[i].outcome = "cancelled"
    BY <2>1, <2>2, <2>4, SMT DEF ResultFits
  <2> QED
    BY <2>3, <2>4, Zenon DEF Grows
<1>3. ASSUME NEW ws, SentFits(p, ops, ws)
      PROVE  SentFits(p, new, ws)
  BY <1>1, <1>3, Zenon DEF SentFits
<1>4. ASSUME NEW kind, NEW r, ResultFits(ops, kind, r)
      PROVE  ResultFits(new, kind, r)
  <2>1. CASE ~ r.raised /\ r.reference # None
    BY <1>2, <1>4, <2>1, Zenon
  <2>2. CASE ~ (~ r.raised /\ r.reference # None)
    BY <2>2, Zenon DEF ResultFits
  <2> QED
    BY <2>1, <2>2, Zenon
<1> QED
  BY <1>3, <1>4, Zenon

\* What a call reports has the type of a result and is true.
Reads(ops, kind, r) == r \in Result /\ ResultFits(ops, kind, r)

\* A result about the i-th operation.
LEMMA ReadsIs ==
  ASSUME NEW ops, NEW kind, NEW i \in DOMAIN ops, i \in DOMAIN OperationIds,
         NEW status \in NormalizedStatus,
         kind = "create" /\ status \in {"succeeded", "failed", "cancelled"} =>
           status = ops[i].outcome,
         kind = "status" /\ ops[i].outcome \in {"succeeded", "failed"} =>
           status = ops[i].outcome,
         kind = "cancel" /\ status = "cancelled" => ops[i].outcome = "cancelled"
  PROVE  Reads(ops, kind, result(status, OperationIds[i]))
<1> DEFINE r == result(status, OperationIds[i])
<1>1. r.raised = FALSE /\ r.status = status /\ r.reference = OperationIds[i]
  BY DEF result
<1>2. r \in [raised : {FALSE}, status : NormalizedStatus \union {None},
            reference : Range(OperationIds) \union {None}]
  BY Identifiers DEF result
<1>3. r \in Result
  BY <1>2, Zenon DEF Result
<1> HIDE DEF r
<1>4. ResultFits(ops, kind, r)
  BY <1>1, Zenon DEF ResultFits
<1> QED
  BY <1>3, <1>4, Zenon DEF Reads, r

\* Silence, or an answer that is an error or is read as a true result.
AnswerReads(p, ops, a) ==
  /\ a.code \in Nat
  /\ a = Silence \/ a.code >= 400 \/ Reads(ops, "create", created(p, a.body))

\* The answer to an accepted create is read as what the operation came to, or as unfinished.
LEMMA AcceptedReads ==
  ASSUME NEW p \in Provider, NEW ops, NEW i \in DOMAIN ops, i \in DOMAIN OperationIds,
         NEW o, o.id = OperationIds[i], o.status # None,
         map_status(p, o.status) \in {"succeeded", "failed", "cancelled"} =>
           map_status(p, o.status) = ops[i].outcome,
         NEW s, NEW d
  PROVE  AnswerReads(p, ops, accepted_answer(p, o, s, d))
<1> DEFINE code == IF p = "cobalt" THEN 202 ELSE 201
           a == accepted_answer(p, o, s, d)
<1> SUFFICES a.code \in {201, 202} /\ Reads(ops, "create", created(p, a.body))
  <2> HIDE DEF a
  <2>1. ASSUME a.code \in {201, 202} PROVE a.code \in Nat
    BY <2>1
  <2> QED
    BY <2>1, Zenon DEF AnswerReads, a
<1>0. OperationIds[i] # None
  BY Identifiers, Zenon
<1>1. CASE s = "no_reference" /\ p = "northstar"
  <2> DEFINE body == [state |-> "queued"]
  <2>1. a.code = 201 /\ a.body = body
    BY <1>1 DEF accepted_answer, answer
  <2>2. REFERENCE_KEYS[p] = <<"operation_id">>
    BY <1>1 DEF REFERENCE_KEYS
  <2>3. first_present(body, <<"operation_id">>) = None
    BY DEF first_present
  <2>4. created(p, body) = result("accepted", None)
    BY <2>2, <2>3, Zenon DEF created
  <2>5. result("accepted", None) \in [raised : {FALSE}, status : NormalizedStatus \union {None},
            reference : Range(OperationIds) \union {None}]
    BY DEF result, NormalizedStatus
  <2>6. Reads(ops, "create", result("accepted", None))
    BY <2>5, Zenon DEF Reads, Result, ResultFits, result
  <2>7. a.code \in {201, 202}
    BY <2>1, SMT
  <2> HIDE DEF a, body
  <2> QED
    BY <2>1, <2>4, <2>6, <2>7, Zenon DEF a
<1>2. ASSUME ~ (s = "no_reference" /\ p = "northstar"), NEW status, status # None,
             map_status(p, status) \in {"succeeded", "failed", "cancelled"} =>
               map_status(p, status) = ops[i].outcome,
             a = answer(code, create_body(p, o.id, status, d))
      PROVE  a.code \in {201, 202} /\ Reads(ops, "create", created(p, a.body))
  <2> DEFINE body == create_body(p, o.id, status, d)
  <2>1. a.code \in {201, 202} /\ a.body = body
    BY <1>2 DEF answer
  <2>2. /\ first_present(body, REFERENCE_KEYS[p]) = OperationIds[i]
        /\ first_present(body, CREATE_STATUS_KEYS[p]) = status
    <3>1. o.id # None
      BY <1>0, Zenon
    <3>2. /\ first_present(body, REFERENCE_KEYS[p]) = o.id
          /\ first_present(body, CREATE_STATUS_KEYS[p]) = status
      BY <1>2, <3>1, ReadsCreate
    <3> QED
      BY <3>2, Zenon
  <2> HIDE DEF body
  <2>3. map_status(p, status) \in NormalizedStatus /\ "unknown" \in NormalizedStatus
    BY MapStatusType, Zenon DEF NormalizedStatus
  <2>4. \/ created(p, body) = result("unknown", OperationIds[i])
        \/ created(p, body) = result(map_status(p, status), OperationIds[i])
    BY <1>0, <2>2, Zenon DEF created
  <2>5. Reads(ops, "create", result("unknown", OperationIds[i]))
    BY <2>3, ReadsIs, SMT
  <2>6. Reads(ops, "create", result(map_status(p, status), OperationIds[i]))
    BY <1>2, <2>3, ReadsIs, SMT
  <2> QED
    BY <2>1, <2>4, <2>5, <2>6, Zenon
<1>3. CASE ~ (s = "no_reference" /\ p = "northstar") /\ s = "unknown_status"
  <2>1. a = answer(code, create_body(p, o.id, unknown_status[p], d))
    BY <1>3, SMT DEF accepted_answer
  <2>2. unknown_status[p] # None /\ map_status(p, unknown_status[p]) = "unknown"
    BY UnknownStatus, Zenon
  <2> QED
    BY <1>2, <1>3, <2>1, <2>2, Zenon
<1>4. CASE ~ (s = "no_reference" /\ p = "northstar") /\ s # "unknown_status"
  <2>1. a = answer(code, create_body(p, o.id, o.status, d))
    BY <1>4, SMT DEF accepted_answer
  <2> QED
    BY <1>2, <1>4, <2>1, Zenon
<1> QED
  BY <1>1, <1>3, <1>4, Zenon

\* What a scenario answers before the store is looked at is an error or silence.
LEMMA EarlyAnswer ==
  ASSUME NEW p, NEW ops, NEW s, NEW n \in Nat, apply_pre_response_scenario(s, n) # {}
  PROVE  AnswerReads(p, ops, CHOOSE a \in apply_pre_response_scenario(s, n) : TRUE)
<1> DEFINE early == apply_pre_response_scenario(s, n)
<1>1. early \subseteq {Silence, answer(429, <<>>), answer(503, <<>>), answer(400, <<>>),
                      answer(401, <<>>)}
  <2>1. CASE s = "timeout"
    BY <2>1, Zenon DEF apply_pre_response_scenario
  <2>2. CASE s = "rate_limit"
    BY <2>2, Zenon DEF apply_pre_response_scenario
  <2>3. CASE s = "always_unavailable"
    BY <2>3, Zenon DEF apply_pre_response_scenario
  <2>4. CASE s = "unavailable_then_ok" /\ n <= UNAVAILABLE_ATTEMPTS
    BY <2>4, Zenon DEF apply_pre_response_scenario
  <2>5. CASE s = "reject"
    BY <2>5, Zenon DEF apply_pre_response_scenario
  <2>6. CASE s = "auth_challenge" /\ n = 1
    BY <2>6, Zenon DEF apply_pre_response_scenario
  <2>7. CASE /\ s # "timeout" /\ s # "rate_limit" /\ s # "always_unavailable"
             /\ ~ (s = "unavailable_then_ok" /\ n <= UNAVAILABLE_ATTEMPTS)
             /\ s # "reject" /\ ~ (s = "auth_challenge" /\ n = 1)
    BY <2>7, SMT DEF apply_pre_response_scenario
  <2> HIDE DEF early
  <2> QED
    BY <2>1, <2>2, <2>3, <2>4, <2>5, <2>6, <2>7, Zenon
<1>2. /\ AnswerReads(p, ops, answer(429, <<>>)) /\ AnswerReads(p, ops, answer(503, <<>>))
      /\ AnswerReads(p, ops, answer(400, <<>>)) /\ AnswerReads(p, ops, answer(401, <<>>))
  BY DEF AnswerReads, answer
<1>3. AnswerReads(p, ops, Silence)
  BY DEF AnswerReads, Silence, answer
<1> DEFINE first == CHOOSE a \in early : TRUE
<1>4. first \in early
  BY Zenon
<1> HIDE DEF early, first
<1>5. first \in {Silence, answer(429, <<>>), answer(503, <<>>), answer(400, <<>>),
                answer(401, <<>>)}
  BY <1>1, <1>4, Zenon
<1>6. AnswerReads(p, ops, first)
  BY <1>2, <1>3, <1>5, SMT
<1> QED
  BY <1>6, Zenon DEF early, first

\* The providers' own statuses, by name.
LEMMA StatusNames ==
  ASSUME NEW p \in Provider
  PROVE  /\ FIRST_STATUS[p] \in Range(FIRST_STATUS)
         /\ succeeded_status[p] \in Range(succeeded_status)
         /\ failed_status[p] \in Range(failed_status)
<1>1. /\ p \in DOMAIN FIRST_STATUS
      /\ p \in DOMAIN succeeded_status
      /\ p \in DOMAIN failed_status
  BY DEF Provider, FIRST_STATUS, succeeded_status, failed_status
<1> QED
  BY <1>1, Zenon DEF Range

\* The operation a create makes, and what is kept of it.
LEMMA KeptFits ==
  ASSUME NEW p \in Provider, NEW st \in Stores, NEW r \in Requests, NEW s \in Scenario,
         NEW key \in Requests \union {None}, Len(st.operations) + 1 \in DOMAIN OperationIds
  PROVE  \A fresh, kept :
           /\ fresh = new_operation(p, st, r, s, key)
           /\ kept = IF never_completes(p, s) THEN fresh ELSE completed(p, fresh)
           => /\ kept \in SandboxOperation(Requests)
              /\ kept.id = OperationIds[Len(st.operations) + 1]
              /\ kept.idempotency_key = key
              /\ kept.request = r
              /\ OperationFits(p, kept)
              /\ ~ never_completes(p, s) => kept.outcome \in {"succeeded", "failed"}
              /\ fresh.id = kept.id
              /\ fresh.status = FIRST_STATUS[p]
<1> DEFINE id == OperationIds[Len(st.operations) + 1]
           fresh == new_operation(p, st, r, s, key)
           kept  == IF never_completes(p, s) THEN fresh ELSE completed(p, fresh)
<1>1. id \in Range(OperationIds)
  BY Identifiers, Zenon
<1> HIDE DEF id
<1>2. /\ FIRST_STATUS[p] \in Range(FIRST_STATUS)
      /\ succeeded_status[p] \in Range(succeeded_status)
      /\ failed_status[p] \in Range(failed_status)
  BY StatusNames, Zenon
<1>3. fresh = [id |-> id, scenario |-> s, status |-> FIRST_STATUS[p], failed |-> FALSE,
               idempotency_key |-> key, request |-> r, outcome |-> "open"]
  BY Zenon DEF new_operation, id
<1>4. \/ kept = fresh /\ never_completes(p, s)
      \/ kept = [id |-> id, scenario |-> s, status |-> failed_status[p], failed |-> TRUE,
                 idempotency_key |-> key, request |-> r, outcome |-> "failed"]
      \/ kept = [id |-> id, scenario |-> s, status |-> succeeded_status[p], failed |-> FALSE,
                 idempotency_key |-> key, request |-> r, outcome |-> "succeeded"]
  <2>1. CASE never_completes(p, s)
    BY <2>1, Zenon
  <2>2. CASE ~ never_completes(p, s)
    <3>1. kept = completed(p, fresh)
      BY <2>2, Zenon
    <3> HIDE DEF fresh, kept
    <3>2. CASE fresh.scenario = "async_failure"
      <4>1. kept = [fresh EXCEPT !.status = failed_status[p], !.failed = TRUE,
                                 !.outcome = "failed"]
        BY <3>1, <3>2, Zenon DEF completed
      <4> QED
        BY <1>3, <4>1, Zenon
    <3>3. CASE fresh.scenario # "async_failure"
      <4>1. kept = [fresh EXCEPT !.status = succeeded_status[p], !.outcome = "succeeded"]
        BY <3>1, <3>3, Zenon DEF completed
      <4> QED
        BY <1>3, <4>1, Zenon
    <3> QED
      BY <3>2, <3>3, Zenon
  <2> QED
    BY <2>1, <2>2, Zenon
<1> HIDE DEF fresh, kept
<1>5. /\ kept \in SandboxOperation(Requests)
      /\ kept.id = id /\ kept.idempotency_key = key /\ kept.request = r
      /\ ~ never_completes(p, s) => kept.outcome \in {"succeeded", "failed"}
      /\ fresh.id = id /\ fresh.status = FIRST_STATUS[p]
  <2>1. CASE kept = fresh /\ never_completes(p, s)
    BY <1>1, <1>2, <1>3, <2>1 DEF SandboxOperation
  <2>2. CASE kept = [id |-> id, scenario |-> s, status |-> failed_status[p], failed |-> TRUE,
                     idempotency_key |-> key, request |-> r, outcome |-> "failed"]
    BY <1>1, <1>2, <1>3, <2>2 DEF SandboxOperation
  <2>3. CASE kept = [id |-> id, scenario |-> s, status |-> succeeded_status[p],
                     failed |-> FALSE, idempotency_key |-> key, request |-> r,
                     outcome |-> "succeeded"]
    BY <1>1, <1>2, <1>3, <2>3 DEF SandboxOperation
  <2> QED
    BY <1>4, <2>1, <2>2, <2>3, Zenon
<1>6. OperationFits(p, kept)
  BY <1>3, <1>4 DEF OperationFits
<1> QED
  BY <1>5, <1>6, Zenon DEF fresh, kept, id

\* What is appended to the store by a create.
Made(p, st, r, key, o, ws) ==
  /\ o \in SandboxOperation(Requests)
  /\ o.id = OperationIds[Len(st.operations) + 1]
  /\ o.idempotency_key = key
  /\ o.request = r
  /\ OperationFits(p, o)
  /\ \A w \in ws :
       /\ w.operation = o.id
       /\ w.event_type = completion_event(p, o)
       /\ o.outcome \in {"succeeded", "failed"}

\* A create makes one operation or none, and its answer is read as true.
LEMMA CreateServes ==
  ASSUME NEW p \in Provider, NEW st \in Stores, NEW r \in Requests, NEW s \in Scenario,
         NEW key \in Requests \union {None},
         OperationsFit(p, st.operations), KeysFit(p, st.operations),
         existing_operation(p, st, key) = {} => Len(st.operations) + 1 \in DOMAIN OperationIds
  PROVE  LET h == create_operation(p, st, r, s, key)
         IN  /\ h.store \in Stores
             /\ AnswerReads(p, h.store.operations, h.answer)
             /\ \/ h.store.operations = st.operations /\ h.sent = {}
                \/ /\ existing_operation(p, st, key) = {}
                   /\ \E o : /\ h.store.operations = Append(st.operations, o)
                            /\ Made(p, st, r, key, o, h.sent)
<1> DEFINE n       == st.attempts[r] + 1
           counted == IF counts_attempts(s)
                      THEN [st EXCEPT !.attempts[r] = Min({n, UNAVAILABLE_ATTEMPTS + 1})]
                      ELSE st
           early   == apply_pre_response_scenario(s, n)
           known   == existing_operation(p, st, key)
           fresh   == new_operation(p, st, r, s, key)
           kept    == IF never_completes(p, s) THEN fresh ELSE completed(p, fresh)
           ops     == st.operations
           h       == create_operation(p, st, r, s, key)
<1>1. /\ st.attempts \in [Requests -> Nat]
      /\ ops \in Seq(SandboxOperation(Requests))
      /\ st = [operations |-> ops, attempts |-> st.attempts]
      /\ n \in Nat
  BY DEF Stores
<1>2. Min({n, UNAVAILABLE_ATTEMPTS + 1}) \in Nat
  <2> DEFINE most == UNAVAILABLE_ATTEMPTS + 1
  <2>1. most \in Nat
    BY DEF UNAVAILABLE_ATTEMPTS
  <2> HIDE DEF n, most
  <2>2. {n, most} \in SUBSET Int
    BY <1>1, <2>1
  <2>3. CASE n <= most
    <3>1. n \in {n, most} /\ \A y \in {n, most} : n <= y
      BY <1>1, <2>1, <2>3
    <3> QED
      BY <1>1, <2>2, <3>1, MinIs, Zenon DEF most
  <2>4. CASE most <= n
    <3>1. most \in {n, most} /\ \A y \in {n, most} : most <= y
      BY <1>1, <2>1, <2>4
    <3> QED
      BY <2>1, <2>2, <3>1, MinIs, Zenon DEF most
  <2> QED
    BY <1>1, <2>1, <2>3, <2>4
<1>3. \E a \in [Requests -> Nat] : counted = [operations |-> ops, attempts |-> a]
  <2>1. CASE counts_attempts(s)
    <3> DEFINE least == Min({n, UNAVAILABLE_ATTEMPTS + 1})
               a == [st.attempts EXCEPT ![r] = least]
    <3>1. counted = [st EXCEPT !.attempts[r] = least]
      BY <2>1, Zenon
    <3> HIDE DEF n, counted, least
    <3>2. a \in [Requests -> Nat]
      BY <1>1, <1>2 DEF least
    <3>3. counted = [operations |-> ops, attempts |-> a]
      BY <1>1, <3>1, Zenon
    <3> QED
      BY <3>2, <3>3, Zenon
  <2>2. CASE ~ counts_attempts(s)
    BY <1>1, <2>2, Zenon
  <2> QED
    BY <2>1, <2>2, Zenon
<1>4. PICK a \in [Requests -> Nat] : counted = [operations |-> ops, attempts |-> a]
  BY <1>3, Zenon
<1>5. counted \in Stores /\ counted.operations = ops
  <2> HIDE DEF counted, ops
  <2> QED
    BY <1>1, <1>4 DEF Stores
<1>6. h = IF early # {} THEN [store |-> counted, answer |-> CHOOSE x \in early : TRUE, sent |-> {}]
          ELSE IF known # {}
               THEN [store |-> counted, sent |-> {},
                     answer |-> accepted_answer(p, ops[Min(known)], s, TRUE)]
          ELSE [store |-> [counted EXCEPT !.operations = Append(@, kept)],
                answer |-> accepted_answer(p, fresh, s, FALSE),
                sent |-> IF never_completes(p, s) THEN {}
                         ELSE {[operation |-> fresh.id, event_type |-> completion_event(p, kept)]}]
  BY Zenon DEF create_operation
<1>7. CASE early # {}
  <2>1. /\ h.store = counted /\ h.sent = {}
        /\ h.answer = CHOOSE x \in early : TRUE
    <3> HIDE DEF h, counted, early, known, kept, fresh, ops
    <3> QED
      BY <1>6, <1>7
  <2>2. AnswerReads(p, ops, CHOOSE x \in early : TRUE)
    BY <1>1, <1>7, EarlyAnswer, Zenon
  <2> HIDE DEF h, counted, early, known, kept, fresh
  <2> QED
    BY <1>5, <2>1, <2>2, Zenon DEF h
<1>8. CASE early = {} /\ known # {}
  <2> DEFINE i == Min(known)
             o == ops[i]
  <2>1. /\ h.store = counted /\ h.sent = {}
        /\ h.answer = accepted_answer(p, o, s, TRUE)
    <3> HIDE DEF h, counted, early, known, kept, fresh, ops
    <3> QED
      BY <1>6, <1>8
  <2>2. i \in DOMAIN ops
    <3>1. PICK j : j \in known
      BY <1>8, Zenon
    <3>2. j \in DOMAIN ops /\ known = {j}
      BY <3>1, Zenon DEF existing_operation, KeysFit
    <3> HIDE DEF known
    <3>3. {j} \in SUBSET Int /\ j \in {j} /\ \A y \in {j} : j <= y
      BY <1>1, <3>2
    <3>4. Min(known) = j
      BY <3>2, <3>3, MinIs, Zenon
    <3> QED
      BY <3>2, <3>4, Zenon
  <2>3. i \in DOMAIN OperationIds /\ o.id = OperationIds[i] /\ OperationFits(p, o)
    BY <2>2, Zenon DEF OperationsFit
  <2> HIDE DEF h, counted, early, known, kept, fresh, ops, i
  <2>4. /\ o.status # None
        /\ map_status(p, o.status) \in {"succeeded", "failed", "cancelled"} =>
             map_status(p, o.status) = ops[i].outcome
    BY <2>3, StatusTells, SMT
  <2>5. AnswerReads(p, ops, accepted_answer(p, o, s, TRUE))
    BY <2>2, <2>3, <2>4, AcceptedReads, Zenon
  <2> QED
    BY <1>5, <2>1, <2>5, Zenon DEF h, ops
<1>9. CASE early = {} /\ known = {}
  <2> DEFINE new == Append(ops, kept)
             k == Len(ops) + 1
             ws == IF never_completes(p, s) THEN {}
                   ELSE {[operation |-> fresh.id, event_type |-> completion_event(p, kept)]}
  <2>1. /\ h.store = [counted EXCEPT !.operations = Append(@, kept)]
        /\ h.sent = ws
        /\ h.answer = accepted_answer(p, fresh, s, FALSE)
    <3> HIDE DEF h, counted, early, known, kept, fresh, ops
    <3> QED
      BY <1>6, <1>9
  <2>2. k \in DOMAIN OperationIds
    BY <1>9, Zenon
  <2>3. /\ kept \in SandboxOperation(Requests)
        /\ kept.id = OperationIds[k]
        /\ kept.idempotency_key = key
        /\ kept.request = r
        /\ OperationFits(p, kept)
        /\ ~ never_completes(p, s) => kept.outcome \in {"succeeded", "failed"}
        /\ fresh.id = kept.id
        /\ fresh.status = FIRST_STATUS[p]
    <3>1. /\ fresh = new_operation(p, st, r, s, key)
          /\ kept = IF never_completes(p, s) THEN fresh ELSE completed(p, fresh)
      OBVIOUS
    <3> HIDE DEF kept, fresh
    <3> QED
      BY <2>2, <3>1, KeptFits, SMT
  <2> HIDE DEF h, counted, early, known, kept, fresh, ops
  <2>4. /\ new \in Seq(SandboxOperation(Requests))
        /\ k \in DOMAIN new
        /\ h.store = [operations |-> new, attempts |-> a]
    <3>1. new \in Seq(SandboxOperation(Requests)) /\ k \in DOMAIN new
      BY <1>1, <2>3, SMT
    <3>2. h.store = [operations |-> new, attempts |-> a]
      BY <1>4, <2>1, Zenon
    <3> QED
      BY <3>1, <3>2, Zenon
  <2>5. h.store \in Stores /\ h.store.operations = new
    BY <2>4 DEF Stores
  <2>6. Made(p, st, r, key, kept, ws)
    BY <2>3, SMT DEF Made, ops
  <2>7. AnswerReads(p, new, accepted_answer(p, fresh, s, FALSE))
    <3>1. /\ fresh.status # None
          /\ map_status(p, fresh.status) \notin {"succeeded", "failed", "cancelled"}
      BY <2>3, FirstStatus, Zenon
    <3> HIDE DEF new, k
    <3>2. fresh.id = OperationIds[k]
      BY <2>3, Zenon
    <3> QED
      BY <2>2, <2>4, <3>1, <3>2, AcceptedReads, Zenon
  <2> QED
    BY <1>9, <2>1, <2>5, <2>6, <2>7, Zenon DEF h, ops, known
<1> QED
  BY <1>7, <1>8, <1>9, Zenon

\* A lookup changes nothing, and what it says of a finished operation is its outcome.
LEMMA LookupServes ==
  ASSUME NEW p \in {"meridian", "cobalt"}, NEW st \in Stores,
         OperationsFit(p, st.operations), NEW id
  PROVE  LET h == get_operation(p, st, id)
         IN  /\ h.store = st /\ h.sent = {}
             /\ h.answer.code \in Nat
             /\ \/ h.answer.code >= 400
                \/ Reads(st.operations, "status", operation_status(p, id, h.answer.body))
<1> DEFINE h == get_operation(p, st, id)
           i == get(st, id)
           o == st.operations[i]
           a == h.answer
<1>1. h.store = st /\ h.sent = {}
  BY DEF get_operation
<1>2. CASE i = 0
  <2>1. a.code = 404
    BY <1>2 DEF get_operation, answer
  <2> HIDE DEF a
  <2> QED
    BY <1>1, <2>1 DEF a
<1>3. CASE i # 0
  <2>1. a.code = 200 /\ a.body = status_body(p, o)
    BY <1>3 DEF get_operation, answer
  <2>2. i \in DOMAIN st.operations /\ OperationIds[i] = id
    BY <1>3, GetIs, Zenon
  <2>3. i \in DOMAIN OperationIds /\ OperationFits(p, o) /\ p \in Provider
    BY <2>2, Zenon DEF OperationsFit, Provider
  <2> HIDE DEF i, a
  <2>4. /\ o.status # None
        /\ o.outcome \in {"succeeded", "failed"} => map_status(p, o.status) = o.outcome
    BY <2>3, StatusTells, SMT
  <2>5. operation_status(p, id, a.body) = result(map_status(p, o.status), OperationIds[i])
    <3>1. first_present(status_body(p, o), STATUS_KEYS[p]) = o.status
      BY <2>4, ReadsStatus, Zenon
    <3> QED
      BY <2>1, <2>2, <3>1, Zenon DEF operation_status
  <2>6. map_status(p, o.status) \in NormalizedStatus
    BY <2>3, MapStatusType, Zenon
  <2>7. Reads(st.operations, "status", result(map_status(p, o.status), OperationIds[i]))
    BY <2>2, <2>3, <2>4, <2>6, ReadsIs, SMT
  <2>8. a.code \in Nat
    BY <2>1
  <2> QED
    BY <1>1, <2>5, <2>7, <2>8, Zenon DEF a
<1> QED
  BY <1>2, <1>3, Zenon

\* A refusal names its operation and confirms nothing.
LEMMA RefusedReads ==
  ASSUME NEW ops, NEW i \in DOMAIN ops, i \in DOMAIN OperationIds
  PROVE  Reads(ops, "cancel", [raised |-> FALSE, status |-> "failed",
                               reference |-> OperationIds[i], refused |-> TRUE])
<1> DEFINE r == [raised |-> FALSE, status |-> "failed", reference |-> OperationIds[i],
                 refused |-> TRUE]
<1>1. r.raised = FALSE /\ r.status = "failed" /\ r.reference = OperationIds[i]
  OBVIOUS
<1>2. r \in [raised : {FALSE}, status : {"failed"}, reference : Range(OperationIds),
            refused : {TRUE}]
  BY Identifiers
<1>3. r \in Result
  BY <1>2, Zenon DEF Result
<1> HIDE DEF r
<1>4. ResultFits(ops, "cancel", r)
  BY <1>1, SMT DEF ResultFits
<1> QED
  BY <1>3, <1>4, Zenon DEF Reads, r

\* A store with one operation replaced.
LEMMA Replaced ==
  ASSUME NEW x, NEW y, NEW i, NEW o
  PROVE  [[operations |-> x, attempts |-> y] EXCEPT !.operations[i] = o] =
           [operations |-> [x EXCEPT ![i] = o], attempts |-> y]
  BY SMT

\* A cancellation stops an open operation and leaves every other alone; it is confirmed
\* when the operation is cancelled.
LEMMA CancelServes ==
  ASSUME NEW st \in Stores, OperationsFit("cobalt", st.operations),
         KeysFit("cobalt", st.operations), NEW id
  PROVE  LET h == cancel_job("cobalt", st, id)
         IN  /\ h.store \in Stores /\ h.sent = {}
             /\ OperationsFit("cobalt", h.store.operations)
             /\ KeysFit("cobalt", h.store.operations)
             /\ Grows(st.operations, h.store.operations)
             /\ h.answer.code \in Nat
             /\ \/ h.answer.code >= 400
                \/ Reads(h.store.operations, "cancel", cancel_result("cobalt", id, h.answer.body))
<1> DEFINE h == cancel_job("cobalt", st, id)
           ops == st.operations
           i == get(st, id)
           o == [ops[i] EXCEPT !.status = "cancelled", !.outcome = "cancelled"]
           a == h.answer
<1>1. Grows(ops, ops)
  BY Zenon DEF Grows
<1>2. CASE i = 0
  <2>1. h.store = st /\ h.sent = {} /\ a.code = 404
    BY <1>2 DEF cancel_job, answer
  <2> HIDE DEF h, a, ops
  <2>2. a.code \in Nat /\ a.code >= 400
    BY <2>1
  <2> QED
    BY <1>1, <2>1, <2>2, Zenon DEF h, a, ops
<1>3. ASSUME i # 0
      PROVE  /\ i \in DOMAIN ops /\ i \in DOMAIN OperationIds
             /\ OperationIds[i] = id
             /\ OperationFits("cobalt", ops[i])
  BY <1>3, GetIs, Zenon DEF OperationsFit
<1>4. ASSUME NEW new, NEW x, i \in DOMAIN new, i \in DOMAIN OperationIds, OperationIds[i] = id,
             OperationFits("cobalt", x), x.outcome = new[i].outcome
      PROVE  Reads(new, "cancel", cancel_result("cobalt", id, status_body("cobalt", x)))
  <2>1. x.status # None /\ (map_status("cobalt", x.status) = "cancelled" => x.outcome = "cancelled")
    BY <1>4, StatusTells, SMT DEF Provider
  <2>2. first_present(status_body("cobalt", x), STATUS_KEYS["cobalt"]) = x.status
    BY <2>1, ReadsStatus, Zenon
  <2>3. CASE map_status("cobalt", x.status) = "cancelled"
    <3>1. cancel_result("cobalt", id, status_body("cobalt", x)) = result("cancelled", OperationIds[i])
      BY <1>4, <2>2, <2>3, Zenon DEF cancel_result
    <3>2. "cancelled" \in NormalizedStatus /\ new[i].outcome = "cancelled"
      BY <1>4, <2>1, <2>3, Zenon DEF NormalizedStatus
    <3> QED
      BY <1>4, <3>1, <3>2, ReadsIs
  <2>4. CASE map_status("cobalt", x.status) # "cancelled"
    BY <1>4, <2>2, <2>4, RefusedReads, Zenon DEF cancel_result
  <2> QED
    BY <2>3, <2>4, Zenon
<1>5. CASE i # 0 /\ ops[i].status \in {"succeeded", "failed"}
  <2>1. h.store = st /\ h.sent = {} /\ a.code = 200 /\ a.body = status_body("cobalt", ops[i])
    BY <1>5 DEF cancel_job, answer
  <2> HIDE DEF h, a, ops, i
  <2>2. a.code \in Nat
    BY <2>1
  <2>3. Reads(ops, "cancel", cancel_result("cobalt", id, a.body))
    <3>1. /\ i \in DOMAIN ops /\ i \in DOMAIN OperationIds /\ OperationIds[i] = id
          /\ OperationFits("cobalt", ops[i])
      BY <1>3, <1>5, Zenon
    <3>2. Reads(ops, "cancel", cancel_result("cobalt", id, status_body("cobalt", ops[i])))
      BY <3>1, <1>4
    <3> QED
      BY <2>1, <3>2, Zenon
  <2> QED
    BY <1>1, <2>1, <2>2, <2>3, Zenon DEF h, a, ops
<1>6. CASE i # 0 /\ ops[i].status \notin {"succeeded", "failed"}
  <2> DEFINE new == [ops EXCEPT ![i] = o]
  <2>1. /\ h.store = [st EXCEPT !.operations[i] = o] /\ h.sent = {}
        /\ a.code = 200 /\ a.body = status_body("cobalt", o)
    BY <1>6 DEF cancel_job, answer
  <2> HIDE DEF h, a, ops, i, o
  <2>2. i \in DOMAIN ops /\ i \in DOMAIN OperationIds /\ OperationIds[i] = id
    BY <1>3, <1>6, Zenon
  <2>3. /\ ops \in Seq(SandboxOperation(Requests))
        /\ \E b \in [Requests -> Nat] : st = [operations |-> ops, attempts |-> b]
    BY DEF Stores, ops
  <2>0. PICK b \in [Requests -> Nat] : st = [operations |-> ops, attempts |-> b]
    BY <2>3, Zenon
  <2>4. ops[i] \in SandboxOperation(Requests)
    BY <2>2, <2>3
  <2>5. /\ o \in SandboxOperation(Requests)
        /\ o.id = ops[i].id /\ o.request = ops[i].request
        /\ o.idempotency_key = ops[i].idempotency_key
        /\ o.status = "cancelled" /\ o.outcome = "cancelled"
    BY <2>4, Zenon DEF SandboxOperation, o
  <2>6. ops[i].outcome \in {"open", "cancelled"}
    BY <1>3, <1>6, Zenon DEF OperationFits, succeeded_status, failed_status
  <2>7. ops[i].outcome = "cancelled" => o = ops[i]
    <3>1. ops[i].outcome = "cancelled" => ops[i].status = "cancelled"
      BY <1>3, <1>6, SMT DEF OperationFits
    <3> QED
      BY <2>4, <3>1, Zenon DEF SandboxOperation, o
  <2>8. /\ new \in Seq(SandboxOperation(Requests))
        /\ DOMAIN new = DOMAIN ops
        /\ new[i] = o
        /\ \A j \in DOMAIN ops : j # i => new[j] = ops[j]
    BY <2>2, <2>3, <2>5
  <2>9. h.store = [operations |-> new, attempts |-> b]
    BY <2>0, <2>1, Replaced, Zenon
  <2> HIDE DEF new
  <2>10. h.store \in Stores /\ h.store.operations = new
    BY <2>3, <2>8, <2>9 DEF Stores
  <2>11. OperationFits("cobalt", o)
    BY <2>5, Zenon DEF OperationFits
  <2>12. OperationsFit("cobalt", new)
    BY <2>2, <2>5, <2>8, <2>11, Zenon DEF OperationsFit, ops
  <2>13. KeysFit("cobalt", new)
    BY <2>2, <2>5, <2>8, SMT DEF KeysFit, ops
  <2>14. Grows(ops, new)
    BY <2>2, <2>5, <2>6, <2>7, <2>8, SMT DEF Grows
  <2>15. Reads(new, "cancel", cancel_result("cobalt", id, a.body))
    <3>1. i \in DOMAIN new /\ o.outcome = new[i].outcome
      BY <2>2, <2>8, Zenon
    <3>2. Reads(new, "cancel", cancel_result("cobalt", id, status_body("cobalt", o)))
      BY <1>4, <2>2, <2>11, <3>1
    <3> QED
      BY <2>1, <3>2, Zenon
  <2>16. a.code \in Nat
    BY <2>1
  <2> QED
    BY <2>1, <2>10, <2>12, <2>13, <2>14, <2>15, <2>16, Zenon DEF h, a, ops
<1> QED
  BY <1>2, <1>5, <1>6, Zenon

-----------------------------------------------------------------------------
(***************************************************************************)
(* Calls and messages.                                                     *)
(***************************************************************************)

\* Messages may be lost.
LEMMA WireShrinks ==
  ASSUME NEW p, NEW ops, NEW cs, NEW msgs, NEW left \in SUBSET msgs,
         WireFits(p, cs, msgs), MakersFit(p, ops, cs, msgs)
  PROVE  WireFits(p, cs, left) /\ MakersFit(p, ops, cs, left)
<1>1. WireFits(p, cs, left)
  BY Zenon DEF WireFits, SentOnce
<1>2. ASSUME NEW maker, Makes(ops, cs, msgs, maker)
      PROVE  Makes(ops, cs, left, maker)
  BY <1>2, Zenon DEF Makes
<1>3. MakersFit(p, ops, cs, left)
  BY <1>2, Zenon DEF MakersFit
<1> QED
  BY <1>1, <1>3, Zenon

\* What a call becomes when an attempt of it ends.
Continues(p, x, y) ==
  /\ y.kind = x.kind /\ y.request = x.request /\ y.reference = x.reference
  /\ y.at \in {"slot", "done"}
  /\ x.kind = "create" /\ ~ dedupes_creates(p) => y.at = "done"

\* The end of an attempt.
LEMMA CallMoves ==
  ASSUME NEW p, NEW ops, NEW cs, NEW msgs, NEW c \in Calls, NEW y,
         CallsFit(p, ops, cs), WireFits(p, cs, msgs), MakersFit(p, ops, cs, msgs),
         cs[c].at \in {"slot", "await"}, CallFits(p, ops, y), Continues(p, cs[c], y)
  PROVE  LET new == [cs EXCEPT ![c] = y]
         IN  CallsFit(p, ops, new) /\ WireFits(p, new, msgs) /\ MakersFit(p, ops, new, msgs)
<1> DEFINE new == [cs EXCEPT ![c] = y]
<1>1. /\ new \in [Calls -> CallRow]
      /\ new[c] = y
      /\ \A d \in Calls : d # c => new[d] = cs[d]
  BY DEF CallsFit, CallFits
<1> HIDE DEF new
<1>2. CallsFit(p, ops, new)
  BY <1>1, Zenon DEF CallsFit
<1>3. ASSUME NEW m \in msgs
      PROVE  MessageFits(p, new, m)
  <2>1. MessageFits(p, cs, m)
    BY Zenon DEF WireFits
  <2>2. CASE m.call = c
    BY <1>1, <2>1, <2>2, Zenon DEF MessageFits, Continues
  <2>3. CASE m.call # c
    BY <1>1, <2>1, <2>3, Zenon DEF MessageFits
  <2> QED
    BY <2>2, <2>3, Zenon
<1>4. ASSUME ~ dedupes_creates(p), NEW m \in msgs, m.kind = "create"
      PROVE  m.attempt = 1 /\ m.send = 1 /\ new[m.call].at # "slot"
  <2>1. /\ m.call \in Calls /\ m.kind = cs[m.call].kind
        /\ m.attempt = 1 /\ m.send = 1 /\ cs[m.call].at # "slot"
    BY <1>4, Zenon DEF WireFits, SentOnce, MessageFits
  <2>2. CASE m.call = c
    <3>1. new[m.call].at = "done"
      BY <1>1, <1>4, <2>1, <2>2, Zenon DEF Continues
    <3> QED
      BY <2>1, <3>1
  <2>3. CASE m.call # c
    BY <1>1, <2>1, <2>3, Zenon
  <2> QED
    BY <2>2, <2>3, Zenon
<1>5. WireFits(p, new, msgs)
  BY <1>3, <1>4, Zenon DEF WireFits, SentOnce
<1>6. ASSUME ~ dedupes_creates(p), NEW maker \in Injection(DOMAIN ops, Calls),
             Makes(ops, cs, msgs, maker)
      PROVE  Makes(ops, new, msgs, maker)
  <2>1. ASSUME NEW i \in DOMAIN ops
        PROVE  /\ new[maker[i]].kind = "create"
               /\ new[maker[i]].request = ops[i].request
               /\ new[maker[i]].at \in {"await", "done"}
               /\ \A m \in msgs : m.call # maker[i]
    <3>1. /\ maker[i] \in Calls
          /\ cs[maker[i]].kind = "create"
          /\ cs[maker[i]].request = ops[i].request
          /\ cs[maker[i]].at \in {"await", "done"}
          /\ \A m \in msgs : m.call # maker[i]
      BY <1>6, Zenon DEF Makes, Injection
    <3>2. CASE maker[i] = c
      <4>1. /\ new[maker[i]].kind = "create" /\ new[maker[i]].at = "done"
            /\ new[maker[i]].request = ops[i].request
        BY <1>1, <1>6, <3>1, <3>2, Zenon DEF Continues
      <4> QED
        BY <3>1, <4>1, Zenon
    <3>3. CASE maker[i] # c
      BY <1>1, <3>1, <3>3, Zenon
    <3> QED
      BY <3>2, <3>3, Zenon
  <2> QED
    BY <2>1, Zenon DEF Makes
<1>7. MakersFit(p, ops, new, msgs)
  BY <1>6, Zenon DEF MakersFit
<1> QED
  BY <1>2, <1>5, <1>7, Zenon DEF new

\* An error of a known category.
LEMMA ErrorOf ==
  /\ \A category \in ErrorCategory, b \in BOOLEAN :
       [category |-> category, retryable |-> b] \in Error
  /\ \A category \in ErrorCategory : error_of(category) \in Error
<1>1. \A category \in ErrorCategory, b \in BOOLEAN :
        [category |-> category, retryable |-> b] \in Error
  BY DEF Error
<1>2. \A category \in ErrorCategory : error_of(category) \in Error
  <2>1. TAKE category \in ErrorCategory
  <2> DEFINE b == category \in RETRYABLE_BY_DEFAULT
  <2>2. b \in BOOLEAN
    OBVIOUS
  <2>3. error_of(category) = [category |-> category, retryable |-> b]
    BY Zenon DEF error_of
  <2> HIDE DEF b
  <2> QED
    BY <1>1, <2>2, <2>3, Zenon
<1> QED
  BY <1>1, <1>2, Zenon

\* Errors are of the categories the decorator knows.
LEMMA Classified ==
  ASSUME NEW code \in Nat
  PROVE  classify_response(code) \in Error
<1>3. {"provider_rate_limit", "provider_authentication", "provider_validation",
       "provider_unavailable"} \subseteq ErrorCategory
  BY DEF ErrorCategory
<1>4. CASE code = 429
  BY ErrorOf, <1>3, <1>4 DEF classify_response
<1>5. CASE code \in {401, 403}
  BY ErrorOf, <1>3, <1>5 DEF classify_response
<1>6. CASE code \in {400, 404, 409, 422}
  BY ErrorOf, <1>3, <1>6 DEF classify_response
<1>7. CASE code \in RETRYABLE_STATUS_CODES \ {429}
  BY ErrorOf, <1>3, <1>7 DEF classify_response, RETRYABLE_STATUS_CODES
<1>8. CASE code \notin {401, 403, 400, 404, 409, 422} \union RETRYABLE_STATUS_CODES
  <2> DEFINE b == code \notin {500, 501, 505}
  <2>1. classify_response(code) = [category |-> "provider_unavailable", retryable |-> b]
    BY <1>8 DEF classify_response, RETRYABLE_STATUS_CODES
  <2>2. b \in BOOLEAN
    OBVIOUS
  <2> HIDE DEF b
  <2> QED
    BY ErrorOf, <1>3, <2>1, <2>2, Zenon
<1> QED
  BY <1>4, <1>5, <1>6, <1>7, <1>8 DEF RETRYABLE_STATUS_CODES

\* A raised error is a result, whatever was called.
LEMMA RaisedReads ==
  ASSUME NEW ops, NEW kind, NEW e \in Error
  PROVE  Reads(ops, kind, raised(e))
<1>1. raised(e) \in [raised : {TRUE}, error : Error] /\ raised(e).raised
  BY DEF raised
<1> QED
  BY <1>1, Zenon DEF Reads, Result, ResultFits

\* The end of a call.
LEMMA EndedFits ==
  ASSUME NEW ops, NEW c \in Calls, NEW r, CallFits(provider, ops, call[c]),
         call[c].at \in {"slot", "await"}, Reads(ops, call[c].kind, r)
  PROVE  CallFits(provider, ops, ended(c, r)) /\ Continues(provider, call[c], ended(c, r))
<1> DEFINE x == call[c]
           y == ended(c, r)
<1>1. x \in CallRow /\ r \in Result
  BY Zenon DEF CallFits, Reads
<1>2. /\ y.at = "done" /\ y.kind = x.kind /\ y.request = x.request
      /\ y.reference = x.reference /\ y.attempt = x.attempt /\ y.send = x.send /\ y.result = r
      /\ y \in CallRow
  BY <1>1, Zenon DEF CallRow, ended
<1>3. x.at # "idle"
  OBVIOUS
<1> HIDE DEF x, y
<1>4. CallFits(provider, ops, y)
  BY <1>2, <1>3, SMT DEF CallFits, Reads, x
<1>5. Continues(provider, x, y)
  BY <1>2, Zenon DEF Continues
<1> QED
  BY <1>4, <1>5, Zenon DEF x, y

\* A failed attempt is repeated or ends the call; a create without deduplication ends.
LEMMA AfterError ==
  ASSUME NEW ops, NEW c \in Calls, NEW e \in Error, CallFits(provider, ops, call[c]),
         call[c].at \in {"slot", "await"}
  PROVE  /\ CallFits(provider, ops, after_error(c, e))
         /\ Continues(provider, call[c], after_error(c, e))
<1>1. CASE call[c].attempt < attempts_allowed(c) /\ is_retryable_in_process(e)
  <2> DEFINE x == call[c]
             y == next_attempt(c)
  <2>1. x \in CallRow /\ x.result = NoResult
    BY Zenon DEF CallFits
  <2>2. x.attempt \in 1 .. 2 /\ attempts_allowed(c) \in 1 .. 2
    BY <2>1 DEF CallRow, attempts_allowed, IN_PROCESS_MAX_ATTEMPTS
  <2>3. x.attempt = 1 /\ attempts_allowed(c) = 2
    BY <1>1, <2>2
  <2>4. ~ (x.kind = "create" /\ ~ dedupes_creates(provider))
    BY <2>3 DEF attempts_allowed
  <2>5. /\ y.at = "slot" /\ y.kind = x.kind /\ y.request = x.request
        /\ y.reference = x.reference /\ y.send = 1 /\ y.result = x.result
        /\ y.attempt = x.attempt + 1
        /\ y = [x EXCEPT !.at = "slot", !.send = 1, !.attempt = x.attempt + 1]
    BY <2>1, Zenon DEF CallRow, next_attempt
  <2>6. y \in CallRow
    <3>1. x.attempt + 1 \in 1 .. IN_PROCESS_MAX_ATTEMPTS /\ 1 \in 1 .. 2
      BY <2>3 DEF IN_PROCESS_MAX_ATTEMPTS
    <3> HIDE DEF x, y
    <3> QED
      BY <2>1, <2>5, <3>1, Zenon DEF CallRow
  <2>7. after_error(c, e) = y
    BY <1>1, Zenon DEF after_error
  <2> HIDE DEF x, y
  <2>8. CallFits(provider, ops, y)
    BY <2>4, <2>5, <2>6, SMT DEF CallFits, x
  <2>9. Continues(provider, x, y)
    BY <2>4, <2>5, Zenon DEF Continues
  <2> QED
    BY <2>7, <2>8, <2>9, Zenon DEF x
<1>2. CASE ~ (call[c].attempt < attempts_allowed(c) /\ is_retryable_in_process(e))
  <2>1. after_error(c, e) = ended(c, raised(e))
    BY <1>2, Zenon DEF after_error
  <2>2. Reads(ops, call[c].kind, raised(e))
    BY RaisedReads, Zenon
  <2> QED
    BY <2>1, <2>2, EndedFits, Zenon
<1> QED
  BY <1>1, <1>2, Zenon

\* Silence, or an answer that is an error or that the call reads as a true result.
AnswerFits(ops, c, a) ==
  /\ a.code \in Nat
  /\ a = Silence \/ a.code >= 400 \/ Reads(ops, call[c].kind, read_answer(c, a.body))

\* Every provider a run may choose is one the adapters know.
LEMMA KnownProvider == provider \in Providers => provider \in Provider
  BY ProvidersAssumption

\* What a call makes of an answer.
LEMMA AfterAnswer ==
  ASSUME provider \in Providers, NEW ops, NEW c \in Calls, NEW a, a # Silence,
         AnswerFits(ops, c, a), CallFits(provider, ops, call[c]), call[c].at = "await"
  PROVE  /\ CallFits(provider, ops, after_answer(c, a))
         /\ Continues(provider, call[c], after_answer(c, a))
<1>1. CASE a.code = 401 /\ can_refresh /\ call[c].send = 1
  <2> DEFINE x == call[c]
             y == [x EXCEPT !.at = "slot", !.send = 2]
  <2>1. x \in CallRow /\ x.result = NoResult /\ x.at = "await"
    BY SMT DEF CallFits
  <2>2. dedupes_creates(provider)
    BY <1>1, KnownProvider DEF can_refresh, dedupes_creates, Provider
  <2>3. /\ y.at = "slot" /\ y.kind = x.kind /\ y.request = x.request
        /\ y.reference = x.reference /\ y.attempt = x.attempt /\ y.result = x.result
    BY <2>1, Zenon DEF CallRow
  <2>4. y \in CallRow
    <3>1. 2 \in 1 .. 2
      OBVIOUS
    <3> QED
      BY <2>1, <3>1, Zenon DEF CallRow
  <2>5. after_answer(c, a) = y
    BY <1>1, Zenon DEF after_answer
  <2> HIDE DEF x, y
  <2>6. CallFits(provider, ops, y)
    BY <2>1, <2>2, <2>3, <2>4, SMT DEF CallFits, x
  <2>7. Continues(provider, x, y)
    BY <2>2, <2>3, Zenon DEF Continues
  <2> QED
    BY <2>5, <2>6, <2>7, Zenon DEF x
<1>2. CASE ~ (a.code = 401 /\ can_refresh /\ call[c].send = 1) /\ a.code >= 400
  <2>1. after_answer(c, a) = after_error(c, classify_response(a.code))
    BY <1>2, Zenon DEF after_answer
  <2>2. classify_response(a.code) \in Error
    BY Classified, Zenon DEF AnswerFits
  <2> QED
    BY <2>1, <2>2, AfterError, Zenon
<1>3. CASE ~ (a.code = 401 /\ can_refresh /\ call[c].send = 1) /\ ~ (a.code >= 400)
  <2>1. after_answer(c, a) = ended(c, read_answer(c, a.body))
    BY <1>3, Zenon DEF after_answer
  <2>2. Reads(ops, call[c].kind, read_answer(c, a.body))
    BY <1>3, Zenon DEF AnswerFits
  <2> QED
    BY <2>1, <2>2, EndedFits, Zenon
<1> QED
  BY <1>1, <1>2, <1>3, Zenon

\* An answer that arrives, or does not, keeps what holds of the calls and the wire.
LEMMA AnswerKeeps ==
  ASSUME provider \in Providers, NEW ops, NEW left, NEW m, m.call \in Calls, NEW a,
         AnswerFits(ops, m.call, a), CallsFit(provider, ops, call),
         WireFits(provider, call, left), MakersFit(provider, ops, call, left), Answer(m, a)
  PROVE  /\ CallsFit(provider, ops, call')
         /\ WireFits(provider, call', left)
         /\ MakersFit(provider, ops, call', left)
<1>1. CASE awaits(m) /\ a # Silence /\ call' = [call EXCEPT ![m.call] = after_answer(m.call, a)]
  <2> DEFINE c == m.call
             y == after_answer(c, a)
  <2>1. call[c].at = "await" /\ CallFits(provider, ops, call[c])
    BY <1>1, Zenon DEF awaits, at, CallsFit
  <2>2. CallFits(provider, ops, y) /\ Continues(provider, call[c], y)
    BY <1>1, <2>1, AfterAnswer, Zenon
  <2>3. call[c].at \in {"slot", "await"}
    BY <2>1, Zenon
  <2>4. call' = [call EXCEPT ![c] = y]
    BY <1>1, Zenon
  <2> HIDE DEF y, c
  <2>5. c \in Calls
    BY Zenon DEF c
  <2> QED
    BY <2>2, <2>3, <2>4, <2>5, CallMoves, Zenon
<1>2. CASE awaits(m) /\ call' = [call EXCEPT ![m.call] = after_error(m.call, unreadable_body)]
  <2> DEFINE c == m.call
             y == after_error(c, unreadable_body)
  <2>1. call[c].at \in {"slot", "await"} /\ CallFits(provider, ops, call[c])
    BY <1>2, Zenon DEF awaits, at, CallsFit
  <2>2. unreadable_body \in Error
    BY DEF unreadable_body, Error, ErrorCategory
  <2>3. CallFits(provider, ops, y) /\ Continues(provider, call[c], y)
    BY <2>1, <2>2, AfterError, Zenon
  <2>4. call' = [call EXCEPT ![c] = y]
    BY <1>2, Zenon
  <2> HIDE DEF y, c
  <2>5. c \in Calls
    BY Zenon DEF c
  <2> QED
    BY <2>1, <2>3, <2>4, <2>5, CallMoves, Zenon
<1>3. CASE UNCHANGED call
  BY <1>3, Zenon
<1> QED
  BY <1>1, <1>2, <1>3, Zenon DEF Answer

\* The beginning of a call.
LEMMA CallStarts ==
  ASSUME NEW p, NEW ops, NEW cs, NEW msgs, NEW c \in Calls, NEW y,
         CallsFit(p, ops, cs), WireFits(p, cs, msgs), MakersFit(p, ops, cs, msgs),
         cs[c].at = "idle", CallFits(p, ops, y)
  PROVE  LET new == [cs EXCEPT ![c] = y]
         IN  CallsFit(p, ops, new) /\ WireFits(p, new, msgs) /\ MakersFit(p, ops, new, msgs)
<1> DEFINE new == [cs EXCEPT ![c] = y]
<1>1. /\ new \in [Calls -> CallRow]
      /\ new[c] = y
      /\ \A d \in Calls : d # c => new[d] = cs[d]
  BY DEF CallsFit, CallFits
<1> HIDE DEF new
<1>2. CallsFit(p, ops, new)
  BY <1>1, Zenon DEF CallsFit
<1>3. ASSUME NEW m \in msgs
      PROVE  m.call \in Calls /\ m.call # c
  BY SMT DEF WireFits, MessageFits
<1>4. ASSUME NEW m \in msgs
      PROVE  MessageFits(p, new, m)
  BY <1>1, <1>3, Zenon DEF WireFits, MessageFits
<1>5. WireFits(p, new, msgs)
  BY <1>1, <1>3, <1>4, Zenon DEF WireFits, SentOnce
<1>6. ASSUME NEW maker \in Injection(DOMAIN ops, Calls), Makes(ops, cs, msgs, maker)
      PROVE  Makes(ops, new, msgs, maker)
  <2>1. ASSUME NEW i \in DOMAIN ops
        PROVE  maker[i] \in Calls /\ maker[i] # c
    <3>1. maker[i] \in Calls /\ cs[maker[i]].at \in {"await", "done"}
      BY <1>6, Zenon DEF Makes, Injection
    <3> QED
      BY <3>1, SMT
  <2> QED
    BY <1>1, <1>6, <2>1, Zenon DEF Makes
<1>7. MakersFit(p, ops, new, msgs)
  BY <1>6, Zenon DEF MakersFit
<1> QED
  BY <1>2, <1>5, <1>7, Zenon DEF new

\* A message leaves.
LEMMA CallSends ==
  ASSUME NEW p, NEW ops, NEW cs, NEW msgs, NEW c \in Calls, NEW y, NEW n,
         CallsFit(p, ops, cs), WireFits(p, cs, msgs), MakersFit(p, ops, cs, msgs),
         cs[c].at = "slot", y = [cs[c] EXCEPT !.at = "await"],
         n = [call |-> c, attempt |-> cs[c].attempt, send |-> cs[c].send, kind |-> cs[c].kind,
              request |-> cs[c].request, reference |-> cs[c].reference,
              key |-> IF dedupes_creates(p) THEN cs[c].request ELSE None]
  PROVE  LET new == [cs EXCEPT ![c] = y]
         IN  /\ CallsFit(p, ops, new)
             /\ WireFits(p, new, msgs \union {n})
             /\ MakersFit(p, ops, new, msgs \union {n})
<1> DEFINE new == [cs EXCEPT ![c] = y]
<1>1. CallFits(p, ops, cs[c]) /\ cs[c] \in CallRow /\ cs \in [Calls -> CallRow]
  BY Zenon DEF CallsFit, CallFits
<1>2. /\ y.at = "await" /\ y.kind = cs[c].kind /\ y.request = cs[c].request
      /\ y.reference = cs[c].reference /\ y.attempt = cs[c].attempt /\ y.send = cs[c].send
      /\ y.result = cs[c].result /\ y \in CallRow
  BY <1>1, Zenon DEF CallRow
<1>3. CallFits(p, ops, y)
  BY <1>1, <1>2, SMT DEF CallFits
<1>4. /\ new \in [Calls -> CallRow]
      /\ new[c] = y
      /\ \A d \in Calls : d # c => new[d] = cs[d]
  BY <1>1, <1>2
<1> HIDE DEF new
<1>5. CallsFit(p, ops, new)
  BY <1>3, <1>4, Zenon DEF CallsFit
<1>6. /\ n.call = c /\ n.attempt = cs[c].attempt /\ n.send = cs[c].send
      /\ n.kind = cs[c].kind /\ n.request = cs[c].request /\ n.reference = cs[c].reference
      /\ n.key = IF dedupes_creates(p) THEN n.request ELSE None
  BY Zenon
<1>7. MessageFits(p, new, n)
  <2>1. n = [call |-> n.call, attempt |-> n.attempt, send |-> n.send, kind |-> n.kind,
             request |-> n.request, reference |-> n.reference, key |-> n.key]
    BY Zenon
  <2>2. new[n.call] = y /\ n.call \in Calls /\ y.at \in {"slot", "await", "done"}
    BY <1>2, <1>4, <1>6, Zenon
  <2> QED
    BY <1>2, <1>6, <2>1, <2>2, Zenon DEF MessageFits
<1>8. ASSUME NEW m \in msgs
      PROVE  MessageFits(p, new, m)
  <2>1. MessageFits(p, cs, m)
    BY Zenon DEF WireFits
  <2>2. CASE m.call = c
    BY <1>2, <1>4, <2>1, <2>2, Zenon DEF MessageFits
  <2>3. CASE m.call # c
    BY <1>4, <2>1, <2>3, Zenon DEF MessageFits
  <2> QED
    BY <2>2, <2>3, Zenon
<1>9. ASSUME ~ dedupes_creates(p), NEW m \in msgs \union {n}, m.kind = "create"
      PROVE  m.attempt = 1 /\ m.send = 1 /\ new[m.call].at # "slot"
  <2>1. CASE m = n
    <3>1. cs[c].attempt = 1 /\ cs[c].send = 1
      BY <1>1, <1>6, <1>9, <2>1, Zenon DEF CallFits
    <3>2. new[m.call].at = "await"
      BY <1>2, <1>4, <1>6, <2>1, Zenon
    <3> QED
      BY <1>6, <2>1, <3>1, <3>2, Zenon
  <2>2. CASE m \in msgs
    <3>1. m.call \in Calls /\ m.attempt = 1 /\ m.send = 1 /\ cs[m.call].at # "slot"
      BY <1>9, <2>2, Zenon DEF WireFits, SentOnce, MessageFits
    <3> QED
      BY <1>4, <3>1, Zenon
  <2> QED
    BY <2>1, <2>2, Zenon
<1>10. WireFits(p, new, msgs \union {n})
  BY <1>7, <1>8, <1>9, Zenon DEF WireFits, SentOnce
<1>11. ASSUME NEW maker \in Injection(DOMAIN ops, Calls), Makes(ops, cs, msgs, maker)
       PROVE  Makes(ops, new, msgs \union {n}, maker)
  <2>1. ASSUME NEW i \in DOMAIN ops
        PROVE  maker[i] \in Calls /\ maker[i] # c
    <3>1. maker[i] \in Calls /\ cs[maker[i]].at \in {"await", "done"}
      BY <1>11, Zenon DEF Makes, Injection
    <3> QED
      BY <3>1, SMT
  <2>2. ASSUME NEW i \in DOMAIN ops, NEW m \in msgs \union {n}
        PROVE  m.call # maker[i]
    BY <1>6, <1>11, <2>1, <2>2, Zenon DEF Makes
  <2>3. ASSUME NEW i \in DOMAIN ops
        PROVE  new[maker[i]] = cs[maker[i]]
    BY <1>4, <2>1, Zenon
  <2> QED
    BY <1>11, <2>2, <2>3, Zenon DEF Makes
<1>12. MakersFit(p, ops, new, msgs \union {n})
  BY <1>11, Zenon DEF MakersFit
<1> QED
  BY <1>5, <1>10, <1>12, Zenon DEF new

-----------------------------------------------------------------------------
(***************************************************************************)
(* The actions keep the invariant.                                         *)
(***************************************************************************)

\* Steps that do not reach the provider.
LEMMA OutsideKeeps ==
  ASSUME GInv, UNCHANGED <<provider, scenario, store, sent>>,
         CallsFit(provider, store.operations, call'),
         WireFits(provider, call', wire'),
         MakersFit(provider, store.operations, call', wire'),
         faults' \in 0 .. MaxFaults
  PROVE  GInv'
  BY Zenon DEF GInv

\* A fault is counted.
LEMMA FaultCounted == GInv /\ Fault => faults' \in 0 .. MaxFaults
  BY MaxFaultsAssumption DEF GInv, Fault

\* A call begins.
LEMMA BeginKeeps == ASSUME GInv, NEW c \in Calls, Begin(c) PROVE GInv'
<1> DEFINE x == call[c]
           ops == store.operations
<1>1. /\ CallsFit(provider, ops, call) /\ WireFits(provider, call, wire)
      /\ MakersFit(provider, ops, call, wire)
  BY Zenon DEF GInv
<1>2. x.at = "idle" /\ CallFits(provider, ops, x) /\ x \in CallRow
  BY <1>1, Zenon DEF Begin, at, CallsFit, CallFits
<1>3. x.kind = "create" /\ x.result = NoResult
  BY <1>2, SMT DEF CallFits
<1>4. \E y : call' = [call EXCEPT ![c] = y] /\ CallFits(provider, ops, y)
  <2>1. ASSUME NEW r \in Requests, call' = [call EXCEPT ![c].at = "slot", ![c].request = r]
        PROVE  \E y : call' = [call EXCEPT ![c] = y] /\ CallFits(provider, ops, y)
    <3> DEFINE y == [x EXCEPT !.at = "slot", !.request = r]
    <3>1. call' = [call EXCEPT ![c] = y]
      BY <2>1, Zenon
    <3>2. /\ y.at = "slot" /\ y.kind = x.kind /\ y.request = r /\ y.attempt = x.attempt
          /\ y.send = x.send /\ y.result = x.result /\ y \in CallRow
      BY <1>2, Zenon DEF CallRow
    <3> HIDE DEF x, y
    <3>3. CallFits(provider, ops, y)
      BY <1>2, <1>3, <3>2, SMT DEF CallFits
    <3> QED
      BY <3>1, <3>3, Zenon
  <2>2. ASSUME NEW kind \in {"status", "cancel"}, NEW i \in DOMAIN ops, is_supported(kind),
               call' = [call EXCEPT ![c].at = "slot", ![c].kind = kind,
                                    ![c].reference = ops[i].id]
        PROVE  \E y : call' = [call EXCEPT ![c] = y] /\ CallFits(provider, ops, y)
    <3> DEFINE y == [x EXCEPT !.at = "slot", !.kind = kind, !.reference = ops[i].id]
    <3>1. call' = [call EXCEPT ![c] = y]
      BY <2>2, Zenon
    <3>2. ops[i].id \in Range(OperationIds)
      BY Identifiers, Zenon DEF GInv, OperationsFit
    <3>3. /\ y.at = "slot" /\ y.kind = kind /\ y.request = x.request
          /\ y.attempt = x.attempt /\ y.send = x.send /\ y.result = x.result /\ y \in CallRow
      BY <1>2, <3>2, Zenon DEF CallRow
    <3>4. /\ kind = "status" => provider \in {"meridian", "cobalt"}
          /\ kind = "cancel" => provider = "cobalt"
      BY <2>2, Zenon DEF is_supported, answers_status, cancels
    <3>5. ResultFits(ops, kind, NoResult)
      BY DEF ResultFits, NoResult
    <3> HIDE DEF x, y
    <3>6. CallFits(provider, ops, y)
      BY <1>3, <3>3, <3>4, <3>5, SMT DEF CallFits
    <3> QED
      BY <3>1, <3>6, Zenon
  <2> QED
    BY <2>1, <2>2, Zenon DEF Begin
<1>5. PICK y : call' = [call EXCEPT ![c] = y] /\ CallFits(provider, ops, y)
  BY <1>4, Zenon
<1> HIDE DEF x, ops
<1>6. /\ CallsFit(provider, ops, call') /\ WireFits(provider, call', wire)
      /\ MakersFit(provider, ops, call', wire)
  BY <1>1, <1>2, <1>5, CallStarts, Zenon DEF x
<1>7. wire' = wire /\ faults' \in 0 .. MaxFaults /\ UNCHANGED <<provider, scenario, store, sent>>
  BY Zenon DEF Begin, GInv
<1> QED
  BY <1>6, <1>7, OutsideKeeps, Zenon DEF ops

\* An attempt of a call ends without the provider, and messages may be lost.
LEMMA EndingKeeps ==
  ASSUME GInv, NEW c \in Calls, call[c].at \in {"slot", "await"}, NEW y,
         CallFits(provider, store.operations, y), Continues(provider, call[c], y),
         call' = [call EXCEPT ![c] = y], wire' \in SUBSET wire, faults' \in 0 .. MaxFaults,
         UNCHANGED <<provider, scenario, store, sent>>
  PROVE  GInv'
<1>1. /\ CallsFit(provider, store.operations, call)
      /\ WireFits(provider, call, wire')
      /\ MakersFit(provider, store.operations, call, wire')
  BY WireShrinks, Zenon DEF GInv
<1>2. /\ CallsFit(provider, store.operations, call')
      /\ WireFits(provider, call', wire')
      /\ MakersFit(provider, store.operations, call', wire')
  BY <1>1, CallMoves, Zenon
<1> QED
  BY <1>2, OutsideKeeps, Zenon

\* A call is turned away.
LEMMA RefuseKeeps == ASSUME GInv, NEW c \in Calls, Refuse(c) PROVE GInv'
<1>1. call[c].at = "slot" /\ CallFits(provider, store.operations, call[c])
  BY Zenon DEF GInv, Refuse, at, CallsFit
<1>2. PICK category \in {"provider_rate_limit", "provider_unavailable"} :
        call' = [call EXCEPT ![c] = ended(c, raised(error_of(category)))]
  BY Zenon DEF Refuse
<1>3. error_of(category) \in Error
  BY ErrorOf, SMT DEF ErrorCategory
<1>4. Reads(store.operations, call[c].kind, raised(error_of(category)))
  BY <1>3, RaisedReads, Zenon
<1> DEFINE y == ended(c, raised(error_of(category)))
<1>5. CallFits(provider, store.operations, y) /\ Continues(provider, call[c], y)
  BY <1>1, <1>4, EndedFits, Zenon
<1> HIDE DEF y
<1>6. call' = [call EXCEPT ![c] = y]
  BY <1>2, Zenon DEF y
<1>7. /\ wire' \in SUBSET wire /\ faults' \in 0 .. MaxFaults
      /\ UNCHANGED <<provider, scenario, store, sent>> /\ call[c].at \in {"slot", "await"}
  BY <1>1, FaultCounted, Zenon DEF Refuse
<1> QED
  BY <1>5, <1>6, <1>7, EndingKeeps, Zenon

\* A call is sent, or has no token.
LEMMA SendKeeps == ASSUME GInv, NEW c \in Calls, Send(c) PROVE GInv'
<1>1. call[c].at = "slot" /\ CallFits(provider, store.operations, call[c])
  BY Zenon DEF GInv, Send, at, CallsFit
<1>2. UNCHANGED <<provider, scenario, store, sent>>
  BY Zenon DEF Send
<1>3. CASE /\ wire' = wire \union {message(c)}
           /\ call' = [call EXCEPT ![c].at = "await"]
           /\ UNCHANGED faults
  <2> DEFINE y == [call[c] EXCEPT !.at = "await"]
  <2>1. call' = [call EXCEPT ![c] = y] /\ y = [call[c] EXCEPT !.at = "await"]
    BY <1>3, Zenon
  <2>2. message(c) =
          [call |-> c, attempt |-> call[c].attempt, send |-> call[c].send, kind |-> call[c].kind,
           request |-> call[c].request, reference |-> call[c].reference,
           key |-> IF dedupes_creates(provider) THEN call[c].request ELSE None]
    BY Zenon DEF message
  <2> HIDE DEF y
  <2>3. /\ CallsFit(provider, store.operations, call)
        /\ WireFits(provider, call, wire)
        /\ MakersFit(provider, store.operations, call, wire)
    BY Zenon DEF GInv
  <2>4. /\ CallsFit(provider, store.operations, call')
        /\ WireFits(provider, call', wire')
        /\ MakersFit(provider, store.operations, call', wire')
    <3> DEFINE n == message(c)
               new == [call EXCEPT ![c] = y]
    <3> HIDE DEF n
    <3>1. /\ CallsFit(provider, store.operations, new)
          /\ WireFits(provider, new, wire \union {n})
          /\ MakersFit(provider, store.operations, new, wire \union {n})
      BY <1>1, <2>1, <2>2, <2>3, CallSends, Zenon DEF n
    <3> QED
      BY <1>3, <2>1, <3>1, Zenon DEF n
  <2>5. faults' \in 0 .. MaxFaults
    BY <1>3, Zenon DEF GInv
  <2> QED
    BY <1>2, <2>4, <2>5, OutsideKeeps, Zenon
<1>4. ASSUME Fault, NEW retryable \in BOOLEAN, UNCHANGED wire,
             call' = [call EXCEPT ![c] = after_error(c,
                       [category |-> "provider_authentication", retryable |-> retryable])]
      PROVE  GInv'
  <2> DEFINE e == [category |-> "provider_authentication", retryable |-> retryable]
             y == after_error(c, e)
  <2>1. e \in Error
    BY DEF Error, ErrorCategory
  <2> HIDE DEF e
  <2>2. CallFits(provider, store.operations, y) /\ Continues(provider, call[c], y)
    BY <1>1, <2>1, AfterError, Zenon
  <2>3. call' = [call EXCEPT ![c] = y]
    BY <1>4, Zenon DEF e
  <2> HIDE DEF y
  <2>4. wire' \in SUBSET wire /\ faults' \in 0 .. MaxFaults /\ call[c].at \in {"slot", "await"}
    BY <1>1, <1>4, FaultCounted, Zenon
  <2> QED
    BY <1>2, <2>2, <2>3, <2>4, EndingKeeps, Zenon
<1> QED
  BY <1>3, <1>4, Zenon DEF Send

\* A wait ends without an answer.
LEMMA NoAnswerKeeps == ASSUME GInv, NEW c \in Calls, NoAnswer(c) PROVE GInv'
<1>1. call[c].at = "await" /\ CallFits(provider, store.operations, call[c])
  BY Zenon DEF GInv, NoAnswer, at, CallsFit
<1>2. PICK kind \in {"timeout", "unreachable"} :
        call' = [call EXCEPT ![c] = after_error(c, classify_transport_error(kind))]
  BY Zenon DEF NoAnswer
<1> DEFINE e == classify_transport_error(kind)
           y == after_error(c, e)
<1>3. e \in Error
  BY ErrorOf, SMT DEF classify_transport_error, ErrorCategory
<1> HIDE DEF e
<1>4. CallFits(provider, store.operations, y) /\ Continues(provider, call[c], y)
  BY <1>1, <1>3, AfterError, Zenon
<1>5. call' = [call EXCEPT ![c] = y]
  BY <1>2, Zenon DEF e
<1> HIDE DEF y
<1>6. /\ wire' \in SUBSET wire /\ faults' \in 0 .. MaxFaults
      /\ UNCHANGED <<provider, scenario, store, sent>> /\ call[c].at \in {"slot", "await"}
  BY <1>1, Zenon DEF NoAnswer, GInv
<1> QED
  BY <1>4, <1>5, <1>6, EndingKeeps, Zenon

\* The provider turns a token down.
LEMMA RejectTokenKeeps == ASSUME GInv, NEW m \in wire, RejectToken(m) PROVE GInv'
<1> DEFINE a == answer(401, <<>>)
           ops == store.operations
<1>1. wire' \in SUBSET wire /\ wire' = wire \ {m}
  BY Zenon DEF RejectToken
<1>2. /\ provider \in Providers /\ m.call \in Calls
      /\ CallsFit(provider, ops, call)
      /\ WireFits(provider, call, wire') /\ MakersFit(provider, ops, call, wire')
  <2>1. WireFits(provider, call, wire) /\ MakersFit(provider, ops, call, wire)
    BY Zenon DEF GInv
  <2>2. WireFits(provider, call, wire') /\ MakersFit(provider, ops, call, wire')
    BY <1>1, <2>1, WireShrinks, Zenon
  <2>3. m.call \in Calls
    BY <2>1, Zenon DEF WireFits, MessageFits
  <2> QED
    BY <2>2, <2>3, Zenon DEF GInv
<1>3. AnswerFits(ops, m.call, a)
  BY DEF AnswerFits, answer
<1>4. Answer(m, a)
  BY Zenon DEF RejectToken
<1> HIDE DEF a, ops
<1>5. /\ CallsFit(provider, ops, call') /\ WireFits(provider, call', wire')
      /\ MakersFit(provider, ops, call', wire')
  BY <1>2, <1>3, <1>4, AnswerKeeps, Zenon
<1>6. faults' \in 0 .. MaxFaults /\ UNCHANGED <<provider, scenario, store, sent>>
  BY FaultCounted, Zenon DEF RejectToken
<1> QED
  BY <1>5, <1>6, OutsideKeeps, Zenon DEF ops

\* One more value makes a longer injection.
LEMMA ExtendInjection ==
  ASSUME NEW n \in Nat, NEW T, NEW g \in Injection(1 .. n, T), NEW x \in T,
         \A i \in 1 .. n : g[i] # x
  PROVE  [i \in 1 .. n + 1 |-> IF i = n + 1 THEN x ELSE g[i]] \in Injection(1 .. n + 1, T)
<1> DEFINE more == [i \in 1 .. n + 1 |-> IF i = n + 1 THEN x ELSE g[i]]
<1>1. g \in [1 .. n -> T] /\ \A i, j \in 1 .. n : g[i] = g[j] => i = j
  BY Zenon DEF Injection, IsInjective
<1>2. \A i \in 1 .. n + 1 : i = n + 1 \/ i \in 1 .. n
  OBVIOUS
<1>3. more \in [1 .. n + 1 -> T]
  BY <1>1, <1>2
<1>4. ASSUME NEW i \in 1 .. n + 1, NEW j \in 1 .. n + 1, more[i] = more[j]
      PROVE  i = j
  BY <1>1, <1>2, <1>4
<1> HIDE DEF more
<1>5. DOMAIN more = 1 .. n + 1
  BY <1>3, Zenon
<1>6. more \in Injection(1 .. n + 1, T)
  BY <1>3, <1>4, <1>5, Zenon DEF Injection, IsInjective
<1> QED
  BY <1>6, Zenon DEF more

\* next_id() has an identifier left for one of at most as many operations as there are ids.
LEMMA RoomFor ==
  ASSUME NEW n \in Nat, NEW T, IsFiniteSet(T), Cardinality(T) <= Len(OperationIds),
         NEW g \in Injection(1 .. n + 1, T)
  PROVE  n + 1 \in DOMAIN OperationIds
<1>1. Cardinality(1 .. n + 1) <= Cardinality(T)
  BY FS_Injection, Zenon
<1>2. Cardinality(1 .. n + 1) = n + 1
  <2>1. 1 \in Int /\ n + 1 \in Int
    OBVIOUS
  <2>2. Cardinality(1 .. n + 1) = IF 1 > n + 1 THEN 0 ELSE (n + 1) - 1 + 1
    BY <2>1, FS_Interval, Zenon
  <2> QED
    BY <2>2
<1>3. Cardinality(T) \in Nat
  BY FS_CardinalityType, Zenon
<1>4. DOMAIN OperationIds = 1 .. Len(OperationIds) /\ Len(OperationIds) \in Nat
  BY OperationIdsAssumption
<1> QED
  BY <1>1, <1>2, <1>3, <1>4, SMT

\* What a message asks for.
LEMMA MessageIs ==
  ASSUME GInv, NEW m \in wire
  PROVE  /\ m.call \in Calls
         /\ m.kind = call[m.call].kind /\ m.reference = call[m.call].reference
         /\ m.request = call[m.call].request
         /\ m.key = IF dedupes_creates(provider) THEN m.request ELSE None
         /\ call[m.call].at \in {"slot", "await", "done"}
         /\ m.kind \in {"create", "status", "cancel"}
         /\ m.kind = "create" => m.request \in Requests
         /\ m.kind = "status" => provider \in {"meridian", "cobalt"}
         /\ m.kind = "cancel" => provider = "cobalt"
<1>1. MessageFits(provider, call, m)
  BY Zenon DEF GInv, WireFits
<1>2. CallFits(provider, store.operations, call[m.call]) /\ m.call \in Calls
  BY <1>1, Zenon DEF GInv, CallsFit, MessageFits
<1>3. call[m.call].kind \in {"create", "status", "cancel"}
  BY <1>2, Zenon DEF CallFits, CallRow
<1>4. call[m.call].at # "idle"
  BY <1>1, SMT DEF MessageFits
<1> QED
  BY <1>1, <1>2, <1>3, <1>4, Zenon DEF MessageFits, CallFits

\* A create that makes an operation finds an identifier for it.
LEMMA Room ==
  ASSUME GInv, NEW m \in wire, m.kind = "create",
         existing_operation(provider, store, m.key) = {}
  PROVE  Len(store.operations) + 1 \in DOMAIN OperationIds
<1> DEFINE ops == store.operations
           n == Len(ops)
<1>1. n \in Nat /\ DOMAIN ops = 1 .. n /\ \A i \in 1 .. n : ops[i] \in SandboxOperation(Requests)
  BY DEF GInv, Stores
<1>2. m.request \in Requests /\ m.call \in Calls
  BY MessageIs, Zenon
<1> HIDE DEF n
<1>3. CASE dedupes_creates(provider)
  <2> DEFINE g == [i \in 1 .. n |-> ops[i].request]
  <2>1. \A i \in 1 .. n : ops[i].request \in Requests
    BY <1>1, Zenon DEF SandboxOperation
  <2>2. g \in [1 .. n -> Requests]
    BY <2>1, Zenon
  <2>3. \A i, j \in 1 .. n : g[i] = g[j] => i = j
    BY <1>1, <1>3, Zenon DEF GInv, KeysFit
  <2>4. g \in Injection(1 .. n, Requests)
    BY <2>2, <2>3, Zenon DEF Injection, IsInjective
  <2>5. m.key = m.request /\ m.key # None
    BY <1>2, <1>3, MessageIs, RequestsAssumption, Zenon
  <2>6. \A i \in 1 .. n : g[i] # m.request
    <3>1. \A i \in 1 .. n : ops[i].idempotency_key # m.key
      BY <1>1, <1>3, <2>5, Zenon DEF existing_operation
    <3>2. \A i \in 1 .. n : ops[i].idempotency_key = ops[i].request
      BY <1>1, <1>3, Zenon DEF GInv, KeysFit
    <3> QED
      BY <2>5, <3>1, <3>2, Zenon
  <2> HIDE DEF g
  <2>7. \E more : more \in Injection(1 .. n + 1, Requests)
    BY <1>1, <1>2, <2>4, <2>6, ExtendInjection, Zenon
  <2>8. IsFiniteSet(Requests) /\ Cardinality(Requests) <= Len(OperationIds)
    BY RequestsAssumption, EnoughIdsAssumption, Zenon
  <2> QED
    BY <1>1, <2>7, <2>8, RoomFor, Zenon DEF n
<1>4. CASE ~ dedupes_creates(provider)
  <2>1. PICK maker \in Injection(1 .. n, Calls) : Makes(ops, call, wire, maker)
    BY <1>1, <1>4, Zenon DEF GInv, MakersFit
  <2>2. \A i \in 1 .. n : maker[i] # m.call
    BY <1>1, <2>1, Zenon DEF Makes
  <2>3. \E more : more \in Injection(1 .. n + 1, Calls)
    BY <1>1, <1>2, <2>2, ExtendInjection, Zenon
  <2>4. IsFiniteSet(Calls) /\ Cardinality(Calls) <= Len(OperationIds)
    BY CallsAssumption, EnoughIdsAssumption, Zenon
  <2> QED
    BY <1>1, <2>3, <2>4, RoomFor, Zenon DEF n
<1> QED
  BY <1>3, <1>4, Zenon

\* An operation may be appended to the store.
Appends(p, st, r, key, o, ws) ==
  /\ st \in Stores /\ OperationsFit(p, st.operations) /\ KeysFit(p, st.operations)
  /\ Len(st.operations) + 1 \in DOMAIN OperationIds
  /\ r \in Requests
  /\ key = IF dedupes_creates(p) THEN r ELSE None
  /\ existing_operation(p, st, key) = {}
  /\ Made(p, st, r, key, o, ws)

\* The operations new that come of the n operations ops with the new operation o.
Appended(p, ops, n, o, ws, new) ==
  /\ OperationsFit(p, new) /\ KeysFit(p, new) /\ Grows(ops, new)
  /\ SentFits(p, new, ws)
  /\ DOMAIN ops = 1 .. n
  /\ DOMAIN new = 1 .. n + 1
  /\ \A i \in DOMAIN ops : new[i] = ops[i]
  /\ new[n + 1] = o

\* The store with a new operation.
LEMMA AppendFits ==
  ASSUME NEW p, NEW st, NEW r, NEW key, NEW o, NEW ws, Appends(p, st, r, key, o, ws)
  PROVE  Appended(p, st.operations, Len(st.operations), o, ws, Append(st.operations, o))
<1> DEFINE ops == st.operations
           n == Len(ops)
           new == Append(ops, o)
<1> USE DEF Appends
<1>1. /\ n \in Nat /\ DOMAIN ops = 1 .. n
      /\ ops \in Seq(SandboxOperation(Requests)) /\ o \in SandboxOperation(Requests)
  BY DEF Stores, Made
<1>2. /\ DOMAIN new = 1 .. n + 1
      /\ \A i \in 1 .. n : new[i] = ops[i]
      /\ new[n + 1] = o
  BY <1>1
<1>3. /\ n + 1 \in 1 .. n + 1
      /\ \A i \in 1 .. n + 1 : i = n + 1 \/ i \in 1 .. n
      /\ \A i \in 1 .. n : i \in 1 .. n + 1
  BY <1>1
<1>4. o.id = OperationIds[n + 1] /\ OperationFits(p, o) /\ o.idempotency_key = key /\ o.request = r
  BY Zenon DEF Made
<1>5. n + 1 \in DOMAIN OperationIds
  OBVIOUS
<1> HIDE DEF n, new
<1>6. OperationsFit(p, new)
  BY <1>1, <1>2, <1>3, <1>4, <1>5, Zenon DEF OperationsFit
<1>7. Grows(ops, new)
  BY <1>1, <1>2, <1>3, Zenon DEF Grows
<1>8. SentFits(p, new, ws)
  <2>1. \A w \in ws : /\ w.operation = OperationIds[n + 1]
                      /\ w.event_type = completion_event(p, new[n + 1])
                      /\ new[n + 1].outcome \in {"succeeded", "failed"}
    BY <1>2, <1>4, Zenon DEF Made
  <2>2. n + 1 \in DOMAIN new
    BY <1>2, <1>3, Zenon
  <2> QED
    BY <2>1, <2>2, Zenon DEF SentFits
<1>9. KeysFit(p, new)
  <2>1. SUFFICES ASSUME dedupes_creates(p), NEW i \in 1 .. n + 1, NEW j \in 1 .. n + 1
                 PROVE  /\ new[i].idempotency_key = new[i].request
                        /\ new[i].request = new[j].request => i = j
    BY <1>2, Zenon DEF KeysFit
  <2>2. key = r /\ r # None
    BY <2>1, RequestsAssumption, Zenon
  <2>3. \A k \in 1 .. n : ops[k].idempotency_key = ops[k].request /\ ops[k].request # r
    <3>1. \A k \in 1 .. n : ops[k].idempotency_key # key
      BY <1>1, <2>1, <2>2, Zenon DEF existing_operation
    <3>2. \A k \in 1 .. n : ops[k].idempotency_key = ops[k].request
      BY <1>1, <2>1, Zenon DEF KeysFit
    <3> QED
      BY <2>2, <3>1, <3>2, Zenon
  <2>4. \A k \in 1 .. n : \A l \in 1 .. n : ops[k].request = ops[l].request => k = l
    BY <1>1, <2>1, Zenon DEF KeysFit
  <2>5. new[i].idempotency_key = new[i].request
    BY <1>2, <1>3, <1>4, <2>2, <2>3, Zenon
  <2>6. ASSUME new[i].request = new[j].request
        PROVE  i = j
    BY <1>2, <1>3, <1>4, <2>3, <2>4, <2>6, Zenon
  <2> QED
    BY <2>5, <2>6, Zenon
<1> QED
  BY <1>1, <1>2, <1>6, <1>7, <1>8, <1>9, Zenon DEF n, new, Appended

\* A request is handled, given what its handler does.
LEMMA HandledKeeps ==
  ASSUME GInv, NEW m \in wire, Serve(m), NEW h, h = handled(m),
         h.store \in Stores,
         OperationsFit(provider, h.store.operations), KeysFit(provider, h.store.operations),
         Grows(store.operations, h.store.operations),
         SentFits(provider, h.store.operations, h.sent),
         MakersFit(provider, h.store.operations, call, wire'),
         AnswerFits(h.store.operations, m.call, h.answer)
  PROVE  GInv' /\ Grows(store.operations, store'.operations)
<1> DEFINE ops == store.operations
           new == h.store.operations
<1>1. /\ wire' = wire \ {m} /\ store' = h.store /\ sent' = sent \union h.sent
      /\ Answer(m, h.answer) /\ UNCHANGED <<provider, scenario, faults>>
  BY Zenon DEF Serve
<1>2. /\ provider \in Providers /\ scenario \in [Requests -> Scenarios] /\ faults \in 0 .. MaxFaults
      /\ CallsFit(provider, ops, call) /\ WireFits(provider, call, wire)
      /\ MakersFit(provider, ops, call, wire) /\ SentFits(provider, ops, sent)
  BY Zenon DEF GInv
<1> HIDE DEF ops, new
<1>3. WireFits(provider, call, wire')
  <2>1. wire' \in SUBSET wire
    BY <1>1, Zenon
  <2> QED
    BY <1>2, <2>1, WireShrinks, Zenon
<1>4. /\ \A ws : SentFits(provider, ops, ws) => SentFits(provider, new, ws)
      /\ \A kind, r : ResultFits(ops, kind, r) => ResultFits(new, kind, r)
  BY GrowsKeeps, Zenon DEF ops, new
<1>5. CallsFit(provider, new, call)
  BY <1>2, <1>4, Zenon DEF CallsFit, CallFits
<1>6. SentFits(provider, new, sent \union h.sent)
  <2>1. SentFits(provider, new, sent) /\ SentFits(provider, new, h.sent)
    BY <1>2, <1>4, Zenon DEF new
  <2> QED
    BY <2>1, Zenon DEF SentFits
<1>7. m.call \in Calls
  BY MessageIs, Zenon
<1>8. /\ CallsFit(provider, new, call')
      /\ WireFits(provider, call', wire')
      /\ MakersFit(provider, new, call', wire')
  BY <1>1, <1>2, <1>3, <1>5, <1>7, AnswerKeeps, Zenon DEF new
<1>9. provider' = provider /\ scenario' = scenario /\ faults' = faults /\ store'.operations = new
  BY <1>1, Zenon DEF new
<1>10. /\ store' \in Stores
       /\ OperationsFit(provider', store'.operations) /\ KeysFit(provider', store'.operations)
       /\ SentFits(provider', store'.operations, sent')
  BY <1>1, <1>6, <1>9, Zenon DEF new
<1>11. /\ CallsFit(provider', store'.operations, call')
       /\ WireFits(provider', call', wire')
       /\ MakersFit(provider', store'.operations, call', wire')
  BY <1>8, <1>9, Zenon
<1>12. provider' \in Providers /\ scenario' \in [Requests -> Scenarios] /\ faults' \in 0 .. MaxFaults
  BY <1>2, <1>9, Zenon
<1>13. Grows(store.operations, store'.operations)
  BY <1>9, Zenon DEF new
<1> QED
  BY <1>10, <1>11, <1>12, <1>13, Zenon DEF GInv

\* Without deduplication the call whose create is handled becomes the maker.
LEMMA MakerAdded ==
  ASSUME GInv, NEW m \in wire, m.kind = "create", wire' = wire \ {m}, NEW new, NEW n \in Nat,
         DOMAIN store.operations = 1 .. n, DOMAIN new = 1 .. n + 1,
         \A i \in 1 .. n : new[i] = store.operations[i],
         new[n + 1].request = m.request
  PROVE  MakersFit(provider, new, call, wire')
<1> DEFINE ops == store.operations
<1>1. SUFFICES ASSUME ~ dedupes_creates(provider)
               PROVE  \E maker \in Injection(1 .. n + 1, Calls) : Makes(new, call, wire', maker)
  BY Zenon DEF MakersFit
<1>2. PICK maker \in Injection(1 .. n, Calls) : Makes(ops, call, wire, maker)
  BY <1>1, Zenon DEF GInv, MakersFit
<1> DEFINE more == [i \in 1 .. n + 1 |-> IF i = n + 1 THEN m.call ELSE maker[i]]
<1>3. m.call \in Calls /\ \A i \in 1 .. n : maker[i] # m.call
  <2>1. m.call \in Calls
    BY MessageIs, Zenon
  <2>2. \A i \in 1 .. n : maker[i] # m.call
    BY <1>2, Zenon DEF Makes
  <2> QED
    BY <2>1, <2>2, Zenon
<1>4. more \in Injection(1 .. n + 1, Calls)
  BY <1>2, <1>3, ExtendInjection, Zenon
<1>5. /\ \A i \in 1 .. n : more[i] = maker[i]
      /\ more[n + 1] = m.call
      /\ \A i \in 1 .. n + 1 : i = n + 1 \/ i \in 1 .. n
  OBVIOUS
<1> HIDE DEF more
<1>6. ASSUME NEW i \in 1 .. n
      PROVE  /\ call[more[i]].kind = "create"
             /\ call[more[i]].request = new[i].request
             /\ call[more[i]].at \in {"await", "done"}
             /\ \A k \in wire' : k.call # more[i]
  <2>1. /\ call[maker[i]].kind = "create"
        /\ call[maker[i]].request = ops[i].request
        /\ call[maker[i]].at \in {"await", "done"}
        /\ \A k \in wire : k.call # maker[i]
    BY <1>2, Zenon DEF Makes
  <2>2. more[i] = maker[i] /\ new[i] = ops[i]
    BY <1>5, Zenon
  <2> QED
    BY <2>1, <2>2, Zenon
<1>7. /\ call[m.call].kind = "create"
      /\ call[m.call].request = new[n + 1].request
      /\ call[m.call].at \in {"await", "done"}
  <2>1. /\ call[m.call].kind = "create" /\ call[m.call].request = m.request
        /\ call[m.call].at \in {"slot", "await", "done"}
    BY MessageIs, Zenon
  <2>2. call[m.call].at # "slot"
    BY <1>1, Zenon DEF GInv, WireFits, SentOnce
  <2> QED
    BY <2>1, <2>2, Zenon
<1>8. ASSUME NEW k \in wire', k.call = m.call
      PROVE  FALSE
  <2>1. k \in wire /\ k # m
    BY Zenon
  <2>2. MessageFits(provider, call, k) /\ MessageFits(provider, call, m)
    BY <2>1, Zenon DEF GInv, WireFits
  <2>3. /\ k.kind = m.kind /\ k.request = m.request /\ k.reference = m.reference
        /\ k.key = m.key
    BY <1>8, <2>2, Zenon DEF MessageFits
  <2>4. k.attempt = m.attempt /\ k.send = m.send
    <3>1. k.attempt = 1 /\ k.send = 1 /\ m.attempt = 1 /\ m.send = 1
      BY <1>1, <2>1, <2>3, Zenon DEF GInv, WireFits, SentOnce
    <3> QED
      BY <3>1, Zenon
  <2>5. /\ k = [call |-> k.call, attempt |-> k.attempt, send |-> k.send, kind |-> k.kind,
                request |-> k.request, reference |-> k.reference, key |-> k.key]
        /\ m = [call |-> m.call, attempt |-> m.attempt, send |-> m.send, kind |-> m.kind,
                request |-> m.request, reference |-> m.reference, key |-> m.key]
    BY <2>2, Zenon DEF MessageFits
  <2>6. [call |-> k.call, attempt |-> k.attempt, send |-> k.send, kind |-> k.kind,
         request |-> k.request, reference |-> k.reference, key |-> k.key] =
        [call |-> m.call, attempt |-> m.attempt, send |-> m.send, kind |-> m.kind,
         request |-> m.request, reference |-> m.reference, key |-> m.key]
    BY <1>8, <2>3, <2>4, Zenon
  <2> QED
    BY <2>1, <2>5, <2>6, Zenon
<1>9. Makes(new, call, wire', more)
  BY <1>5, <1>6, <1>7, <1>8, Zenon DEF Makes
<1> QED
  BY <1>4, <1>9, Zenon

\* What a call makes of the answer to its own message.
LEMMA ReadAnswerIs ==
  ASSUME NEW c, NEW body
  PROVE  /\ call[c].kind = "create" => read_answer(c, body) = created(provider, body)
         /\ call[c].kind = "status" =>
              read_answer(c, body) = operation_status(provider, call[c].reference, body)
         /\ call[c].kind = "cancel" =>
              read_answer(c, body) = cancel_result(provider, call[c].reference, body)
  BY DEF read_answer

\* The provider handles a create.
LEMMA ServeCreateKeeps ==
  ASSUME GInv, NEW m \in wire, Serve(m), m.kind = "create"
  PROVE  GInv' /\ Grows(store.operations, store'.operations)
<1> DEFINE r == m.request
           s == scenario[r]
           h == create_operation(provider, store, r, s, m.key)
           ops == store.operations
           new == h.store.operations
<1>1. h = handled(m)
  BY DEF handled
<1>2. /\ r \in Requests /\ m.call \in Calls /\ call[m.call].kind = "create"
      /\ m.key = IF dedupes_creates(provider) THEN r ELSE None
      /\ m.key \in Requests \union {None}
  BY MessageIs, Zenon
<1>3. /\ provider \in Provider /\ store \in Stores
      /\ OperationsFit(provider, ops) /\ KeysFit(provider, ops)
      /\ MakersFit(provider, ops, call, wire) /\ WireFits(provider, call, wire)
  BY KnownProvider, Zenon DEF GInv
<1>4. s \in Scenario
  BY <1>2, ScenariosAssumption, Zenon DEF GInv
<1>5. existing_operation(provider, store, m.key) = {} => Len(ops) + 1 \in DOMAIN OperationIds
  BY Room, Zenon
<1> HIDE DEF s, r
<1>6. /\ h.store \in Stores
      /\ AnswerReads(provider, new, h.answer)
      /\ \/ new = ops /\ h.sent = {}
         \/ /\ existing_operation(provider, store, m.key) = {}
            /\ \E o : /\ new = Append(ops, o)
                     /\ Made(provider, store, r, m.key, o, h.sent)
  BY <1>2, <1>3, <1>4, <1>5, CreateServes, Zenon
<1> HIDE DEF h
<1>7. AnswerFits(new, m.call, h.answer)
  BY <1>2, <1>6, ReadAnswerIs, Zenon DEF AnswerFits, AnswerReads
<1>8. wire' = wire \ {m} /\ wire' \in SUBSET wire
  BY Zenon DEF Serve
<1>9. CASE new = ops /\ h.sent = {}
  <2>1. Grows(ops, new) /\ SentFits(provider, new, h.sent)
    BY <1>9, Zenon DEF Grows, SentFits
  <2>2. MakersFit(provider, new, call, wire')
    BY <1>3, <1>8, <1>9, WireShrinks, Zenon
  <2>3. OperationsFit(provider, new) /\ KeysFit(provider, new)
    BY <1>3, <1>9, Zenon
  <2> QED
    BY <1>1, <1>6, <1>7, <2>1, <2>2, <2>3, HandledKeeps, Zenon
<1>10. ASSUME existing_operation(provider, store, m.key) = {}, NEW o, new = Append(ops, o),
              Made(provider, store, r, m.key, o, h.sent)
       PROVE  GInv' /\ Grows(store.operations, store'.operations)
  <2> DEFINE n == Len(ops)
             longer == Append(ops, o)
  <2> HIDE DEF new
  <2>0. n + 1 \in DOMAIN OperationIds /\ longer = Append(ops, o)
    BY <1>5, <1>10, Zenon
  <2> HIDE DEF longer
  <2>1. /\ OperationsFit(provider, longer) /\ KeysFit(provider, longer) /\ Grows(ops, longer)
        /\ SentFits(provider, longer, h.sent)
        /\ DOMAIN ops = 1 .. n /\ DOMAIN longer = 1 .. n + 1
        /\ \A i \in DOMAIN ops : longer[i] = ops[i]
        /\ longer[n + 1] = o
    <3>1. Appends(provider, store, r, m.key, o, h.sent)
      BY <1>2, <1>3, <1>10, <2>0, Zenon DEF Appends
    <3>2. Appended(provider, ops, n, o, h.sent, Append(ops, o))
      BY <3>1, AppendFits, Zenon
    <3> QED
      BY <2>0, <3>2, Zenon DEF Appended
  <2>2. n \in Nat
    BY <1>3 DEF Stores
  <2> HIDE DEF n
  <2>3. o.request = m.request
    BY <1>10, Zenon DEF Made, r
  <2>4. MakersFit(provider, longer, call, wire')
    BY <1>8, <2>1, <2>2, <2>3, MakerAdded, Zenon
  <2>5. longer = h.store.operations
    BY <1>10, Zenon DEF longer, new
  <2>6. AnswerFits(longer, m.call, h.answer)
    BY <1>7, <2>5, Zenon DEF new
  <2> QED
    BY <1>1, <1>6, <2>1, <2>4, <2>5, <2>6, HandledKeeps, Zenon
<1> QED
  BY <1>6, <1>9, <1>10, Zenon

\* The provider handles a lookup.
LEMMA ServeStatusKeeps ==
  ASSUME GInv, NEW m \in wire, Serve(m), m.kind = "status"
  PROVE  GInv' /\ Grows(store.operations, store'.operations)
<1> DEFINE h == get_operation(provider, store, m.reference)
           ops == store.operations
<1>1. h = handled(m)
  BY DEF handled
<1>2. /\ provider \in {"meridian", "cobalt"} /\ call[m.call].kind = "status"
      /\ call[m.call].reference = m.reference
  BY MessageIs, Zenon
<1>3. /\ store \in Stores /\ OperationsFit(provider, ops) /\ KeysFit(provider, ops)
      /\ MakersFit(provider, ops, call, wire) /\ WireFits(provider, call, wire)
  BY Zenon DEF GInv
<1>4. /\ h.store = store /\ h.sent = {} /\ h.answer.code \in Nat
      /\ \/ h.answer.code >= 400
         \/ Reads(ops, "status", operation_status(provider, m.reference, h.answer.body))
  BY <1>2, <1>3, LookupServes
<1> HIDE DEF h, ops
<1>5. AnswerFits(ops, m.call, h.answer)
  <2>1. read_answer(m.call, h.answer.body) = operation_status(provider, m.reference, h.answer.body)
    BY <1>2, ReadAnswerIs, Zenon
  <2> QED
    BY <1>2, <1>4, <2>1, Zenon DEF AnswerFits
<1>6. wire' \in SUBSET wire
  BY Zenon DEF Serve
<1>7. MakersFit(provider, ops, call, wire')
  BY <1>3, <1>6, WireShrinks, Zenon
<1>8. Grows(ops, ops) /\ SentFits(provider, ops, h.sent)
  BY <1>4, Zenon DEF Grows, SentFits
<1>9. h.store.operations = ops /\ store.operations = ops
  BY <1>4, Zenon DEF ops
<1> QED
  BY <1>1, <1>3, <1>4, <1>5, <1>7, <1>8, <1>9, HandledKeeps, Zenon

\* The provider handles a cancellation.
LEMMA ServeCancelKeeps ==
  ASSUME GInv, NEW m \in wire, Serve(m), m.kind = "cancel"
  PROVE  GInv' /\ Grows(store.operations, store'.operations)
<1> DEFINE h == cancel_job("cobalt", store, m.reference)
           ops == store.operations
           new == h.store.operations
<1>1. /\ provider = "cobalt" /\ call[m.call].kind = "cancel"
      /\ call[m.call].reference = m.reference
  BY MessageIs, Zenon
<1>2. h = handled(m)
  BY <1>1 DEF handled
<1>3. store \in Stores /\ OperationsFit("cobalt", ops) /\ KeysFit("cobalt", ops)
  BY <1>1, Zenon DEF GInv
<1>4. /\ h.store \in Stores /\ h.sent = {}
      /\ OperationsFit("cobalt", new) /\ KeysFit("cobalt", new) /\ Grows(ops, new)
      /\ h.answer.code \in Nat
      /\ \/ h.answer.code >= 400
         \/ Reads(new, "cancel", cancel_result("cobalt", m.reference, h.answer.body))
  BY <1>3, CancelServes
<1> HIDE DEF h, new
<1>5. AnswerFits(new, m.call, h.answer)
  <2>1. read_answer(m.call, h.answer.body) = cancel_result("cobalt", m.reference, h.answer.body)
    BY <1>1, ReadAnswerIs, Zenon
  <2> QED
    BY <1>1, <1>4, <2>1, Zenon DEF AnswerFits
<1>6. MakersFit("cobalt", new, call, wire')
  BY DEF MakersFit, dedupes_creates
<1>7. SentFits("cobalt", new, h.sent)
  BY <1>4, Zenon DEF SentFits
<1> QED
  BY <1>1, <1>2, <1>4, <1>5, <1>6, <1>7, HandledKeeps, Zenon DEF new

\* The provider handles a request.
LEMMA ServeKeeps ==
  ASSUME GInv, NEW m \in wire, Serve(m)
  PROVE  GInv' /\ Grows(store.operations, store'.operations)
<1>1. m.kind = "create" \/ m.kind = "status" \/ m.kind = "cancel"
  BY MessageIs, Zenon
<1> QED
  BY <1>1, ServeCreateKeeps, ServeStatusKeeps, ServeCancelKeeps, Zenon

-----------------------------------------------------------------------------
(***************************************************************************)
(* The invariant and what follows from it.                                 *)
(***************************************************************************)

\* The invariant holds at the start.
LEMMA InitFits == Init => GInv
<1> SUFFICES ASSUME Init PROVE GInv
  OBVIOUS
<1> DEFINE ops == store.operations
           row == [at |-> "idle", kind |-> "create", request |-> None, reference |-> None,
                   attempt |-> 1, send |-> 1, result |-> NoResult]
<1>1. ops = <<>> /\ store \in Stores
  BY DEF Init, empty_store, Stores
<1>2. DOMAIN ops = {}
  BY <1>1
<1>3. /\ provider \in Providers /\ scenario \in [Requests -> Scenarios]
      /\ sent = {} /\ wire = {} /\ faults \in 0 .. MaxFaults
  BY MaxFaultsAssumption DEF Init
<1>4. call = [c \in Calls |-> row]
  BY Zenon DEF Init
<1>5. NoResult \in Result
  BY DEF NoResult, Result
<1>6. row \in CallRow
  BY <1>5 DEF CallRow, IN_PROCESS_MAX_ATTEMPTS
<1>7. NoResult.reference = None
  BY DEF NoResult
<1>8. ResultFits(ops, "create", NoResult)
  BY <1>7, Zenon DEF ResultFits
<1>9. /\ row.at = "idle" /\ row.kind = "create" /\ row.attempt = 1 /\ row.send = 1
      /\ row.result = NoResult
  OBVIOUS
<1> HIDE DEF row, ops
<1>10. CallFits(provider, ops, row)
  BY <1>6, <1>8, <1>9, SMT DEF CallFits
<1>11. CallsFit(provider, ops, call)
  BY <1>4, <1>6, <1>10, Zenon DEF CallsFit
<1>12. OperationsFit(provider, ops) /\ KeysFit(provider, ops) /\ SentFits(provider, ops, sent)
  BY <1>2, <1>3, Zenon DEF OperationsFit, KeysFit, SentFits
<1>13. WireFits(provider, call, wire)
  BY <1>3, Zenon DEF WireFits, SentOnce
<1>14. MakersFit(provider, ops, call, wire)
  <2> DEFINE none == [i \in {} |-> i]
  <2>1. none \in [{} -> Calls]
    OBVIOUS
  <2>2. none \in Injection({}, Calls)
    BY <2>1 DEF Injection, IsInjective
  <2> HIDE DEF none
  <2>3. Makes(ops, call, wire, none)
    BY <1>2, Zenon DEF Makes
  <2> QED
    BY <1>2, <2>2, <2>3, Zenon DEF MakersFit
<1> QED
  BY <1>1, <1>3, <1>11, <1>12, <1>13, <1>14, Zenon DEF GInv, ops

\* A step outside the provider leaves its operations alone.
LEMMA OutsideGrows == UNCHANGED store => Grows(store.operations, store'.operations)
  BY Zenon DEF Grows

\* Every step keeps the invariant, and what the provider has done.
LEMMA NextKeeps ==
  ASSUME GInv, [Next]_vars
  PROVE  GInv' /\ Grows(store.operations, store'.operations)
<1>1. ASSUME NEW c \in Calls, Begin(c)
      PROVE  GInv' /\ UNCHANGED store
  BY <1>1, BeginKeeps, Zenon DEF Begin
<1>2. ASSUME NEW c \in Calls, Refuse(c)
      PROVE  GInv' /\ UNCHANGED store
  BY <1>2, RefuseKeeps, Zenon DEF Refuse
<1>3. ASSUME NEW c \in Calls, Send(c)
      PROVE  GInv' /\ UNCHANGED store
  BY <1>3, SendKeeps, Zenon DEF Send
<1>4. ASSUME NEW c \in Calls, NoAnswer(c)
      PROVE  GInv' /\ UNCHANGED store
  BY <1>4, NoAnswerKeeps, Zenon DEF NoAnswer
<1>5. ASSUME NEW m \in wire, RejectToken(m)
      PROVE  GInv' /\ UNCHANGED store
  BY <1>5, RejectTokenKeeps, Zenon DEF RejectToken
<1>6. ASSUME UNCHANGED vars
      PROVE  GInv' /\ UNCHANGED store
  BY <1>6, Zenon DEF vars, GInv
<1> QED
  BY <1>1, <1>2, <1>3, <1>4, <1>5, <1>6, ServeKeeps, OutsideGrows, Zenon DEF Next

\* The inductive invariant: identifiers in order, stored statuses that say what happened, one
\* operation per key or one maker per operation, results and webhooks that are true.
THEOREM GatewayInvariant == Spec => []GInv
<1>1. GInv /\ [Next]_vars => GInv'
  BY NextKeeps, Zenon
<1> QED
  BY InitFits, <1>1, PTL DEF Spec

\* Every variable keeps its type: no call makes a third attempt or a third send.
THEOREM GatewayTypeCorrect == Spec => []TypeOK
<1>1. GInv => TypeOK
  <2> SUFFICES ASSUME GInv PROVE TypeOK
    OBVIOUS
  <2>1. \A i \in DOMAIN store.operations : store.operations[i] \in SandboxOperation(Requests)
    BY DEF GInv, Stores
  <2> QED
    BY <2>1, Zenon DEF GInv, TypeOK, CallsFit, CallRow
<1> QED
  BY <1>1, GatewayInvariant, PTL

\* Repeating a create never makes a second operation.
THEOREM GatewayCreatesOnce == Spec => []OneOperationPerCreate
<1>1. GInv => OneOperationPerCreate
  <2> SUFFICES ASSUME GInv, NEW r \in Requests
               PROVE  Cardinality(operations_of(r)) <=
                        IF dedupes_creates(provider) THEN 1 ELSE Cardinality(creates_of(r))
    BY Zenon DEF OneOperationPerCreate
  <2> DEFINE ops == store.operations
             mine == operations_of(r)
  <2>1. CASE dedupes_creates(provider)
    <3>1. \A i, j \in mine : i = j
      BY <2>1, Zenon DEF GInv, KeysFit, operations_of
    <3> HIDE DEF mine
    <3>2. CASE mine = {}
      <4>1. Cardinality(mine) = 0
        BY <3>2, FS_EmptySet, Zenon
      <4> QED
        BY <2>1, <4>1 DEF mine
    <3>3. CASE mine # {}
      <4>1. PICK i \in mine : mine = {i}
        BY <3>1, <3>3, Zenon
      <4>2. Cardinality(mine) = 1
        BY <4>1, FS_Singleton, Zenon
      <4> QED
        BY <2>1, <4>2 DEF mine
    <3> QED
      BY <3>2, <3>3, Zenon
  <2>2. CASE ~ dedupes_creates(provider)
    <3>1. PICK maker \in Injection(DOMAIN ops, Calls) : Makes(ops, call, wire, maker)
      BY <2>2, Zenon DEF GInv, MakersFit
    <3>2. /\ maker \in [DOMAIN ops -> Calls]
          /\ \A i, j \in DOMAIN ops : maker[i] = maker[j] => i = j
      BY Zenon DEF Injection, IsInjective
    <3> DEFINE of == [i \in mine |-> maker[i]]
    <3>3. \A i \in mine : i \in DOMAIN ops /\ maker[i] \in creates_of(r)
      BY <3>1, <3>2, Zenon DEF operations_of, creates_of, Makes
    <3> HIDE DEF mine
    <3>4. of \in [mine -> creates_of(r)] /\ \A i \in mine : of[i] = maker[i]
      BY <3>3, Zenon
    <3> HIDE DEF of
    <3>5. of \in Injection(mine, creates_of(r))
      BY <3>2, <3>3, <3>4, Zenon DEF Injection, IsInjective
    <3>6. IsFiniteSet(creates_of(r))
      <4>1. creates_of(r) \in SUBSET Calls
        BY Zenon DEF creates_of
      <4> QED
        BY <4>1, CallsAssumption, FS_Subset, Zenon
    <3>7. Cardinality(mine) <= Cardinality(creates_of(r))
      BY <3>5, <3>6, FS_Injection, Zenon
    <3> QED
      BY <2>2, <3>7, Zenon DEF mine
  <2> QED
    BY <2>1, <2>2, Zenon
<1> QED
  BY <1>1, GatewayInvariant, PTL

\* What a call reports as final is what the operation came to.
THEOREM GatewayResultsAreTrue == Spec => []ResultsAreTrue
<1>1. GInv => ResultsAreTrue
  <2> SUFFICES ASSUME GInv PROVE ResultsAreTrue
    OBVIOUS
  <2>1. \A i \in DOMAIN store.operations : get(store, OperationIds[i]) = i
    BY GetIs, Zenon DEF GInv
  <2>2. \A c \in Calls : /\ ResultFits(store.operations, call[c].kind, call[c].result)
                         /\ call[c].kind \in {"create", "status", "cancel"}
    BY Zenon DEF GInv, CallsFit, CallFits, CallRow
  <2>3. SUFFICES ASSUME NEW c \in Calls, ~ call[c].result.raised, call[c].result.reference # None
                 PROVE  LET got     == call[c].result
                            outcome == store.operations[get(store, got.reference)].outcome
                        IN  CASE call[c].kind = "create" ->
                                   got.status \in {"succeeded", "failed", "cancelled"} =>
                                     got.status = outcome
                              [] call[c].kind = "status" ->
                                   outcome \in {"succeeded", "failed"} => got.status = outcome
                              [] call[c].kind = "cancel" ->
                                   got.status = "cancelled" => outcome = "cancelled"
    BY Zenon DEF ResultsAreTrue
  <2> DEFINE got == call[c].result
             kind == call[c].kind
             outcome == store.operations[get(store, got.reference)].outcome
  <2>4. PICK i \in DOMAIN store.operations :
          /\ got.reference = OperationIds[i]
          /\ kind = "create" /\ got.status \in {"succeeded", "failed", "cancelled"} =>
               got.status = store.operations[i].outcome
          /\ kind = "status" /\ store.operations[i].outcome \in {"succeeded", "failed"} =>
               got.status = store.operations[i].outcome
          /\ kind = "cancel" /\ got.status = "cancelled" =>
               store.operations[i].outcome = "cancelled"
    BY <2>2, <2>3, Zenon DEF ResultFits
  <2>5. outcome = store.operations[i].outcome
    BY <2>1, <2>4, Zenon
  <2>6. kind \in {"create", "status", "cancel"}
    BY <2>2, Zenon
  <2> DEFINE a == got.status \in {"succeeded", "failed", "cancelled"} => got.status = outcome
             b == outcome \in {"succeeded", "failed"} => got.status = outcome
             d == got.status = "cancelled" => outcome = "cancelled"
  <2>7. /\ kind = "create" => a
        /\ kind = "status" => b
        /\ kind = "cancel" => d
    BY <2>4, <2>5, Zenon
  <2>8. a \in BOOLEAN /\ b \in BOOLEAN /\ d \in BOOLEAN
    OBVIOUS
  <2> HIDE DEF got, kind, outcome, a, b, d
  <2>9. (CASE kind = "create" -> a [] kind = "status" -> b [] kind = "cancel" -> d)
    BY <2>6, <2>7, <2>8, Zenon
  <2> QED
    BY <2>9, Zenon DEF got, kind, outcome, a, b, d
<1> QED
  BY <1>1, GatewayInvariant, PTL

\* A completion webhook, as the adapter reads it, names the operation and its true outcome.
THEOREM GatewayWebhooksTellTheOutcome == Spec => []WebhooksTellTheOutcome
<1>1. GInv => WebhooksTellTheOutcome
  <2> SUFFICES ASSUME GInv, NEW w \in sent
               PROVE  LET o     == store.operations[get(store, w.operation)]
                          event == normalize_webhook(provider,
                                     webhook_body(provider, o, w.event_type, "event"))
                      IN  event.reference = o.id /\ event.status = o.outcome
    BY Zenon DEF WebhooksTellTheOutcome
  <2>1. PICK i \in DOMAIN store.operations :
          /\ w.operation = OperationIds[i]
          /\ w.event_type = completion_event(provider, store.operations[i])
          /\ store.operations[i].outcome \in {"succeeded", "failed"}
    BY Zenon DEF GInv, SentFits
  <2>2. get(store, w.operation) = i
    BY <2>1, GetIs, Zenon DEF GInv
  <2> DEFINE o == store.operations[i]
             event == normalize_webhook(provider,
                        webhook_body(provider, o, completion_event(provider, o), "event"))
  <2>3. o.id # None /\ OperationFits(provider, o)
    BY Identifiers, Zenon DEF GInv, OperationsFit
  <2>4. provider \in Provider /\ o.outcome \in {"succeeded", "failed"}
    BY <2>1, KnownProvider, Zenon DEF GInv
  <2>5. event.reference = o.id /\ event.status = o.outcome
    <3> HIDE DEF o
    <3> QED
      BY <2>3, <2>4, WebhookTells, Zenon
  <2> QED
    BY <2>1, <2>2, <2>5, Zenon
<1> QED
  BY <1>1, GatewayInvariant, PTL

\* No step, of the platform, the network or the provider, undoes an operation.
THEOREM GatewayOutcomesStand == Spec => OutcomesStand
<1> DEFINE ops == store.operations
           new == store'.operations
           Stand == \A i \in DOMAIN ops : /\ i \in DOMAIN new
                                          /\ new[i].id = ops[i].id
                                          /\ new[i].request = ops[i].request
                                          /\ ops[i].outcome # "open" => new[i] = ops[i]
<1>1. ASSUME GInv, [Next]_vars
      PROVE  Stand
  <2>1. GInv' /\ Grows(ops, new)
    BY <1>1, NextKeeps, Zenon
  <2>2. OperationsFit(provider, ops) /\ OperationsFit(provider', new)
    BY <1>1, <2>1, Zenon DEF GInv
  <2> HIDE DEF ops, new
  <2>3. \A i \in DOMAIN ops : i \in DOMAIN new /\ new[i].id = ops[i].id
    BY <2>1, <2>2, Zenon DEF Grows, OperationsFit
  <2>4. \A i \in DOMAIN ops : /\ new[i].request = ops[i].request
                              /\ ops[i].outcome # "open" => new[i] = ops[i]
    BY <2>1, Zenon DEF Grows
  <2> QED
    BY <2>3, <2>4, Zenon
<1>2. GInv /\ [Next]_vars => [Stand]_vars
  BY <1>1, Zenon
<1> QED
  BY <1>2, GatewayInvariant, PTL DEF Spec, OutcomesStand

=============================================================================
