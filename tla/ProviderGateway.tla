-------------------------- MODULE ProviderGateway ---------------------------
(***************************************************************************)
(* Calls of the platform to one provider: from the resilience decorator    *)
(* (resilient.py) through the HTTP client (http.py) to the provider        *)
(* (ProviderSandbox), and back through the adapter (ProviderAdapters).     *)
(*                                                                         *)
(* A call is one create_operation, get_operation_status or                 *)
(* cancel_operation.  The network may lose a request, lose an answer or    *)
(* deliver a request after its sender has stopped waiting.  Left open are  *)
(* the decisions of the rate limiter, the circuit and the bulkhead, which  *)
(* may refuse a call (CircuitBreaker has the circuit's), and whether a     *)
(* token is good when it is used (TokenRefresh).                           *)
(***************************************************************************)
EXTENDS ProviderSandbox

CONSTANTS
  Providers,  \* the providers to choose from
  Calls,      \* calls, each made once
  Requests,   \* integration requests, whose ids are the idempotency keys
  Scenarios,  \* the scenarios their external references may select
  MaxFaults   \* bound: refusals, rejected tokens, failing token requests

ASSUME ProvidersAssumption == Providers \subseteq Provider
ASSUME ScenariosAssumption == Scenarios \subseteq Scenario
ASSUME MaxFaultsAssumption == MaxFaults \in Nat
ASSUME CallsAssumption == IsFiniteSet(Calls)
ASSUME RequestsAssumption == IsFiniteSet(Requests) /\ None \notin Requests

\* next_id() does not run out of identifiers.
ASSUME EnoughIdsAssumption ==
  Cardinality(Calls) <= Len(OperationIds) /\ Cardinality(Requests) <= Len(OperationIds)

VARIABLES
  provider,  \* the provider called
  scenario,  \* the scenario of each request
  store,     \* the provider's operations
  sent,      \* the completion webhooks the provider has scheduled
  call,      \* where each call is
  wire,      \* requests the provider has not handled yet
  faults

vars == <<provider, scenario, store, sent, call, wire, faults>>

IN_PROCESS_MAX_ATTEMPTS == 2

\* Meridian has an API key, which cannot be refreshed.
can_refresh == provider # "meridian"

NoResult == [raised |-> FALSE, status |-> None, reference |-> None]

Init ==
  /\ provider \in Providers
  /\ scenario \in [Requests -> Scenarios]
  /\ store = empty_store(Requests)
  /\ sent = {}
  /\ call = [c \in Calls |-> [at |-> "idle", kind |-> "create", request |-> None,
                              reference |-> None, attempt |-> 1, send |-> 1,
                              result |-> NoResult]]
  /\ wire = {}
  /\ faults = 0

Fault == faults < MaxFaults /\ faults' = faults + 1

at(c, point) == call[c].at = point

active(c) == call[c].at \notin {"idle", "done"}

-----------------------------------------------------------------------------
(***************************************************************************)
(* The resilience decorator.                                               *)
(***************************************************************************)
is_retryable_in_process(e) ==
  e.retryable /\ e.category \in {"provider_timeout", "provider_unavailable"}

\* Fault: creates are repeated whatever the provider does with the key.
attempts_allowed_always(c) == IN_PROCESS_MAX_ATTEMPTS

attempts_allowed(c) ==
  IF call[c].kind = "create" /\ ~ dedupes_creates(provider) THEN 1 ELSE IN_PROCESS_MAX_ATTEMPTS

\* Fault: the attempt is repeated without being counted.
next_attempt_uncounted(c) == [call[c] EXCEPT !.at = "slot", !.send = 1]

next_attempt(c) == [call[c] EXCEPT !.at = "slot", !.send = 1, !.attempt = @ + 1]

ended(c, r) == [call[c] EXCEPT !.at = "done", !.result = r]

\* A ProviderError out of the call itself.
after_error(c, e) ==
  IF call[c].attempt < attempts_allowed(c) /\ is_retryable_in_process(e)
  THEN next_attempt(c)
  ELSE ended(c, raised(e))

\* Adapters of providers that lack the operation raise without calling anybody.
is_supported(kind) ==
  CASE kind = "create" -> TRUE
    [] kind = "status" -> answers_status(provider)
    [] kind = "cancel" -> cancels(provider)

\* A lookup or a cancellation is about an operation the provider has made.
Begin(c) ==
  /\ at(c, "idle")
  /\ \/ \E r \in Requests :
          call' = [call EXCEPT ![c].at = "slot", ![c].request = r]
     \/ \E kind \in {"status", "cancel"}, i \in DOMAIN store.operations :
          /\ is_supported(kind)
          /\ call' = [call EXCEPT ![c].at = "slot", ![c].kind = kind,
                                  ![c].reference = store.operations[i].id]
  /\ UNCHANGED <<provider, scenario, store, sent, wire, faults>>

\* The rate limiter or the circuit turns the call away, or the bulkhead an attempt of it:
\* outside the try block, so that nothing is repeated.
Refuse(c) ==
  /\ at(c, "slot")
  /\ Fault
  /\ \E category \in {"provider_rate_limit", "provider_unavailable"} :
       /\ call[c].attempt > 1 => category = "provider_unavailable"
       /\ call' = [call EXCEPT ![c] = ended(c, raised(error_of(category)))]
  /\ UNCHANGED <<provider, scenario, store, sent, wire>>

-----------------------------------------------------------------------------
(***************************************************************************)
(* ProviderHttpClient.request and the provider.                            *)
(***************************************************************************)
\* Meridian is sent no idempotency key.
message(c) ==
  [call |-> c, attempt |-> call[c].attempt, send |-> call[c].send, kind |-> call[c].kind,
   request |-> call[c].request, reference |-> call[c].reference,
   key |-> IF dedupes_creates(provider) THEN call[c].request ELSE None]

Send(c) ==
  /\ at(c, "slot")
  /\ \/ /\ wire' = wire \union {message(c)}
        /\ call' = [call EXCEPT ![c].at = "await"]
        /\ UNCHANGED faults
     \/ \* No token is to be had.
        /\ can_refresh
        /\ Fault
        /\ \E retryable \in BOOLEAN :
             call' = [call EXCEPT ![c] = after_error(c,
                       [category |-> "provider_authentication", retryable |-> retryable])]
        /\ UNCHANGED wire
  /\ UNCHANGED <<provider, scenario, store, sent>>

handled(m) ==
  CASE m.kind = "create" -> create_operation(provider, store, m.request,
                                             scenario[m.request], m.key)
    [] m.kind = "status" -> get_operation(provider, store, m.reference)
    [] m.kind = "cancel" -> cancel_job(provider, store, m.reference)

read_answer(c, body) ==
  CASE call[c].kind = "create" -> created(provider, body)
    [] call[c].kind = "status" -> operation_status(provider, call[c].reference, body)
    [] call[c].kind = "cancel" -> cancel_result(provider, call[c].reference, body)

\* One repetition, with a new token, after a 401.
after_answer(c, a) ==
  IF a.code = 401 /\ can_refresh /\ call[c].send = 1
  THEN [call[c] EXCEPT !.at = "slot", !.send = 2]
  ELSE IF a.code >= 400 THEN after_error(c, classify_response(a.code))
  ELSE ended(c, read_answer(c, a.body))

awaits(m) ==
  /\ at(m.call, "await")
  /\ call[m.call].attempt = m.attempt
  /\ call[m.call].send = m.send

\* ProviderResponseError: a body that is not a JSON object.
unreadable_body == [category |-> "provider_unavailable", retryable |-> FALSE]

\* The answer reaches the caller, intact or with a body that cannot be read, or is lost or
\* comes too late.
Answer(m, a) ==
  \/ /\ awaits(m)
     /\ a # Silence
     /\ call' = [call EXCEPT ![m.call] = after_answer(m.call, a)]
  \/ /\ awaits(m)
     /\ a # Silence
     /\ a.code < 400
     /\ call' = [call EXCEPT ![m.call] = after_error(m.call, unreadable_body)]
  \/ UNCHANGED call

Serve(m) ==
  /\ wire' = wire \ {m}
  /\ store' = handled(m).store
  /\ sent' = sent \union handled(m).sent
  /\ Answer(m, handled(m).answer)
  /\ UNCHANGED <<provider, scenario, faults>>

\* The token has been revoked or has run out.
RejectToken(m) ==
  /\ can_refresh
  /\ Fault
  /\ wire' = wire \ {m}
  /\ Answer(m, answer(401, <<>>))
  /\ UNCHANGED <<provider, scenario, store, sent>>

\* The answer does not come in time, or the connection cannot be made or breaks.  The
\* provider may have handled the request, may yet do so, or may never see it.
NoAnswer(c) ==
  /\ at(c, "await")
  /\ \E kind \in {"timeout", "unreachable"} :
       call' = [call EXCEPT ![c] = after_error(c, classify_transport_error(kind))]
  /\ wire' \in {wire, {m \in wire : m.call # c}}
  /\ UNCHANGED <<provider, scenario, store, sent, faults>>

-----------------------------------------------------------------------------
Next ==
  \/ \E c \in Calls : Begin(c) \/ Refuse(c) \/ Send(c) \/ NoAnswer(c)
  \/ \E m \in wire : Serve(m) \/ RejectToken(m)

Spec == Init /\ [][Next]_vars

(***************************************************************************)
(* The event loop runs every ready coroutine, and a wait for the provider  *)
(* ends in a timeout at the latest.                                        *)
(***************************************************************************)
Fairness == \A c \in Calls : WF_vars(Send(c) \/ NoAnswer(c))

FairSpec == Spec /\ Fairness

-----------------------------------------------------------------------------
Result ==
  [raised : {FALSE}, status : NormalizedStatus \union {None},
   reference : Range(OperationIds) \union {None}]
    \union [raised : {FALSE}, status : {"failed"}, reference : Range(OperationIds),
            refused : {TRUE}]
    \union [raised : {TRUE}, error : Error]

\* Every variable stays in its range: in particular a call makes at most two attempts, of at
\* most two sends each.
TypeOK ==
  /\ provider \in Providers
  /\ scenario \in [Requests -> Scenarios]
  /\ \A i \in DOMAIN store.operations : store.operations[i] \in SandboxOperation(Requests)
  /\ call \in [Calls -> [at : {"idle", "slot", "await", "done"},
                         kind : {"create", "status", "cancel"},
                         request : Requests \union {None},
                         reference : Range(OperationIds) \union {None},
                         attempt : 1 .. IN_PROCESS_MAX_ATTEMPTS, send : 1 .. 2,
                         result : Result]]
  /\ faults \in 0 .. MaxFaults

operations_of(r) == {i \in DOMAIN store.operations : store.operations[i].request = r}

creates_of(r) == {c \in Calls : call[c].kind = "create" /\ call[c].request = r}

(***************************************************************************)
(* Repeating a create never makes a second operation: whatever was         *)
(* repeated in process or after a 401, and however late a request arrives, *)
(* a provider that honours the key has one operation per request, and      *)
(* Meridian, which ignores it, has at most one per create_operation call.  *)
(***************************************************************************)
OneOperationPerCreate ==
  \A r \in Requests :
    Cardinality(operations_of(r)) <=
      IF dedupes_creates(provider) THEN 1 ELSE Cardinality(creates_of(r))

(***************************************************************************)
(* What a call reports as final is what the operation came to, under every *)
(* spelling the three providers' endpoints use: a create never reports an  *)
(* end that has not come, a lookup of a finished operation gives its       *)
(* outcome, and a cancellation is confirmed only when the provider has     *)
(* stopped the operation.                                                  *)
(***************************************************************************)
ResultsAreTrue ==
  \A c \in Calls :
    LET r == call[c].result
    IN  at(c, "done") /\ ~ r.raised /\ r.reference # None
        => LET outcome == store.operations[get(store, r.reference)].outcome
           IN  CASE call[c].kind = "create" ->
                      r.status \in {"succeeded", "failed", "cancelled"} => r.status = outcome
                 [] call[c].kind = "status" ->
                      outcome \in {"succeeded", "failed"} => r.status = outcome
                 [] call[c].kind = "cancel" ->
                      r.status = "cancelled" => outcome = "cancelled"

(***************************************************************************)
(* What the provider has done stands: whatever is repeated, cancelled or   *)
(* late, an operation keeps its identifier and its request, and once it    *)
(* has an outcome nothing about it changes.                                *)
(***************************************************************************)
OutcomesStand ==
  [][\A i \in DOMAIN store.operations :
       /\ i \in DOMAIN store'.operations
       /\ store'.operations[i].id = store.operations[i].id
       /\ store'.operations[i].request = store.operations[i].request
       /\ store.operations[i].outcome # "open" => store'.operations[i] = store.operations[i]]_vars

(***************************************************************************)
(* A completion webhook of the sandbox, built when it is delivered and     *)
(* read by the adapter, names the operation and its true outcome, also     *)
(* when cancellations, lookups and repeated creates come in between.       *)
(***************************************************************************)
WebhooksTellTheOutcome ==
  \A w \in sent :
    LET o     == store.operations[get(store, w.operation)]
        event == normalize_webhook(provider, webhook_body(provider, o, w.event_type, "event"))
    IN  event.reference = o.id /\ event.status = o.outcome

(***************************************************************************)
(* Every call ends, with a result or an error: no failure of the provider  *)
(* or of the network is retried for ever in process.                       *)
(***************************************************************************)
CallsEnd == \A c \in Calls : active(c) ~> ~ active(c)
=============================================================================
