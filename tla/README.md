# Verification of integration-orchestrator

TLA+ models, TLC runs and TLAPS proofs for `src/src/integration_orchestrator`,
a platform that forwards requests to external providers and keeps an honest record
of what became of them. Paths below are relative to that directory.

## 1. The system

| Part | State | Operations that change it |
|---|---|---|
| Request aggregate (`domain/entities.py`, `domain/state_machine.py`) | status, attempt count, provider reference, retry and completion times | `begin_dispatch`, `mark_*`, `schedule_retry`, `restore_for_retry`, `apply_normalized_status`, `attach_provider_reference` |
| Creation (`use_cases/create_request.py`, `use_cases/start_workflow.py`) | request or execution row, idempotency key, workflow definition | register, insert, replay, race to the unique key, then start |
| Dispatcher (`services/dispatcher.py`) | the in-flight attempt | claim (transaction), call (no transaction), settle (transaction) |
| Retry worker, operator retry (`workers/retry_worker.py`, `use_cases/retry_request.py`) | none of their own | claim due rows; restore a failed or reviewed row |
| Cancellation (`use_cases/cancel_request.py`) | the reference read before the provider call | local, or two transactions around a provider call |
| Reconciliation (`services/reconciliation.py`, `workers/reconciliation_worker.py`) | an unlocked snapshot of the candidate | ask the provider, then apply, escalate or leave alone |
| Webhooks (`use_cases/ingest_webhook.py`, `workers/webhook_processor.py`, `redis/webhook_replay.py`) | receipts, replay keys | verify, persist, correlate, apply, defer, abandon |
| Workflows (`services/workflow_orchestrator.py`, `domain/workflow*.py`, `workers/workflow_worker.py`) | executions and their steps | advance, notify, cancel, deadline, compensate |
| Adapters and HTTP client (`infrastructure/providers/`) | none | build requests, read answers and webhooks, classify errors |
| Gateway (`providers/resilient.py`, `resilience/bulkhead.py`) | slots in use | admit, call, retry in process, report |
| Circuit breaker (`redis/circuit_breaker.py`, `domain/policies.py`) | one Redis hash per provider | three Lua scripts, key expiry |
| Rate limiters (`redis/rate_limiter.py`, `redis/inbound_rate_limiter.py`) | one token bucket per key | a Lua script, key expiry |
| Tokens (`providers/auth.py`, `redis/token_cache.py`, `redis/locks.py`) | cached token, refresh lock | acquire, refresh, release, invalidate |
| Outbox (`workers/outbox_publisher.py`, `db/repositories.py`, `messaging/kafka.py`) | outbox rows with leases | claim, publish, settle, purge, redrive |
| Sandbox (`providers/sandbox/`) | operations, attempt counters | create, look up, cancel, complete, send webhooks |

`PROJECT.json` lists every component with its status, and every hazard with the line
where it bites.

**How they interact.** Every database handler locks its row (`SELECT ... FOR UPDATE`),
changes it and commits once, together with its audit rows and outbox events. Provider and
Kafka calls are made between transactions, so whatever was read before the call may be
stale after it. Replicas of API and workers share only PostgreSQL and Redis. A Lua script
is atomic.

**What makes it hard.** A call that timed out may be processed after a retry, a
cancellation or an escalation. A process may die between any two transactions. Webhooks
come late, early, twice, damaged or never. Leases lapse under their holders. Reports reach
a circuit, and times a bucket, later than they were taken. Workflow tasks act on lists they
read before the execution was cancelled, expired or finished by somebody else.

## 2. Modules

| Module | Models |
|---|---|
| `RequestStateMachine` | `domain/state_machine.py` and the enums: table, status sets, projection, forward progress |
| `IntegrationRequest` | the aggregate's methods as operators on a row record |
| `RequestLifecycle` | one row under dispatcher, workers, operators, webhooks, reconciliation and the provider |
| `RequestContract` | what a request promises to a client or a workflow step; `RequestLifecycle` implements it |
| `WorkflowStateMachine`, `WorkflowExecution` | the tables and the aggregate of `domain/workflow.py` |
| `WorkflowCatalog` | the two definitions the platform ships |
| `WorkflowOrchestrator` | one execution, concurrent tasks, and the requests of its steps |
| `ProviderAdapters` | the three adapters, error classification, webhook validation and normalisation |
| `ProviderSandbox` | the providers: operations, scenarios, webhooks |
| `ProviderGateway` | calls from the resilience decorator over the network to the provider and back |
| `TokenRefresh` | the shared access token and the refresh lock |
| `CircuitBreaker` | the shared hash, the Lua scripts, the policies they mirror, and the guarded calls |
| `RateLimiter` | the token bucket |
| `WebhookReceipts` | deliveries, receipts, handlers and the deferred-webhook worker |
| `IdempotentCreation` | creations under idempotency keys, definition registration |
| `OutboxPublisher` | outbox rows, publisher replicas, the broker |
| `MC...` | constants and symmetry sets for TLC |
| `..._proofs` | the theorems |

`ProviderGateway` and `WebhookReceipts` are compositions: both run the real adapters
against the sandbox's real bodies. `WorkflowOrchestrator` composes executions with requests
that move as `RequestContract` allows.

Definitions whose comment begins "Fault:" are wrong variants of the definition they
precede, kept to show that the properties notice; no specification uses them.

One action is one transaction, one Lua script or one message, with everything the code does
in it. The correspondence, module by module:

**RequestLifecycle.** `row` is the database row without payloads: times are "set or not",
the reference is the number of the attempt whose operation it names. `call[n]` is the phase
of attempt n; `wire` the creates the provider has not processed yet; `op` its operations.
With an idempotency key every attempt names operation 1; at Meridian each names its own.
`Dispatch` and `ClaimDueForRetry` are the claim transactions, `CompleteAttempt` the settle
transaction with its superseded outcomes, `CrashInCall` and `CrashBeforeDispatch` process
deaths, `RetryRequest`, `CancelLocally`, `CancelAtProvider` and `SettleCancellation` the
operators', `FindCandidate` and then `ApplyProviderState`, `Escalate` or `LeaveAlone`
reconciliation, `PersistReceipt`, `ProcessReceipt` and `AbandonReceipt` webhooks. A retry
may be due, a row stale and a grace period over at any moment, which includes every timing
the settings allow. The provider never takes an outcome back.

**WorkflowOrchestrator.** The orchestrator's methods call each other across transactions
(advance runs a step, the dispatcher's hook calls `on_request_terminal`, which advances
again), so a task is a stack of frames, and each transaction is one step of the running
frame: `Advance`, `RunForwardStep`, `SettleForwardStep`, `ContinueCompensation`,
`CompensateStep`, `SettleCompensation`, `OnRequestTerminal`, `EnforceDeadline`, `Cancel`.
A refused transition raises: the transaction is rolled back and the stack unwound to the
hook that catches. `ApplyWebhook` and `SettleQuietly` settle requests with and without a
notification. `completed_at` is a rank, shared by steps of one transaction.

**ProviderAdapters, ProviderSandbox, ProviderGateway.** A body is a function from field
names to values, so an adapter that reads a field under the wrong spelling finds nothing,
as in the code. `Begin`, `Send`, `Answer`, `NoAnswer` are the steps of a call, `Serve` the
provider's; a request may be served after its sender stopped waiting, and an answer may
arrive with a body that cannot be read, an error nobody repeats. `Refuse` stands for
the limiter, the circuit and the bulkhead, which have modules of their own.

**TokenRefresh.** `ReadCache`, `AcquireLock`, `Recheck`, `RequestToken`, `PublishToken`,
`Unlock`, `Exchange`, `Invalidate` are the awaits of `_acquire_token` and `request`;
`LockLapses`, `TokenAges`, `TokensRevoked` and `Crash` come from outside. Each may fail as
Redis may. `mishap` is a history variable: what befell a call between its first 401 and its
repetition.

**CircuitBreaker.** `circuit` is the Redis hash with time as two flags: `cooled`
(`open_seconds` passed) and `due` (the time to live passed without a touch). A call is
idle, admitted or in its slot; `AdmitUnchecked` is the fail-open path of a Redis error; a
report is applied or lost. `probing` is a history variable.

**RateLimiter.** A tick refills one unit and a token is `Cost` units, so rates do not
appear. The time given to the script is the caller's and may be late; `level` is what was
granted and not yet paid for by the rate, `regained` the ticks counted twice.

**WebhookReceipts.** A delivery is genuine, damaged, or outside the replay window. A handler goes
from `Accept` or `Reject` through `InsertReceipt` to `ProcessReceipt` or `Defer`; the worker
runs `ClaimDeferred`, then `ProcessAgain`, `DeferAgain` or `Abandon`. A handler writes what
it decided before, so a settled receipt can be overwritten, as in the code. `Link` is the
dispatch that commits the reference. The replay guard answers freely.

**IdempotentCreation.** A call goes `Begin`, (`FindDefinition`, `RegisterDefinition`,)
`Look`, `Insert`, `Commit`, `Start`; an insert waits while another transaction holds its
key. `Crash` rolls an open transaction back. A body says what is asked for and in which
spelling (order of keys, escapes, `1.0` for `1`); its `fingerprint` keeps the former, as
`canonical_json` does, and SHA-256 is taken to tell canonical texts apart.

**OutboxPublisher.** A publisher's run is `Claim`, then `PublishBatch`, `BatchFails` or
`SendRaises`, one by one after a failure (`PublishOne`, `OneFails`), then `Settle` with the
counts read at the claim. `Lapse` ends a lease or a backoff at any time, also under a slow
publisher, which `overrun` remembers. `PollEmpty` includes the purge. Attempt counts of
`outbox_max_attempts` and more, which redrives lead to, are not told apart: no decision tells them apart.

## 3. Runs

All bounds are constants of the configurations. State counts are distinct states.

| Run | Result | Shows |
|---|---|---|
| `lifecycle_safety` | holds, 434 k states | success is the provider's, a dispatch has an owner, a pending request ends on evidence, and the lifecycle implements `RequestContract` |
| `lifecycle_liveness` | holds, 15 k | nothing stays dispatching or scheduled; a lost webhook is recovered or escalated |
| `circuit_safety` | holds, 32 k | counters, probe limit, closing only through probes, end of half-open |
| `outbox` | holds, 328 k | nothing lost, dead letters exhausted, leases exclude, every event settles |
| `workflow_safety` | holds, 862 k | one request per step, steps start on succeeded dependencies, only what was done is undone, success is whole, cancellation honoured, an ended execution leaves nothing standing |
| `workflow_liveness` | holds, 35 k | on `customer_onboarding`: a success nobody reported is noticed; compensation runs in reverse |
| `receipts` | holds, 101 k | acknowledged events are recorded and take effect, only genuine ones act, processed means applied, deferred ones settle |
| `gateway` | holds, 165 k | repeats create no second operation, results and webhooks tell the outcome, calls end |
| `tokens` | holds, 349 k | leases stand, a call is refused only after one of four mishaps to its repetition, calls end |
| `creation` | holds, 213 k | one entity per key, replays match, conflicts are real, what was created is started |
| `workflow_unwind` | violated | on `parallel_provisioning`: an unwind with a step left ready never ends |
| `workflow_review` | violated | an execution is reported compensated although a compensating request failed |

The two violated runs are the findings of `PROJECT.json`.

In the counterexample of `workflow_unwind` `create_customer`
succeeds, both branches become ready, `register_notify` fails before `provision_billing`
was started, `create_customer` is compensated, and `provision_billing`, still ready, keeps
the execution compensating: the completion test (`workflow_orchestrator.py:557`) accepts
compensated, failed, skipped, cancelled and pending steps only.

In that of `workflow_review` a forward request is answered pending and settled by a webhook
before its dispatch is settled, so that two hooks are under way for it. The first marks the step
succeeded. The deadline passes, the step becomes compensating, and its compensating request is
created and fails. The second hook finds the step compensating and its request, the forward one,
succeeded: `on_request_terminal` (`workflow_orchestrator.py:403`) does not compare the request with
the compensating one and marks the step compensated, and the execution ends as compensated.
`docs/architecture.md:51` says "Failed compensation routes the execution to `MANUAL_REVIEW`".

### Bounds

* Lifecycle: two automatic attempts and one operator retry are the least at which an
  attempt races its successor and an operator retry exceeds `max_attempts`. One
  reconciler, canceller and webhook suffice for a race with each other and with the
  attempts. One request is enough because requests share no row.
* Workflow: a chain of two steps has a dependency, a compensable and a non-compensable step;
  two tasks can hold the same stale list. One webhook and one interruption (cancellation,
  crash, deadline, or an operator who cancels or retries a request of the first step, forward or compensating). The liveness run has the three steps of the shipped
  definition and one task.
* Circuit: four calls in two processes with two slots each, all thresholds two: every
  threshold has a case below, at and beyond it, and a report can come from an earlier episode.
* Gateway: two calls of any kind for one request, all twelve scenarios, three providers. One
  refusal, rejected token or failing token request. Two creates of one request are what a durable retry looks like.
* Tokens: two calls, two tokens, two faults: a lease can lapse and another be taken, a
  token be revoked after a refresh, and an old token be cached after it was invalidated.
* Receipts: a progress, a success and a malformed event, two handlers, one worker, one crash
  or move. Northstar signs a timestamp, Meridian does not.
* Creation: three calls with one key and without, two supported bodies, one of
  them in two spellings, and one that is not, one crash.
* Outbox: two events, two replicas, two attempts. Batches of two let one event fail beside
  another; a batch is smaller when the other event is staged later or leased, so events are in
  different hands too. Broker failures and lapses of leases are unbounded; one crash, send that raises
  or redrive. Every event can be sent (`Unsendable` is empty; see section 5).

Symmetry is used in the safety runs of the workflow only, over tasks the
specification does not tell apart. Deadlock is not checked where the system may come to rest
(requests, executions and calls that are done); it is checked for circuit, outbox and receipts.

### Fairness

* Workers poll for ever (`workers/base.py` survives exceptions) and calls end within their
  timeout: weak fairness of claims, settling and of finishing an inspection.
* A reconciler that keeps coming back finds the grace period over, and a provider asked again
  and again about an operation is reached at last: strong fairness of these answers in
  `RequestLifecycle`.
* Workflow: tasks run until they return, leases lapse, and no request stays open, which is what
  `InFlightSettles` and `LostWebhookRecovered` say of the lifecycle.
* Gateway, tokens, receipts, creation: the event loop runs every ready coroutine, a wait ends
  in a timeout, receipts grow old. For the bucket and the circuit time passes and Redis deletes expired keys.
* Nothing is assumed of operators, webhooks, crashes or the provider's own progress.

## 4. Proofs

For every value of the constants that meets the named assumptions, `tlapm` proves:

* `RequestLifecycle_proofs`: `TypeCorrect`, `AttemptsStayBounded`, `TimestampsStayConsistent`,
  `NoFalseSuccess`, `NoOrphanedDispatch`. The inductive invariant `IInv` adds to the stated
  properties that a scheduled retry has an attempt left (else the next claim would break the
  bound), that nothing acts on the row before its first dispatch except a local cancellation,
  that `validating` is never committed, and that receipts stay true (else a deferred webhook
  could claim a false success). The row operators are handled once in lemmas (what a provider
  report can do to a row); each action then has a step of its own.
  From the same invariant follow `TransitionsStayLegal`, `TerminalStaysFinal`, and
  `PollsNeverGuess`, which needs that the provider honours the idempotency key: `OneLink` says
  that every reference anybody holds then names the one operation.
  `LifecycleImplementsContract`, the refinement, needs in addition that nothing reaches the
  provider before the first attempt, and that only the step that makes the row dispatching
  counts an attempt.
* `WorkflowOrchestrator_proofs`: `WorkflowTypeCorrect`, `WorkflowCreatesOnce`, `WorkflowSuccessIsWhole`, `WorkflowHonoursCancellation`,
  `WorkflowUndoesWhatWasDone`, `WorkflowEndsUnwound`, `WorkflowStartsOnSolidGround`, `WorkflowUnwindsInReverse`, for any finite
  set of steps, any dependencies and any number of tasks (see below).
* `ProviderGateway_proofs`: `GatewayTypeCorrect`, `GatewayCreatesOnce`, `GatewayResultsAreTrue`,
  `GatewayWebhooksTellTheOutcome`, `GatewayOutcomesStand`, for any finite sets of calls and
  requests, all providers and scenarios (see below).
* `WebhookReceipts_proofs`: `WebhookTypeCorrect`, `WebhookAcknowledgedIsRecorded`,
  `WebhookOnlyGenuineEventsAct`, `WebhookProcessedWithItsRequest`. `WebhookInv` says that a
  receipt, once inserted, never goes away, that handlers and workers hold only receipts that
  exist, and that whoever was answered has one. The last theorem rests on the lemma
  `ApplyReport` about the aggregate: a row that took a report has nothing left to take from it.
  `VerifiedIsGenuine` and lemmas on the adapters' tables cover each provider in turn. Handlers,
  workers and interruptions are unbounded, events are any of the five kinds.
* `Resilience_proofs`, the circuit breaker: `CircuitTypeCorrect`, `CountersAlwaysDecide`,
  `ProbesStayLimited`, `ScriptsAgree`, `OpenClosesThroughProbes`. `CInv` says what each script keeps of the hash and that it counts every running probe.
* `OutboxPublisher_proofs`: `OutboxTypeCorrect`, `OutboxLosesNothing`, `DeadLettersStayExhausted`,
  `LeasesKeepExcluding`. `OInv` adds that an acknowledged event was delivered, and that the
  stored attempt count never falls below the one a publisher read, so a decision on a stale
  count is safe. `LInv` says that without an overrun a claimed row is leased, unpublished and in
  one batch only.
* `TokenRefresh_proofs`: `TokenTypeCorrect`, `LeasesAlwaysStand`, `OneRefreshIsEnough`. The
  invariant says why a repetition succeeds: after a call's own invalidation, unless one of the
  four mishaps befell it, the cache holds no revoked token and the token it goes on with is valid.
* `IdempotentCreation_proofs`: `CreationTypeCorrect`, `KeysCreateOnce`, `ReplaysAlwaysMatch`,
  `NoKeyIsBurnt`. The invariant ties the three places a key lives in: a call about to commit
  alone has written its key, whatever it creates is recorded under it, and a record names a
  call that created something, with the fingerprint a replay has compared.
* `Resilience_proofs`, the rate limiter: `SettlesToTheRate` and `RetryAfterAgrees`, for a bucket of at least one
  token whose key outlives its filling (`Sized`, which `_ttl_seconds` guarantees). The invariant
  relates what was granted to what the bucket would hold without its cap: together they
  exceed a burst only by the lateness allowed and by the time counted twice.

### The invariant of the workflow

A task of the orchestrator is a stack of frames, and between two transactions it holds what it
read in the first. `WInv` has a part for each kind of state.

* `EInv`, of the execution. A step that completed has a rank, larger than the ranks of all it
  depends on and no larger than the number of ranked steps. This is what makes reverse completion
  order a reverse dependency order, hence `UnwindsInReverse`; that a new rank is the largest needs
  that there are no gaps. A ready step of a live execution has its dependencies, which is all
  that a task with a stale list of ready steps checks again. The execution's status fits its
  steps, whoever refreshed it last.
* `RInv`, of the requests. A pending or ready step has no forward request, and a step that was
  never undone has no compensating one, so whoever moves the step out of that status is the first
  to create it: `OneRequestPerStep`. The forward request of a succeeded step, and of any step
  that has a compensating request, succeeded: `OnlyDoneIsUndone`.
* `FrameFits`, of every frame of every stack, running or waiting for a callee: the request it
  names exists, a result `succeeded` it carries is still true (no other result need be), and a
  frame about to create a compensating request is the only one (`UndoneOnce`) and finds none.

The proof first shows what each operation of the aggregate keeps of `EInv` (with `Moves`, how far
it may move the steps), then what each way to leave a frame (return, go on, call, raise up to the
handler that catches) keeps of the stacks (with `Kept`, what the other tasks rely on). One lemma per
action then shows the action to be one of these, and the theorems follow.

The assumptions: steps are a finite set (`StepsAssumption`), dependencies are sets of steps
(`DependsOnAssumption`), the bounds on webhooks and interruptions are numbers
(`BoundsAssumption`). Acyclicity is not assumed: a step of a cycle never becomes ready.

### The invariant of the gateway

`GInv` ties the caller, the wire and the provider together.

* `OperationsFit`, `KeysFit`: the n-th operation has the n-th identifier, its stored status and
  flag say what it came to, and where creates are deduplicated its key is its request and no two
  operations share one.
* `MakersFit`: at Meridian, which ignores keys, the operations map one to one to create calls that
  have sent and have nothing on the wire any more. It needs `WireFits`: such a call sends once,
  so a message of it is its only one, and serving it uses the call up. The map is what bounds the
  operations by the calls (`OneOperationPerCreate`), and what shows that `next_id()` is never asked
  for more identifiers than there are.
* `SentFits`, `ResultFits`: a scheduled webhook and the result of a call are true of the operation
  they name. They stay true because operations only grow (`Grows`): one with an outcome never
  changes, and an open one can only be cancelled.

The lemmas go from the inside out: what `first_present` reads from each body a provider builds, what
the status tables make of it, what each sandbox handler does to the store and answers
(`CreateServes`, `LookupServes`, `CancelServes`), what the decorator makes of an answer or an error
(`AfterAnswer`, `AfterError`), and one lemma per action.

The assumptions: calls and requests are finite sets, and no request is `None`; identifiers are
distinct strings (`OperationIdsAssumption`: the sandbox gives each a sequence number), at least as
many as calls and as requests (`EnoughIdsAssumption`), so that the model's list does not run out
where the code would just go on counting.

### What is not proved

Proved and not repeated as runs: the type invariants,
`RetriesBounded`, `TimestampsAgree`, `LegalTransitions`, `TerminalIsFinal`,
`ScriptsMirrorPolicies`, `OutcomesStand`, and everything about `RateLimiter`, whose clock
has no bound.

Model-checked only, since fairness is beyond the prover, are the liveness properties:
`InFlightSettles`, `LostWebhookRecovered`, `HalfOpenEnds`, `EventsSettle`, `QuietSuccessIsNoticed`,
`DeferredSettles`, `AcknowledgedTakesEffect`, `CreatedIsStarted` and the two `CallsEnd`. Every other
property of a passing run is proved.

## 5. Known divergences

Besides the findings above, the models show these differences between the code and what its
comments or documents say. Each is reproduced by checking the statement given.

* **Local cancellation after a timeout.** `cancel_request.py:72` says "Nothing exists at the
  provider, so cancellation is purely local." A create that timed out may be on the wire;
  `row.status = "cancelled" => \A o \in Attempts : op[o] # "running"` fails in `RequestLifecycle`.
* **Manual review ended by a webhook.** `state_machine.py:80-81` says "Only a deliberate operator
  decision leaves it." The table lets a late webhook leave it.
* **Two operations at Meridian.** `resilient.py:22-25` calls durable retry "the only safe option"
  for a provider that does not deduplicate creates. A retried timeout makes a second operation:
  `Cardinality({o \in Attempts : op[o] # "absent"}) <= 1` fails.
* **A poll about an older operation.** `reconciliation.py:166` applies an answer to the row
  without comparing references. `PendingLeavesOnEvidence` fails when its first conjunct is dropped.
* **A circuit its probes cannot close.** The defaults admit one probe and want two successes
  (`config/settings.py:225-226`); `docs/runbooks/circuit-open.md:28` says "If probes succeed, the
  circuit closes automatically." With `HalfOpenMaxProbes = 1` and `SuccessThreshold = 2`,
  `SucceedingProbesClose` fails; only the key's expiry ends the episode. With at least as many
  probes as successes wanted it holds.
* **A success reported to an open circuit** leaves it open in Lua, while
  `next_state_after_success` returns closed; `ScriptsMirrorPolicies` excepts that case.
* **A poisoned batch.** `outbox_publisher.py:162-164` says one poisoned event cannot block the
  others. `producer.send` is awaited outside the try (`kafka.py:109`); with
  `Unsendable = {1}` and batches of two `EventsSettle` fails.
* **Compensated without an undo.** A step without `compensate_operation` is marked compensated
  with nothing undone; the catalog declares `RESOURCE_DEPROVISION` for Meridian steps, an
  operation the Meridian adapter does not support (`meridian.py:86-92`). `wait_for_webhook` is
  stored and never read.
* **A token put back.** `_fetch_and_cache` stores the token it fetched whatever has become of it
  since (`auth.py:161-164`). A process that is slow there can cache a revoked token after another call
  invalidated the cache (`http.py:131`) and before that call reads it again, whose one repetition is
  then refused too. `RefreshRecovers` fails without its case `put_back`.
* **Cancelled while being undone.** `cancel()` of an execution in manual review looks only for
  succeeded steps; without any, it ends the execution as cancelled at once, also when a step's undo
  failed or is open (`workflow_orchestrator.py:193-228`). The step stays compensating.
* **A workflow step scheduled for retry.** A step whose request was scheduled for retry becomes
  `retry_scheduled` (`workflow_orchestrator.py:530-532`). When the retry worker settles the request,
  the hook ignores steps that are not running, waiting or compensating (397-401) and `advance()`
  looks at waiting steps only (340-351): only a deadline, if there is one, ends the execution.
* **Unwinds that do not end**, besides the finding: a crash between the commit that makes a step
  compensating and its request, and a compensation request settled by reconciliation, both leave
  the step compensating.
* **A received receipt nobody claims.** The loser of the insert race acknowledges the event; if
  the winner dies before processing it, only a redelivery, which the provider need not make,
  helps. `AcknowledgedTakesEffect` therefore speaks of the other acknowledgements.
* **A received request nobody dispatches**, when the API process dies between the creating commit
  and `dispatch()` (`create_request.py:114`). `CreatedIsStarted` excepts it.
* **First starts of a workflow at the same time.** `start_workflow.py` looks the definition up and
  inserts it without a lock; the loser is answered 409 although its key is unused. Repeating
  the call succeeds.
* **Time counted twice.** `updated_at` is set to the caller's time even when it is older than the
  stored one (`rate_limiter.py:57`), so a late caller lets the next one refill the same interval
  again: the term `regained` of `RateKept`.

## 6. Limits of the models

* Payloads, error texts, audit rows, metrics and hashes are left out. No decision that is
  modelled reads them.
* A transaction is one step; `SKIP LOCKED` therefore never has a locked row to skip. Unique keys
  are the exception: in `IdempotentCreation` an insert waits for the other transaction.
* Workflow versions are left out: every writer loads the execution `FOR UPDATE`, so the version
  test never refuses. Workflow leases lapse at any time.
* Duplicate and reordered deliveries to Kafka consumers are not counted: the code promises
  neither uniqueness nor order.
* `RequestLifecycle` takes a receipt's correlation and update as one step; `WebhookReceipts`
  takes them apart.

**Not modelled**: HTTP routing and client authentication, queries, configuration, composition,
the CLI, observability, token signing and encryption, column mapping, migrations and the
scripts, which have no state that a modelled decision depends on; the gateway's record of
the last circuit state it announced, `health_check`, the breaker's `reset()`, which nothing
calls, the heartbeat, and the producer's lifecycle.
