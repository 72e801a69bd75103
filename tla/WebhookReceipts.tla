-------------------------- MODULE WebhookReceipts ---------------------------
(***************************************************************************)
(* Inbound webhooks of one operation: the ingestion use case behind the    *)
(* HTTP endpoint (ingest_webhook.py), the receipts in PostgreSQL and the   *)
(* worker that retries deferred receipts (webhook_processor.py).           *)
(*                                                                         *)
(* The provider delivers an event any number of times, signed anew or not, *)
(* late, or damaged on the way.  An event is named by its role; its body   *)
(* is the provider's own, and what the adapter makes of it decides.        *)
(* The replay guard in Redis (webhook_replay.py) may turn any verified     *)
(* delivery away as a repetition, and may let a repetition pass: its       *)
(* entries run out, it gives way when Redis cannot be reached, and         *)
(* Meridian's signatures, which cover the body alone, are always           *)
(* repetitions.  A step of a handler or a worker is one transaction.       *)
(***************************************************************************)
EXTENDS ProviderSandbox, IntegrationRequest

CONSTANTS
  Providers,        \* the providers to choose from
  Events,           \* the events the provider reports
  Handlers,         \* HTTP handlers that run at the same time
  Workers,          \* webhook processors
  MaxInterruptions  \* bound: crashes, and moves of the request by others

ASSUME ProvidersAssumption == Providers \subseteq Provider
ASSUME EventsAssumption ==
  Events \subseteq {"success", "failure", "progress", "unreferenced", "malformed"}
ASSUME MaxInterruptionsAssumption == MaxInterruptions \in Nat

VARIABLES
  row,          \* the integration request the operation belongs to
  receipt,      \* processing status of each event's receipt, "none" without one
  aged,         \* events whose receipt is older than the abandonment limit
  handler,      \* each handler: [at, event, genuine]
  worker,       \* each worker: [at, event, todo]
  told,         \* what the provider was told of each event, at best
  untrusted,    \* events whose receipt stems from a delivery that was not genuine
  interruptions

vars == <<row, receipt, aged, handler, worker, told, untrusted, interruptions>>

provider == row.provider

ReceiptStatus == {None, "received", "processed", "rejected", "deferred", "abandoned"}

is_settled(status) == status \in {"processed", "rejected", "abandoned"}

-----------------------------------------------------------------------------
(***************************************************************************)
(* Deliveries.                                                             *)
(***************************************************************************)
progress_event ==
  [northstar |-> "operation.progressed", meridian |-> "request.updated",
   cobalt |-> "job.started"]

event_type(p, e) ==
  CASE e = "success" -> success_event[p]
    [] e = "failure" -> failure_event[p]
    [] OTHER         -> progress_event[p]

operation_at(p, e) ==
  [id |-> IF e = "unreferenced" THEN None ELSE "op",
   status |-> CASE e = "success" -> succeeded_status[p]
                [] e = "failure" -> failed_status[p]
                [] OTHER         -> FIRST_STATUS[p]]

body(p, e) ==
  webhook_body(p, operation_at(p, e), event_type(p, e), IF e = "malformed" THEN None ELSE e)

\* As sent, too old, from the future, altered on the way, or without its headers.
Delivery ==
  {[signature |-> "matching", stamp |-> "readable", age |-> 0, key_id |-> "key"],
   [signature |-> "matching", stamp |-> "readable", age |-> ReplayWindow + 1, key_id |-> "key"],
   [signature |-> "matching", stamp |-> "readable", age |-> -(ReplayWindow + 1),
    key_id |-> "key"],
   [signature |-> "other", stamp |-> "readable", age |-> 0, key_id |-> "key"],
   [signature |-> None, stamp |-> None, age |-> 0, key_id |-> None]}

\* Signed over what was sent and, by the providers that sign a timestamp, sent just now.
is_genuine(w) ==
  /\ w.signature = "matching"
  /\ provider # "meridian" => w.age \in -ReplayWindow .. ReplayWindow

verified == {w \in Delivery : validate_webhook(provider, w)}

\* The normalised event, and the row's name for the reference it carries.
normalized == [p \in Providers |-> [e \in Events |-> normalize_webhook(p, body(p, e))]]

event(e) == normalized[provider][e]

reference_of(e) == IF event(e).reference = None THEN NoReference ELSE 1

Idle == [at |-> "idle", event |-> None, genuine |-> TRUE]
Resting == [at |-> "idle", event |-> None, todo |-> {}]

Init ==
  /\ row \in {begin_dispatch(begin_validation(create(p))) : p \in Providers}
  /\ receipt = [e \in Events |-> None]
  /\ aged = {}
  /\ handler = [h \in Handlers |-> Idle]
  /\ worker = [w \in Workers |-> Resting]
  /\ told = [e \in Events |-> "nothing"]
  /\ untrusted = {}
  /\ interruptions = 0

-----------------------------------------------------------------------------
(***************************************************************************)
(* IngestWebhookUseCase.execute.                                           *)
(***************************************************************************)
HandlerAt(h, point) == handler[h].at = point

Go(h, point) == handler' = [handler EXCEPT ![h].at = point]

\* The endpoint's answer, 2xx here.  The loser of an insertion race is told that the event
\* is recorded; everybody else that it is in hand or done.
Answer(h, e, status) ==
  /\ handler' = [handler EXCEPT ![h] = Idle]
  /\ told' = [told EXCEPT ![e] = IF status = "raced" /\ @ = "nothing" THEN "recorded"
                                  ELSE IF status = "raced" THEN @ ELSE "kept"]

\* Fault: the rejection is recorded under the event id in the body.
rejection_recorded_as_event(e) ==
  [receipt EXCEPT ![e] = IF @ = None THEN "rejected" ELSE @]

\* The rejected receipt has a synthesised event id: it is no event's receipt.
rejection_recorded(e) == receipt

\* A delivery that is not verified, that the replay guard turns away or that the adapter
\* cannot read is recorded and answered 401.
Reject(h) ==
  /\ HandlerAt(h, "idle")
  /\ \E e \in Events : receipt' = rejection_recorded(e)
  /\ UNCHANGED <<row, aged, handler, worker, told, untrusted, interruptions>>

\* _persist_receipt reads first; a settled receipt makes the delivery a duplicate.
Accept(h) ==
  /\ HandlerAt(h, "idle")
  /\ \E e \in Events, genuine \in {is_genuine(w) : w \in verified} :
       /\ event(e) # Malformed
       /\ IF is_settled(receipt[e]) THEN Answer(h, e, "duplicate")
          ELSE /\ handler' = [handler EXCEPT ![h] =
                    [at |-> IF receipt[e] = None THEN "insert" ELSE "process",
                     event |-> e, genuine |-> genuine]]
               /\ UNCHANGED told
  /\ UNCHANGED <<row, receipt, aged, worker, untrusted, interruptions>>

\* The unique key (provider, event_id) decides a race.  The loser rereads the receipt, which
\* nobody deletes, and reports a duplicate whatever its status.
InsertReceipt(h) ==
  LET e == handler[h].event
  IN  /\ HandlerAt(h, "insert")
      /\ IF receipt[e] = None
         THEN /\ receipt' = [receipt EXCEPT ![e] = "received"]
              /\ untrusted' = IF handler[h].genuine THEN untrusted ELSE untrusted \union {e}
              /\ Go(h, "process")
              /\ UNCHANGED told
         ELSE /\ Answer(h, e, "raced")
              /\ UNCHANGED <<receipt, untrusted>>
      /\ UNCHANGED <<row, aged, worker, interruptions>>

-----------------------------------------------------------------------------
(***************************************************************************)
(* process_receipt, for a handler and for the deferred-webhook worker.     *)
(* The receipt is written as it was loaded, without a look at what became  *)
(* of the stored one.                                                      *)
(***************************************************************************)
\* _resolve_request: by provider reference only.
resolves(e) == reference_of(e) # NoReference /\ row.reference = reference_of(e)

\* Fault: the receipt is settled before the request is found.
deferred_as_processed(e) == [receipt EXCEPT ![e] = "processed"]

\* Fault: no further attempt is scheduled.
deferred_for_good(e) == [receipt EXCEPT ![e] = "received"]

mark_deferred(e) == [receipt EXCEPT ![e] = "deferred"]

mark_processed(e) == [receipt EXCEPT ![e] = "processed"]

\* One transaction: the row, under its lock, and the receipt.
Apply(e) ==
  /\ resolves(e)
  /\ row' = apply_normalized_status(row, event(e).status, reference_of(e))
  /\ receipt' = mark_processed(e)

ProcessReceipt(h) ==
  /\ HandlerAt(h, "process")
  /\ \/ Apply(handler[h].event) /\ Answer(h, handler[h].event, "processed")
     \/ /\ ~ resolves(handler[h].event)
        /\ Go(h, "defer")
        /\ UNCHANGED <<row, receipt, told>>
  /\ UNCHANGED <<aged, worker, untrusted, interruptions>>

Defer(h) ==
  /\ HandlerAt(h, "defer")
  /\ receipt' = mark_deferred(handler[h].event)
  /\ Answer(h, handler[h].event, "deferred")
  /\ UNCHANGED <<row, aged, worker, untrusted, interruptions>>

-----------------------------------------------------------------------------
(***************************************************************************)
(* WebhookProcessorWorker.run_once: the batch is read in one transaction   *)
(* and its locks are released before the receipts are processed.           *)
(***************************************************************************)
deferred_receipts == {e \in Events : receipt[e] = "deferred"}

ClaimDeferred(w) ==
  /\ worker[w] = Resting
  /\ deferred_receipts # {}
  /\ worker' = [worker EXCEPT ![w].at = "next", ![w].todo = deferred_receipts]
  /\ UNCHANGED <<row, receipt, aged, handler, told, untrusted, interruptions>>

after_receipt(w, e) ==
  IF worker[w].todo = {e} THEN Resting
  ELSE [at |-> "next", event |-> None, todo |-> worker[w].todo \ {e}]

\* Fault: the limit is never reached.
is_abandoned_never(e) == FALSE

is_abandoned(e) == e \in aged

\* The next receipt of the batch is too old, or is tried again.
Abandon(w) ==
  /\ worker[w].at = "next"
  /\ \E e \in worker[w].todo :
       /\ is_abandoned(e)
       /\ receipt' = [receipt EXCEPT ![e] = "abandoned"]
       /\ worker' = [worker EXCEPT ![w] = after_receipt(w, e)]
  /\ UNCHANGED <<row, aged, handler, told, untrusted, interruptions>>

ProcessAgain(w) ==
  /\ worker[w].at = "next"
  /\ \E e \in worker[w].todo :
       /\ ~ is_abandoned(e)
       /\ \/ Apply(e) /\ worker' = [worker EXCEPT ![w] = after_receipt(w, e)]
          \/ /\ ~ resolves(e)
             /\ worker' = [worker EXCEPT ![w].at = "defer", ![w].event = e]
             /\ UNCHANGED <<row, receipt>>
  /\ UNCHANGED <<aged, handler, told, untrusted, interruptions>>

DeferAgain(w) ==
  /\ worker[w].at = "defer"
  /\ receipt' = mark_deferred(worker[w].event)
  /\ worker' = [worker EXCEPT ![w] = after_receipt(w, worker[w].event)]
  /\ UNCHANGED <<row, aged, handler, told, untrusted, interruptions>>

-----------------------------------------------------------------------------
(***************************************************************************)
(* What surrounds the receipts.                                            *)
(***************************************************************************)
\* The dispatch that was in flight commits the provider's reference.
Link ==
  /\ row.reference = NoReference
  /\ row' = IF row.status = "dispatching" THEN mark_accepted(row, 1)
            ELSE attach_provider_reference(row, 1)
  /\ UNCHANGED <<receipt, aged, handler, worker, told, untrusted, interruptions>>

Interruption == interruptions < MaxInterruptions /\ interruptions' = interruptions + 1

\* Operators, reconciliation and the retry worker move the request.
Move ==
  /\ Interruption
  /\ \/ can_transition(row.status, "cancelled") /\ row' = mark_cancelled(row)
     \/ can_transition(row.status, "manual_review") /\ row' = mark_manual_review(row)
     \/ row.status \in MANUALLY_RETRYABLE_STATUSES /\ row' = restore_for_retry(row)
  /\ UNCHANGED <<receipt, aged, handler, worker, told, untrusted>>

Age(e) ==
  /\ receipt[e] # None
  /\ e \notin aged
  /\ aged' = aged \union {e}
  /\ UNCHANGED <<row, receipt, handler, worker, told, untrusted, interruptions>>

Crash ==
  /\ Interruption
  /\ \/ \E h \in Handlers :
          ~ HandlerAt(h, "idle") /\ handler' = [handler EXCEPT ![h] = Idle] /\ UNCHANGED worker
     \/ \E w \in Workers :
          worker[w] # Resting /\ worker' = [worker EXCEPT ![w] = Resting] /\ UNCHANGED handler
  /\ UNCHANGED <<row, receipt, aged, told, untrusted>>

-----------------------------------------------------------------------------
Ingest(h) ==
  InsertReceipt(h) \/ ProcessReceipt(h) \/ Defer(h)

RunOnce(w) ==
  ClaimDeferred(w) \/ Abandon(w) \/ ProcessAgain(w) \/ DeferAgain(w)

Next ==
  \/ \E h \in Handlers : Reject(h) \/ Accept(h) \/ Ingest(h)
  \/ \E w \in Workers : RunOnce(w)
  \/ Link \/ Move \/ Crash
  \/ \E e \in Events : Age(e)

Spec == Init /\ [][Next]_vars

(***************************************************************************)
(* Worker and handler tasks run on, and receipts grow old.  That events    *)
(* are delivered, dispatches commit or processes crash is not assumed.     *)
(***************************************************************************)
Fairness ==
  /\ \A h \in Handlers : WF_vars(Ingest(h))
  /\ \A w \in Workers : WF_vars(RunOnce(w))
  /\ \A e \in Events : WF_vars(Age(e))

FairSpec == Spec /\ Fairness

-----------------------------------------------------------------------------
\* Every variable stays in its range; a worker between two receipts has one left.
TypeOK ==
  /\ row \in Row(Providers, {1}) /\ row.attempt_count = 1
  /\ receipt \in [Events -> ReceiptStatus]
  /\ aged \subseteq Events
  /\ handler \in [Handlers -> [at : {"idle", "insert", "process", "defer"},
                               event : Events \union {None}, genuine : BOOLEAN]]
  /\ worker \in [Workers -> [at : {"idle", "next", "defer"},
                             event : Events \union {None}, todo : SUBSET Events]]
  /\ \A w \in Workers : worker[w].at = "next" => worker[w].todo # {}
  /\ told \in [Events -> {"nothing", "recorded", "kept"}]
  /\ untrusted \subseteq Events
  /\ interruptions \in 0 .. MaxInterruptions

(***************************************************************************)
(* Whoever told the provider 2xx has a receipt of the event that was taken *)
(* in, never a rejection: no damaged delivery that came first, lost race,  *)
(* crash or Redis failure leaves an acknowledged event without one.        *)
(***************************************************************************)
AcknowledgedIsRecorded ==
  \A e \in Events : told[e] # "nothing" => receipt[e] \notin {None, "rejected"}

(***************************************************************************)
(* Only deliveries that are what the provider sent, within the replay      *)
(* window on either side, lead to receipts of events, and so to changes of *)
(* the request.                                                            *)
(***************************************************************************)
OnlyGenuineEventsAct == untrusted = {}

(***************************************************************************)
(* A receipt becomes processed in the transaction that brings the request  *)
(* up to date: afterwards the event has no forward progress left to make.  *)
(***************************************************************************)
ProcessedWithItsRequest ==
  [][\A e \in Events :
       receipt[e] # "processed" /\ receipt'[e] = "processed"
       => /\ row'.reference = reference_of(e)
          /\ apply_normalized_status(row', event(e).status, reference_of(e)) = row']_vars

(***************************************************************************)
(* A deferred receipt does not wait for ever: it is applied, or abandoned  *)
(* when it is too old, whichever redeliveries interfere.                   *)
(***************************************************************************)
DeferredSettles ==
  \A e \in Events : receipt[e] = "deferred" ~> receipt[e] \in {"processed", "abandoned"}

(***************************************************************************)
(* An event that was acknowledged, other than to the loser of an insertion *)
(* race, takes effect once the dispatch has committed the reference it     *)
(* names, unless it is abandoned: also when it came before the reference   *)
(* and when the process that held it crashed.                              *)
(***************************************************************************)
AcknowledgedTakesEffect ==
  \A e \in Events :
    (told[e] = "kept" /\ resolves(e))
      ~> (\/ receipt[e] = "abandoned"
          \/ apply_normalized_status(row, event(e).status, reference_of(e)) = row)
=============================================================================
