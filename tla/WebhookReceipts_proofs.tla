----------------------- MODULE WebhookReceipts_proofs -----------------------
(***************************************************************************)
(* WebhookReceipts for any handlers, workers and events: types, that what  *)
(* was acknowledged is recorded, that only genuine deliveries are, and     *)
(* that a receipt becomes processed together with its request.             *)
(***************************************************************************)
EXTENDS WebhookReceipts, TLAPS

Rows == Row(Providers, {1})

-----------------------------------------------------------------------------
(***************************************************************************)
(* What the adapters make of a webhook.                                    *)
(***************************************************************************)

\* A provider's own status always has a normalised one.
LEMMA MapStatusType ==
  ASSUME NEW p \in Provider, NEW raw PROVE map_status(p, raw) \in NormalizedStatus
<1>1. CASE p = "northstar"
  BY <1>1 DEF map_status, STATUS_MAP, NormalizedStatus
<1>2. CASE p = "meridian"
  BY <1>2 DEF map_status, STATUS_MAP, NormalizedStatus
<1>3. CASE p = "cobalt"
  BY <1>3 DEF map_status, STATUS_MAP, NormalizedStatus
<1> QED
  BY <1>1, <1>2, <1>3 DEF Provider

\* A table of normalised statuses.
Table(f) == \A x \in DOMAIN f : f[x] \in NormalizedStatus

\* So has the type of an event.
LEMMA EventStatusType ==
  ASSUME NEW p \in Provider, NEW type, NEW raw PROVE event_status(p, type, raw) \in NormalizedStatus
<1>2. Table(WEBHOOK_EVENT_STATUS["northstar"])
  BY DEF WEBHOOK_EVENT_STATUS, Table, NormalizedStatus
<1>3. Table(WEBHOOK_EVENT_STATUS["meridian"])
  BY DEF WEBHOOK_EVENT_STATUS, Table
<1>4. Table(WEBHOOK_EVENT_STATUS["cobalt"])
  BY DEF WEBHOOK_EVENT_STATUS, Table, NormalizedStatus
<1>5. Table(WEBHOOK_EVENT_STATUS[p])
  BY <1>2, <1>3, <1>4 DEF Provider
<1> QED
  BY <1>5, MapStatusType DEF event_status, Table

\* A parsed webhook carries a normalised status.
LEMMA NormalizedType ==
  ASSUME NEW p \in Provider, NEW b PROVE normalize_webhook(p, b).status \in NormalizedStatus
<1>1. Malformed.status \in NormalizedStatus
  BY DEF Malformed, NormalizedStatus
<1>2. "northstar" \in Provider /\ "meridian" \in Provider /\ "cobalt" \in Provider
  BY DEF Provider
<1>3. northstar_normalize(b).status \in NormalizedStatus
  BY <1>1, <1>2, EventStatusType DEF northstar_normalize
<1>4. meridian_normalize(b).status \in NormalizedStatus
  BY <1>1, <1>2, MapStatusType DEF meridian_normalize
<1>5. cobalt_normalize(b).status \in NormalizedStatus
  BY <1>1, <1>2, EventStatusType DEF cobalt_normalize
<1> QED
  BY <1>3, <1>4, <1>5 DEF normalize_webhook, Provider

\* Whatever validate_webhook lets through is what the provider sent, in time.
LEMMA VerifiedIsGenuine ==
  ASSUME provider \in Provider, NEW w \in verified PROVE is_genuine(w)
<1>1. /\ w \in Delivery
      /\ validate_webhook(provider, w)
  BY DEF verified
<1>2. w.age \in Int
  BY <1>1, ReplayWindowAssumption DEF Delivery
<1>3. CASE provider = "meridian"
  BY <1>1, <1>3 DEF validate_webhook, meridian_validate, is_genuine
<1>4. CASE provider \in {"northstar", "cobalt"}
  <2>1. w.signature = "matching" /\ within_replay_window(w)
    BY Zenon, <1>1, <1>4 DEF validate_webhook, northstar_validate, cobalt_validate
  <2>2. w.age \in -ReplayWindow .. ReplayWindow
    BY <1>2, <2>1, ReplayWindowAssumption DEF within_replay_window, Abs
  <2> QED
    BY <2>1, <2>2 DEF is_genuine
<1> QED
  BY <1>3, <1>4 DEF Provider

\* A report for the operation of a row that has its reference.
LEMMA ApplyReport ==
  ASSUME NEW r \in Rows, NEW s \in NormalizedStatus, r.reference = 1,
         NEW x, x = apply_normalized_status(r, s, 1)
  PROVE  /\ x \in Rows
         /\ x.reference = 1
         /\ x.attempt_count = r.attempt_count
         /\ apply_normalized_status(x, s, 1) = x
<1>1. PICK target : target = project_normalized_status(s)
  OBVIOUS
<1>2. CASE x = r
  BY <1>2 DEF Rows
<1>3. CASE x # r
  <2> DEFINE linked == [r EXCEPT !.reference = 1]
  <2>1. linked = r
    BY DEF Rows, Row
  <2>2. /\ target # NoStatus
        /\ x = CASE target = "succeeded" -> mark_succeeded(r, 1)
                 [] target = "failed"    -> mark_failed(r)
                 [] target = "cancelled" -> mark_cancelled(r)
                 [] target = "pending"   -> mark_accepted(r, 1)
    BY Zenon, <1>1, <1>3, <2>1 DEF apply_normalized_status, NoReference
  <2>3. target \in {"succeeded", "failed", "cancelled", "pending"}
    BY <1>1, <2>2 DEF project_normalized_status, NormalizedStatus
  <2>4. /\ x \in Rows
        /\ x.status = target
        /\ x.reference = 1
        /\ x.attempt_count = r.attempt_count
    <3>1. CASE target = "succeeded"
      <4>1. x = mark_succeeded(r, 1)
        BY <2>2, <3>1
      <4> QED
        BY Zenon, <3>1, <4>1 DEF mark_succeeded, Rows, Row, RequestStatus, NoReference
    <3>2. CASE target = "failed"
      <4>1. x = mark_failed(r)
        BY <2>2, <3>2
      <4> QED
        BY Zenon, <3>2, <4>1 DEF mark_failed, Rows, Row, RequestStatus, NoReference
    <3>3. CASE target = "cancelled"
      <4>1. x = mark_cancelled(r)
        BY <2>2, <3>3
      <4> QED
        BY Zenon, <3>3, <4>1 DEF mark_cancelled, Rows, Row, RequestStatus, NoReference
    <3>4. CASE target = "pending"
      <4>1. x = mark_accepted(r, 1)
        BY <2>2, <3>4
      <4> QED
        BY Zenon, <3>4, <4>1 DEF mark_accepted, Rows, Row, RequestStatus, NoReference
    <3> QED
      BY <2>3, <3>1, <3>2, <3>3, <3>4
  <2>5. ~ is_forward_progress(x.status, target)
    BY <2>4 DEF is_forward_progress
  <2>6. apply_normalized_status(x, s, 1) = x
    BY Zenon, <1>1, <2>5 DEF apply_normalized_status
  <2> QED
    BY <2>4, <2>6
<1> QED
  BY <1>2, <1>3

-----------------------------------------------------------------------------
(***************************************************************************)
(* The inductive invariant.  A receipt that exists never goes away, so     *)
(* whoever read or inserted one still finds it.                            *)
(***************************************************************************)
RowFits(x) == x \in Rows /\ x.attempt_count = 1

ReceiptFits(r) == r \in [Events -> ReceiptStatus \ {"rejected"}]

HandlerFits(hs, r) ==
  /\ hs \in [Handlers -> [at : {"idle", "insert", "process", "defer"},
                          event : Events \union {None}, genuine : BOOLEAN]]
  /\ \A h \in Handlers :
       /\ hs[h].genuine
       /\ hs[h].at # "idle" => hs[h].event \in Events
       /\ hs[h].at \in {"process", "defer"} => r[hs[h].event] # None

WorkRow == [at : {"idle", "next", "defer"}, event : Events \union {None}, todo : SUBSET Events]

WorkerFits(ws, r) ==
  /\ ws \in [Workers -> WorkRow]
  /\ \A w \in Workers :
       /\ ws[w].at = "next" => ws[w].todo # {}
       /\ ws[w].at = "defer" => ws[w].event \in ws[w].todo
       /\ \A e \in ws[w].todo : r[e] # None

ToldFits(td, r) ==
  /\ td \in [Events -> {"nothing", "recorded", "kept"}]
  /\ \A e \in Events : td[e] # "nothing" => r[e] # None

WebhookInv ==
  /\ RowFits(row)
  /\ ReceiptFits(receipt)
  /\ HandlerFits(handler, receipt)
  /\ WorkerFits(worker, receipt)
  /\ ToldFits(told, receipt)
  /\ aged \subseteq Events
  /\ untrusted = {}
  /\ interruptions \in 0 .. MaxInterruptions

\* What a step may never do.
Settles ==
  \A e \in Events :
    receipt[e] # "processed" /\ receipt'[e] = "processed"
    => /\ row'.reference = reference_of(e)
       /\ apply_normalized_status(row', event(e).status, reference_of(e)) = row'

Keeps == WebhookInv' /\ Settles

\* A receipt is written: the others stay, and it exists from now on.
Written(e, x) ==
  /\ ReceiptFits(receipt')
  /\ receipt'[e] = x
  /\ \A d \in Events : d # e => receipt'[d] = receipt[d]
  /\ \A d \in Events : receipt[d] # None => receipt'[d] # None

\* Writing one receipt leaves the others alone.
LEMMA WriteReceipt ==
  ASSUME ReceiptFits(receipt), NEW e \in Events,
         NEW x \in {"received", "processed", "deferred", "abandoned"},
         receipt' = [receipt EXCEPT ![e] = x]
  PROVE  Written(e, x)
BY DEF ReceiptFits, ReceiptStatus, None, Written

\* What handlers, workers and answers know holds while no receipt goes away.
LEMMA OthersFit ==
  ASSUME \A d \in Events : receipt[d] # None => receipt'[d] # None,
         NEW hs, NEW ws, NEW td
  PROVE  /\ HandlerFits(hs, receipt) => HandlerFits(hs, receipt')
         /\ WorkerFits(ws, receipt) => WorkerFits(ws, receipt')
         /\ ToldFits(td, receipt) => ToldFits(td, receipt')
<1>1. HandlerFits(hs, receipt) => HandlerFits(hs, receipt')
  BY DEF HandlerFits
<1>2. WorkerFits(ws, receipt) => WorkerFits(ws, receipt')
  BY DEF WorkerFits, WorkRow
<1>3. ToldFits(td, receipt) => ToldFits(td, receipt')
  BY DEF ToldFits
<1> QED
  BY <1>1, <1>2, <1>3

\* A handler goes on, or answers and is free.
LEMMA HandlerMoves ==
  ASSUME NEW r, HandlerFits(handler, r), NEW h \in Handlers,
         NEW at \in {"idle", "insert", "process", "defer"},
         at # "idle" => handler[h].event \in Events,
         at \in {"process", "defer"} => r[handler[h].event] # None,
         handler' = [handler EXCEPT ![h].at = at]
  PROVE  HandlerFits(handler', r)
BY DEF HandlerFits

\* A handler that takes up a delivery.
LEMMA HandlerStarts ==
  ASSUME NEW r, HandlerFits(handler, r), NEW h \in Handlers,
         NEW at \in {"insert", "process"}, NEW e \in Events, at = "process" => r[e] # None,
         NEW genuine, genuine = TRUE,
         handler' = [handler EXCEPT ![h] = [at |-> at, event |-> e, genuine |-> genuine]]
  PROVE  HandlerFits(handler', r)
<1>1. handler' \in [Handlers -> [at : {"idle", "insert", "process", "defer"},
                                 event : Events \union {None}, genuine : BOOLEAN]]
  BY DEF HandlerFits
<1>2. \A g \in Handlers : handler'[g] = IF g = h THEN [at |-> at, event |-> e, genuine |-> genuine]
                                        ELSE handler[g]
  BY DEF HandlerFits
<1> QED
  BY <1>1, <1>2 DEF HandlerFits

\* A handler that is done.
LEMMA HandlerRests ==
  ASSUME NEW r, HandlerFits(handler, r), NEW h \in Handlers,
         handler' = [handler EXCEPT ![h] = Idle]
  PROVE  HandlerFits(handler', r)
<1>1. Idle \in [at : {"idle", "insert", "process", "defer"},
                event : Events \union {None}, genuine : BOOLEAN]
  BY DEF Idle
<1>2. Idle.at = "idle" /\ Idle.genuine
  BY DEF Idle
<1>3. \A g \in Handlers : handler'[g] = IF g = h THEN Idle ELSE handler[g]
  BY DEF HandlerFits
<1>4. handler' \in [Handlers -> [at : {"idle", "insert", "process", "defer"},
                                 event : Events \union {None}, genuine : BOOLEAN]]
  BY <1>1 DEF HandlerFits
<1> QED
  BY <1>2, <1>3, <1>4 DEF HandlerFits

\* A handler that answers its caller.
LEMMA AnswerFits ==
  ASSUME NEW r, HandlerFits(handler, r), ToldFits(told, r), NEW h \in Handlers,
         NEW e \in Events, r[e] # None, NEW status, Answer(h, e, status)
  PROVE  HandlerFits(handler', r) /\ ToldFits(told', r)
<1>1. HandlerFits(handler', r)
  BY Zenon, HandlerRests DEF Answer
<1>2. ToldFits(told', r)
  BY DEF Answer, ToldFits
<1> QED
  BY <1>1, <1>2

\* A worker that holds a receipt.
LEMMA WorkerMoves ==
  ASSUME NEW r, WorkerFits(worker, r), NEW w \in Workers,
         NEW x \in WorkRow,
         x.at = "next" => x.todo # {}, x.at = "defer" => x.event \in x.todo,
         \A e \in x.todo : r[e] # None,
         worker' = [worker EXCEPT ![w] = x]
  PROVE  WorkerFits(worker', r)
<1>1. \A v \in Workers : worker'[v] = IF v = w THEN x ELSE worker[v]
  BY DEF WorkerFits, WorkRow
<1>2. worker' \in [Workers -> WorkRow]
  BY DEF WorkerFits, WorkRow
<1> QED
  BY <1>1, <1>2 DEF WorkerFits, WorkRow

\* A worker that is done.
LEMMA WorkerRests ==
  ASSUME NEW r, WorkerFits(worker, r), NEW w \in Workers,
         worker' = [worker EXCEPT ![w] = Resting]
  PROVE  WorkerFits(worker', r)
<1>1. /\ Resting \in WorkRow
      /\ Resting.at = "idle"
      /\ Resting.todo = {}
  BY DEF Resting, WorkRow
<1> QED
  BY Zenon, <1>1, WorkerMoves

\* A worker is done with one receipt of its batch.
LEMMA AfterReceiptFits ==
  ASSUME NEW r, WorkerFits(worker, r), NEW w \in Workers, NEW e \in worker[w].todo,
         worker' = [worker EXCEPT ![w] = after_receipt(w, e)]
  PROVE  WorkerFits(worker', r)
<1>1. CASE worker[w].todo = {e}
  BY Zenon, <1>1, WorkerRests DEF after_receipt
<1>2. CASE worker[w].todo # {e}
  <2>1. PICK rest : rest = worker[w].todo \ {e}
    BY Zenon
  <2>2. PICK x : x = [at |-> "next", event |-> None, todo |-> rest]
    BY Zenon
  <2>3. rest # {} /\ rest \in SUBSET Events /\ \A d \in rest : r[d] # None
    <3>1. rest # {}
      BY <1>2, <2>1, Zenon
    <3>2. worker[w].todo \in SUBSET Events /\ \A d \in worker[w].todo : r[d] # None
      BY DEF WorkerFits, WorkRow
    <3>3. rest \in SUBSET worker[w].todo
      BY <2>1, Zenon
    <3> QED
      BY <3>1, <3>2, <3>3, Zenon
  <2>4. worker' = [worker EXCEPT ![w] = x]
    BY <1>2, <2>1, <2>2 DEF after_receipt
  <2>5. x \in WorkRow
    BY <2>2, <2>3 DEF WorkRow
  <2>6. /\ x.at = "next" => x.todo # {}
        /\ x.at = "defer" => x.event \in x.todo
        /\ \A d \in x.todo : r[d] # None
    BY <2>2, <2>3
  <2> QED
    BY <2>4, <2>5, <2>6, WorkerMoves, Zenon
<1> QED
  BY <1>1, <1>2

-----------------------------------------------------------------------------
(***************************************************************************)
(* The steps.                                                              *)
(***************************************************************************)
LEMMA EventFits ==
  ASSUME RowFits(row), NEW e \in Events
  PROVE  /\ provider \in Provider
         /\ event(e).status \in NormalizedStatus
<1>1. provider \in Providers
  BY DEF RowFits, Rows, Row, provider
<1>2. provider \in Provider
  BY <1>1, ProvidersAssumption
<1>3. event(e) = normalize_webhook(provider, body(provider, e))
  BY <1>1 DEF event, normalized
<1> QED
  BY <1>2, <1>3, NormalizedType

\* Only Apply settles a receipt as processed.
LEMMA QuietSettles ==
  ASSUME \A e \in Events : receipt'[e] = "processed" => receipt[e] = "processed"
  PROVE  Settles
BY DEF Settles

\* The receipt and its request in one transaction.
LEMMA ApplyKeeps ==
  ASSUME WebhookInv, NEW e \in Events, Apply(e)
  PROVE  RowFits(row') /\ Written(e, "processed") /\ Settles
<1>1. /\ row \in Rows
      /\ row.attempt_count = 1
      /\ event(e).status \in NormalizedStatus
  BY EventFits DEF WebhookInv, RowFits
<1>2. reference_of(e) = 1 /\ row.reference = 1
  BY DEF Apply, resolves, reference_of, NoReference
<1>3. row' = apply_normalized_status(row, event(e).status, 1)
  BY <1>2 DEF Apply
<1>4. /\ row' \in Rows
      /\ row'.reference = 1
      /\ row'.attempt_count = row.attempt_count
      /\ apply_normalized_status(row', event(e).status, 1) = row'
  BY <1>1, <1>2, <1>3, ApplyReport
<1>5. Written(e, "processed")
  BY Zenon, WriteReceipt DEF Apply, mark_processed, WebhookInv
<1>6. Settles
  BY <1>2, <1>4, <1>5 DEF Settles, Written
<1> QED
  BY <1>1, <1>4, <1>5, <1>6 DEF RowFits

\* A delivery refused before anything is written.
LEMMA RejectKeeps == ASSUME WebhookInv, NEW h \in Handlers, Reject(h) PROVE Keeps
<1>1. UNCHANGED vars
  BY DEF Reject, rejection_recorded, vars
<1> QED
  BY <1>1, QuietSettles DEF Keeps, WebhookInv, vars

\* A delivery whose signature and time stamp are good.
LEMMA AcceptKeeps == ASSUME WebhookInv, NEW h \in Handlers, Accept(h) PROVE Keeps
<1>1. PICK e \in Events, genuine \in {is_genuine(w) : w \in verified} :
        IF is_settled(receipt[e]) THEN Answer(h, e, "duplicate")
        ELSE /\ handler' = [handler EXCEPT ![h] =
                  [at |-> IF receipt[e] = None THEN "insert" ELSE "process",
                   event |-> e, genuine |-> genuine]]
             /\ UNCHANGED told
  BY Zenon DEF Accept
<1>2. UNCHANGED <<row, receipt, aged, worker, untrusted, interruptions>>
  BY DEF Accept
<1>3. HandlerFits(handler', receipt) /\ ToldFits(told', receipt)
  <2>1. CASE is_settled(receipt[e])
    <3>1. receipt[e] # None
      BY <2>1 DEF is_settled, None
    <3> QED
      BY <1>1, <2>1, <3>1, AnswerFits DEF WebhookInv
  <2>2. CASE ~ is_settled(receipt[e])
    <3>1. genuine = TRUE
      BY EventFits, VerifiedIsGenuine DEF WebhookInv
    <3>2. PICK at : at = IF receipt[e] = None THEN "insert" ELSE "process"
      OBVIOUS
    <3>3. handler' = [handler EXCEPT ![h] = [at |-> at, event |-> e, genuine |-> genuine]]
      BY <1>1, <2>2, <3>2
    <3>4. HandlerFits(handler', receipt)
      BY Zenon, <3>1, <3>2, <3>3, HandlerStarts DEF WebhookInv
    <3> QED
      BY <1>1, <2>2, <3>4 DEF WebhookInv
  <2> QED
    BY <2>1, <2>2
<1> QED
  BY <1>2, <1>3, QuietSettles DEF Keeps, WebhookInv

\* The receipt is inserted, or found to exist.
LEMMA InsertReceiptKeeps == ASSUME WebhookInv, NEW h \in Handlers, InsertReceipt(h) PROVE Keeps
<1>1. PICK e : e = handler[h].event
  OBVIOUS
<1>2. e \in Events /\ handler[h].genuine
  BY <1>1 DEF WebhookInv, HandlerFits, InsertReceipt, HandlerAt
<1>3. UNCHANGED <<row, aged, worker, interruptions>>
  BY DEF InsertReceipt
<1>4. CASE receipt[e] = None
  <2>1. /\ receipt' = [receipt EXCEPT ![e] = "received"]
        /\ UNCHANGED <<told, untrusted>>
        /\ handler' = [handler EXCEPT ![h].at = "process"]
    BY <1>1, <1>2, <1>4 DEF InsertReceipt, Go
  <2>2. Written(e, "received")
    BY Zenon, <1>2, <2>1, WriteReceipt DEF WebhookInv
  <2>3. /\ HandlerFits(handler, receipt')
        /\ WorkerFits(worker, receipt')
        /\ ToldFits(told, receipt')
    BY <2>2, OthersFit DEF WebhookInv, Written
  <2>4. HandlerFits(handler', receipt')
    BY Zenon, <1>1, <1>2, <2>1, <2>2, <2>3, HandlerMoves DEF Written, None
  <2>5. Settles
    BY <2>2, QuietSettles DEF Written
  <2> QED
    BY <1>3, <2>1, <2>2, <2>3, <2>4, <2>5 DEF Keeps, WebhookInv, Written
<1>5. CASE receipt[e] # None
  <2>1. Answer(h, e, "raced") /\ UNCHANGED <<receipt, untrusted>>
    BY <1>1, <1>5 DEF InsertReceipt
  <2>2. HandlerFits(handler', receipt) /\ ToldFits(told', receipt)
    BY <1>2, <1>5, <2>1, AnswerFits DEF WebhookInv
  <2> QED
    BY <1>3, <2>1, <2>2, QuietSettles DEF Keeps, WebhookInv
<1> QED
  BY <1>4, <1>5

\* The handler applies its receipt.
LEMMA ProcessReceiptKeeps == ASSUME WebhookInv, NEW h \in Handlers, ProcessReceipt(h) PROVE Keeps
<1>1. PICK e : e = handler[h].event
  OBVIOUS
<1>2. e \in Events /\ receipt[e] # None
  BY <1>1 DEF WebhookInv, HandlerFits, ProcessReceipt, HandlerAt
<1>3. UNCHANGED <<aged, worker, untrusted, interruptions>>
  BY DEF ProcessReceipt
<1>4. CASE Apply(e) /\ Answer(h, e, "processed")
  <2>1. RowFits(row') /\ Written(e, "processed") /\ Settles
    BY <1>2, <1>4, ApplyKeeps
  <2>2. /\ HandlerFits(handler, receipt')
        /\ WorkerFits(worker, receipt')
        /\ ToldFits(told, receipt')
    BY <2>1, OthersFit DEF WebhookInv, Written
  <2>3. HandlerFits(handler', receipt') /\ ToldFits(told', receipt')
    <3>1. receipt'[e] # None
      BY <1>2, <2>1 DEF Written
    <3> QED
      BY <1>2, <1>4, <2>2, <3>1, AnswerFits
  <2> QED
    BY <1>3, <2>1, <2>2, <2>3 DEF Keeps, WebhookInv, Written
<1>5. CASE Go(h, "defer") /\ UNCHANGED <<row, receipt, told>>
  <2>1. HandlerFits(handler', receipt)
    BY Zenon, <1>1, <1>2, <1>5, HandlerMoves DEF WebhookInv, Go
  <2> QED
    BY <1>3, <1>5, <2>1, QuietSettles DEF Keeps, WebhookInv
<1> QED
  BY <1>1, <1>4, <1>5 DEF ProcessReceipt

\* The handler leaves its receipt for later.
LEMMA DeferKeeps == ASSUME WebhookInv, NEW h \in Handlers, Defer(h) PROVE Keeps
<1>1. PICK e : e = handler[h].event
  OBVIOUS
<1>2. e \in Events
  BY <1>1 DEF WebhookInv, HandlerFits, Defer, HandlerAt
<1>3. /\ UNCHANGED <<row, aged, worker, untrusted, interruptions>>
      /\ receipt' = [receipt EXCEPT ![e] = "deferred"]
      /\ Answer(h, e, "deferred")
  BY <1>1 DEF Defer, mark_deferred
<1>4. Written(e, "deferred")
  BY Zenon, <1>2, <1>3, WriteReceipt DEF WebhookInv
<1>5. /\ HandlerFits(handler, receipt')
      /\ WorkerFits(worker, receipt')
      /\ ToldFits(told, receipt')
  BY <1>4, OthersFit DEF WebhookInv, Written
<1>6. HandlerFits(handler', receipt') /\ ToldFits(told', receipt')
  <2>1. receipt'[e] # None
    BY <1>4 DEF Written, None
  <2> QED
    BY Zenon, <1>2, <1>3, <1>5, <2>1, AnswerFits
<1>7. Settles
  BY <1>4, QuietSettles DEF Written
<1> QED
  BY <1>3, <1>4, <1>5, <1>6, <1>7 DEF Keeps, WebhookInv, Written

\* A worker claims a due receipt.
LEMMA ClaimDeferredKeeps == ASSUME WebhookInv, NEW w \in Workers, ClaimDeferred(w) PROVE Keeps
<1>1. UNCHANGED <<row, receipt, aged, handler, told, untrusted, interruptions>>
  BY DEF ClaimDeferred
<1>2. PICK S : S = deferred_receipts
  OBVIOUS
<1>3. S # {} /\ S \in SUBSET Events /\ \A e \in S : receipt[e] # None
  BY <1>2 DEF ClaimDeferred, deferred_receipts, None
<1>4. worker' = [worker EXCEPT ![w].at = "next", ![w].todo = S] /\ WorkerFits(worker, receipt)
  BY <1>2 DEF ClaimDeferred, WebhookInv
<1>5. worker[w] = Resting
  BY DEF ClaimDeferred
<1>6. WorkerFits(worker', receipt)
  BY <1>3, <1>4, <1>5, Zenon DEF WorkerFits, WorkRow, Resting
<1> QED
  BY <1>1, <1>6, QuietSettles DEF Keeps, WebhookInv

\* A worker gives a receipt up.
LEMMA AbandonKeeps == ASSUME WebhookInv, NEW w \in Workers, Abandon(w) PROVE Keeps
<1>1. UNCHANGED <<row, aged, handler, told, untrusted, interruptions>>
  BY DEF Abandon
<1>2. PICK e \in worker[w].todo : /\ receipt' = [receipt EXCEPT ![e] = "abandoned"]
                                  /\ worker' = [worker EXCEPT ![w] = after_receipt(w, e)]
  BY Zenon DEF Abandon
<1>3. e \in Events
  BY DEF WebhookInv, WorkerFits, WorkRow
<1>4. Written(e, "abandoned")
  BY Zenon, <1>2, <1>3, WriteReceipt DEF WebhookInv
<1>5. /\ HandlerFits(handler, receipt')
      /\ WorkerFits(worker, receipt')
      /\ ToldFits(told, receipt')
  BY <1>4, OthersFit DEF WebhookInv, Written
<1>6. WorkerFits(worker', receipt')
  BY Zenon, <1>2, <1>5, AfterReceiptFits
<1>7. Settles
  BY <1>4, QuietSettles DEF Written
<1> QED
  BY <1>1, <1>4, <1>5, <1>6, <1>7 DEF Keeps, WebhookInv, Written

\* A worker applies a receipt.
LEMMA ProcessAgainKeeps == ASSUME WebhookInv, NEW w \in Workers, ProcessAgain(w) PROVE Keeps
<1>1. UNCHANGED <<aged, handler, told, untrusted, interruptions>>
  BY DEF ProcessAgain
<1>2. PICK e \in worker[w].todo :
        \/ Apply(e) /\ worker' = [worker EXCEPT ![w] = after_receipt(w, e)]
        \/ /\ worker' = [worker EXCEPT ![w].at = "defer", ![w].event = e]
           /\ UNCHANGED <<row, receipt>>
  BY Zenon DEF ProcessAgain
<1>3. e \in Events
  BY DEF WebhookInv, WorkerFits, WorkRow
<1>4. CASE Apply(e) /\ worker' = [worker EXCEPT ![w] = after_receipt(w, e)]
  <2>1. RowFits(row') /\ Written(e, "processed") /\ Settles
    BY <1>3, <1>4, ApplyKeeps
  <2>2. /\ HandlerFits(handler, receipt')
        /\ WorkerFits(worker, receipt')
        /\ ToldFits(told, receipt')
    BY <2>1, OthersFit DEF WebhookInv, Written
  <2>3. WorkerFits(worker', receipt')
    BY Zenon, <1>4, <2>2, AfterReceiptFits
  <2> QED
    BY <1>1, <2>1, <2>2, <2>3 DEF Keeps, WebhookInv, Written
<1>5. CASE worker' = [worker EXCEPT ![w].at = "defer", ![w].event = e] /\ UNCHANGED <<row, receipt>>
  <2>1. WorkerFits(worker, receipt)
    BY DEF WebhookInv
  <2>2. WorkerFits(worker', receipt)
    BY ZenonT(40), <1>3, <1>5, <2>1 DEF WorkerFits, WorkRow
  <2> QED
    BY <1>1, <1>5, <2>2, QuietSettles DEF Keeps, WebhookInv
<1> QED
  BY <1>2, <1>4, <1>5

\* A worker puts a receipt back.
LEMMA DeferAgainKeeps == ASSUME WebhookInv, NEW w \in Workers, DeferAgain(w) PROVE Keeps
<1>1. UNCHANGED <<row, aged, handler, told, untrusted, interruptions>>
  BY DEF DeferAgain
<1>2. PICK e : e = worker[w].event
  OBVIOUS
<1>3. e \in worker[w].todo /\ e \in Events
  BY <1>2 DEF WebhookInv, WorkerFits, WorkRow, DeferAgain
<1>4. /\ receipt' = [receipt EXCEPT ![e] = "deferred"]
      /\ worker' = [worker EXCEPT ![w] = after_receipt(w, e)]
  BY <1>2 DEF DeferAgain, mark_deferred
<1>5. Written(e, "deferred")
  BY Zenon, <1>3, <1>4, WriteReceipt DEF WebhookInv
<1>6. /\ HandlerFits(handler, receipt')
      /\ WorkerFits(worker, receipt')
      /\ ToldFits(told, receipt')
  BY <1>5, OthersFit DEF WebhookInv, Written
<1>7. WorkerFits(worker', receipt')
  BY Zenon, <1>3, <1>4, <1>6, AfterReceiptFits
<1>8. Settles
  BY <1>5, QuietSettles DEF Written
<1> QED
  BY <1>1, <1>5, <1>6, <1>7, <1>8 DEF Keeps, WebhookInv, Written

\* The dispatch commits the reference, or somebody else moves the request.
LEMMA RowMovesKeeps == ASSUME WebhookInv, Link \/ Move PROVE Keeps
<1>1. /\ UNCHANGED <<receipt, aged, handler, worker, told, untrusted>>
      /\ interruptions' \in 0 .. MaxInterruptions
  BY MaxInterruptionsAssumption DEF WebhookInv, Link, Move, Interruption
<1>2. row \in Rows /\ row.attempt_count = 1
  BY DEF WebhookInv, RowFits
<1>3. PICK x : x = row
  OBVIOUS
<1>4. \/ row' \in {mark_accepted(x, 1), attach_provider_reference(x, 1)}
      \/ row' \in {mark_cancelled(x), mark_manual_review(x), restore_for_retry(x)}
  BY <1>3, Zenon DEF Link, Move
<1>5. RowFits(row')
  <2>1. CASE row' = mark_accepted(x, 1)
    BY <1>2, <1>3, <2>1, Zenon DEF mark_accepted, RowFits, Rows, Row, RequestStatus
  <2>2. CASE row' = attach_provider_reference(x, 1)
    BY <1>2, <1>3, <2>2, Zenon DEF attach_provider_reference, RowFits, Rows, Row, RequestStatus
  <2>3. CASE row' = mark_cancelled(x)
    BY <1>2, <1>3, <2>3, Zenon DEF mark_cancelled, RowFits, Rows, Row, RequestStatus
  <2>4. CASE row' = mark_manual_review(x)
    BY <1>2, <1>3, <2>4, Zenon DEF mark_manual_review, RowFits, Rows, Row, RequestStatus
  <2>5. CASE row' = restore_for_retry(x)
    BY <1>2, <1>3, <2>5, Zenon DEF restore_for_retry, RowFits, Rows, Row, RequestStatus
  <2> QED
    BY <1>4, <2>1, <2>2, <2>3, <2>4, <2>5
<1> QED
  BY <1>1, <1>5, QuietSettles DEF Keeps, WebhookInv

\* Time passes for a receipt.
LEMMA AgeKeeps == ASSUME WebhookInv, NEW e \in Events, Age(e) PROVE Keeps
<1>1. /\ UNCHANGED <<row, receipt, handler, worker, told, untrusted, interruptions>>
      /\ aged' \subseteq Events
  BY DEF Age, WebhookInv
<1> QED
  BY <1>1, QuietSettles DEF Keeps, WebhookInv

\* The process dies and its handlers and workers with it.
LEMMA CrashKeeps == ASSUME WebhookInv, Crash PROVE Keeps
<1>1. /\ UNCHANGED <<row, receipt, aged, told, untrusted>>
      /\ interruptions' \in 0 .. MaxInterruptions
  BY MaxInterruptionsAssumption DEF WebhookInv, Crash, Interruption
<1>2. HandlerFits(handler', receipt) /\ WorkerFits(worker', receipt)
  BY HandlerRests, WorkerRests, Zenon DEF Crash, WebhookInv
<1> QED
  BY <1>1, <1>2, QuietSettles DEF Keeps, WebhookInv

\* Every step of the webhook service.
LEMMA NextKeeps == ASSUME WebhookInv, [Next]_vars PROVE Keeps
<1>1. CASE \E h \in Handlers : Reject(h) \/ Accept(h) \/ Ingest(h)
  BY <1>1, RejectKeeps, AcceptKeeps, InsertReceiptKeeps, ProcessReceiptKeeps, DeferKeeps, Zenon
     DEF Ingest
<1>2. CASE \E w \in Workers : RunOnce(w)
  BY <1>2, ClaimDeferredKeeps, AbandonKeeps, ProcessAgainKeeps, DeferAgainKeeps, Zenon DEF RunOnce
<1>3. CASE Link \/ Move
  BY <1>3, RowMovesKeeps, Zenon
<1>4. CASE Crash
  BY <1>4, CrashKeeps, Zenon
<1>5. CASE \E e \in Events : Age(e)
  BY <1>5, AgeKeeps, Zenon
<1>6. CASE UNCHANGED vars
  BY <1>6, QuietSettles DEF Keeps, WebhookInv, vars
<1> QED
  BY <1>1, <1>2, <1>3, <1>4, <1>5, <1>6, Zenon DEF Next

\* The service starts with no receipts.
LEMMA InitFits == Init => WebhookInv
<1> SUFFICES ASSUME Init PROVE WebhookInv
  OBVIOUS
<1>1. RowFits(row)
  <2>1. PICK p \in Providers : row = begin_dispatch(begin_validation(create(p)))
    BY Zenon DEF Init
  <2>2. PICK x : x = create(p)
    OBVIOUS
  <2>3. PICK y : y = begin_validation(x)
    OBVIOUS
  <2>4. x \in Rows /\ x.attempt_count = 0
    BY <2>2 DEF create, Rows, Row, RequestStatus
  <2>5. y \in Rows /\ y.attempt_count = 0
    BY <2>3, <2>4, Zenon DEF begin_validation, Rows, Row, RequestStatus
  <2>6. y.attempt_count + 1 = 1 /\ 1 \in Nat
    BY <2>5
  <2>7. row = [y EXCEPT !.status = "dispatching", !.attempt_count = y.attempt_count + 1,
                        !.next_retry_at = FALSE]
    BY <2>1, <2>2, <2>3, Zenon DEF begin_dispatch
  <2> QED
    BY <2>5, <2>6, <2>7, Zenon DEF RowFits, Rows, Row, RequestStatus
<1>2. ReceiptFits(receipt)
  BY DEF Init, ReceiptFits, ReceiptStatus, None
<1>3. HandlerFits(handler, receipt)
  BY Zenon DEF Init, HandlerFits, Idle
<1>4. WorkerFits(worker, receipt)
  BY Zenon DEF Init, WorkerFits, WorkRow, Resting
<1>5. ToldFits(told, receipt)
  BY Zenon DEF Init, ToldFits
<1>6. 0 \in 0 .. MaxInterruptions
  BY MaxInterruptionsAssumption
<1> QED
  BY <1>1, <1>2, <1>3, <1>4, <1>5, <1>6, Zenon DEF Init, WebhookInv

-----------------------------------------------------------------------------
(***************************************************************************)
(* However deliveries, handlers, workers and crashes interleave, rows,     *)
(* receipts and the tasks that hold them fit together.                     *)
(***************************************************************************)
THEOREM WebhookInvariant == Spec => []WebhookInv
<1>1. WebhookInv /\ [Next]_vars => WebhookInv'
  BY NextKeeps, Zenon DEF Keeps
<1> QED
  BY InitFits, <1>1, PTL DEF Spec

\* Every variable of the ingestion and of its worker stays in its range.
THEOREM WebhookTypeCorrect == Spec => []TypeOK
<1>1. WebhookInv => TypeOK
  BY Zenon DEF WebhookInv, TypeOK, RowFits, Rows, ReceiptFits, HandlerFits, WorkerFits, WorkRow, ToldFits
<1> QED
  BY <1>1, WebhookInvariant, PTL

\* IngestWebhookUseCase answers 2xx only for an event that has a receipt of its own.
THEOREM WebhookAcknowledgedIsRecorded == Spec => []AcknowledgedIsRecorded
<1>1. WebhookInv => AcknowledgedIsRecorded
  BY DEF WebhookInv, AcknowledgedIsRecorded, ReceiptFits, ToldFits
<1> QED
  BY <1>1, WebhookInvariant, PTL

\* No delivery outside the replay window or with another signature makes a receipt.
THEOREM WebhookOnlyGenuineEventsAct == Spec => []OnlyGenuineEventsAct
<1>1. WebhookInv => OnlyGenuineEventsAct
  BY DEF WebhookInv, OnlyGenuineEventsAct
<1> QED
  BY <1>1, WebhookInvariant, PTL

\* process_receipt settles a receipt in the transaction that brings its request up to date.
THEOREM WebhookProcessedWithItsRequest == Spec => ProcessedWithItsRequest
<1>1. WebhookInv /\ [Next]_vars => Settles
  BY NextKeeps, Zenon DEF Keeps
<1>2. Spec => [][Settles]_vars
  BY <1>1, WebhookInvariant, PTL DEF Spec
<1> QED
  BY <1>2 DEF ProcessedWithItsRequest, Settles
=============================================================================
