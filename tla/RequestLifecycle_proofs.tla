---------------------- MODULE RequestLifecycle_proofs ----------------------
(***************************************************************************)
(* Proofs about RequestLifecycle for every number of attempts, operator    *)
(* retries, webhooks, reconcilers and cancellers.                          *)
(***************************************************************************)
EXTENDS RequestLifecycle, TLAPS

Rows == Row(Providers, Attempts)

(***************************************************************************)
(* The inductive invariant.  What the properties need beyond themselves:   *)
(***************************************************************************)

\* A row waiting for its retry has an attempt left to make.
RetryHasRoom ==
  row.status = "retry_scheduled" => row.attempt_count < MaxAttempts + operator_retries

\* Until its first dispatch nobody but a local cancellation touches the row.
NotStarted ==
  row.status = "received" \/ pending_dispatch =>
    /\ row.status \in {"received", "cancelled"}
    /\ row.attempt_count = 0
    /\ row.reference = NoReference
    /\ \A n \in Attempts : call[n] = "idle"
    /\ \A r \in Reconcilers : ~ recon[r].busy
    /\ \A c \in Cancellers : cancel[c] = NoReference

\* validating is passed through inside dispatch() and never committed.
NeverValidating == row.status # "validating"

\* The provider takes no outcome back, so what a receipt reports stays true.
ReceiptsAreTrue ==
  \A e \in Event :
    receipt[e] # "none" /\ e.status \in {"succeeded", "failed", "cancelled"} =>
      op[e.reference] = e.status

IInv ==
  /\ TypeOK
  /\ RetriesBounded
  /\ RetryHasRoom
  /\ NotStarted
  /\ NeverValidating
  /\ TimestampsAgree
  /\ SuccessIsTheProviders
  /\ DispatchingHasOwner
  /\ ReceiptsAreTrue

-----------------------------------------------------------------------------
(***************************************************************************)
(* Lemmas about the row operators.                                         *)
(***************************************************************************)

\* Attempt numbers and references are natural numbers, and 1 is an attempt.
LEMMA AttemptsType ==
  /\ 1 \in Attempts
  /\ Attempts \subseteq Nat
  /\ NoReference \notin Attempts
  /\ \A n \in Nat : n < MaxAttempts + MaxOperatorRetries => n + 1 \in Attempts
  BY MaxAttemptsAssumption, MaxOperatorRetriesAssumption DEF Attempts, NoReference

\* x is r after one legal forward move that a provider report s about ref justifies.
MovedOn(r, x, s, ref) ==
  /\ x \in Rows
  /\ x.provider = r.provider
  /\ x.attempt_count = r.attempt_count
  /\ r.status \notin Terminal
  /\ can_transition(r.status, x.status)
  /\ x.reference # NoReference
  /\ x.reference \in {r.reference, ref}
  /\ \/ /\ x.status \in {"succeeded", "failed", "cancelled"}
        /\ x.status = s
        /\ x.status = "succeeded" => x.reference = ref
        /\ x.completed_at = TRUE
        /\ x.next_retry_at = FALSE
     \/ /\ x.status = "pending"
        /\ r.status = "dispatching"
        /\ x.completed_at = r.completed_at
        /\ x.next_retry_at = r.next_retry_at

\* A provider report applied to a row changes nothing or makes one legal forward move.
LEMMA ApplyNormalizedStatus ==
  ASSUME NEW r \in Rows, NEW s \in NormalizedStatus, NEW ref \in Attempts
  PROVE  \/ apply_normalized_status(r, s, ref) = r
         \/ MovedOn(r, apply_normalized_status(r, s, ref), s, ref)
<1> DEFINE x == apply_normalized_status(r, s, ref)
           linked == [r EXCEPT !.reference = IF r.reference = NoReference
                                             THEN ref ELSE r.reference]
<1>1. /\ linked \in Rows
      /\ linked.reference # NoReference
      /\ linked.reference \in {r.reference, ref}
      /\ linked.provider = r.provider
      /\ linked.attempt_count = r.attempt_count
      /\ linked.completed_at = r.completed_at
      /\ linked.next_retry_at = r.next_retry_at
  BY AttemptsType DEF Rows, Row
<1> HIDE DEF x, linked
<1> SUFFICES x # r => MovedOn(r, x, s, ref)
  BY DEF x
<1>2. CASE x # r
  <2>1. /\ is_forward_progress(r.status, project_normalized_status(s))
        /\ project_normalized_status(s) # NoStatus
    BY <1>2 DEF x, apply_normalized_status
  <2>2. CASE s = "succeeded"
    <3>1. x = mark_succeeded(linked, ref)
      BY <1>2, <2>2 DEF x, linked, apply_normalized_status, project_normalized_status
    <3> QED
      BY Zenon, <2>1, <2>2, <3>1, <1>1, AttemptsType
         DEF MovedOn, mark_succeeded, Rows, Row, RequestStatus, is_forward_progress,
             project_normalized_status
  <2>3. CASE s = "failed"
    <3>1. x = mark_failed(linked)
      BY <1>2, <2>3 DEF x, linked, apply_normalized_status, project_normalized_status
    <3> QED
      BY Zenon, <2>1, <2>3, <3>1, <1>1
         DEF MovedOn, mark_failed, Rows, Row, RequestStatus, is_forward_progress,
             project_normalized_status
  <2>4. CASE s = "cancelled"
    <3>1. x = mark_cancelled(linked)
      BY <1>2, <2>4 DEF x, linked, apply_normalized_status, project_normalized_status
    <3> QED
      BY Zenon, <2>1, <2>4, <3>1, <1>1
         DEF MovedOn, mark_cancelled, Rows, Row, RequestStatus, is_forward_progress,
             project_normalized_status
  <2>5. CASE s \in {"accepted", "pending"}
    <3>1. x = mark_accepted(linked, ref)
      BY <1>2, <2>5, AttemptsType DEF x, linked, apply_normalized_status, project_normalized_status
    <3>2. r.status = "dispatching"
      BY <2>1, <2>5
         DEF is_forward_progress, can_transition, project_normalized_status, TRANSITIONS,
             Rows, Row, RequestStatus
    <3> QED
      BY Zenon, <2>1, <2>5, <3>1, <3>2, <1>1, AttemptsType
         DEF MovedOn, mark_accepted, Rows, Row, RequestStatus, is_forward_progress,
             project_normalized_status
  <2>6. CASE s = "unknown"
    BY <2>1, <2>6 DEF project_normalized_status
  <2> QED
    BY <2>2, <2>3, <2>4, <2>5, <2>6 DEF NormalizedStatus
<1> QED
  BY <1>2

\* A create call ends in an acceptance, whose success the provider's state backs, or an error.
LEMMA ResultType ==
  ASSUME TypeOK, NEW n \in Attempts, NEW result \in Acceptances(n) \union Errors
  PROVE  /\ result.accepted \in BOOLEAN
         /\ result.reference \in References
         /\ result.accepted => /\ result.status \in NormalizedStatus
                               /\ result.status = "succeeded" =>
                                    /\ result.reference \in Attempts
                                    /\ op[result.reference] = "succeeded"
         /\ ~ result.accepted => result.status \in {"timeout", "transient", "permanent"}
<1>1. CASE result \in Errors
  <2>1. PICK e \in {"timeout", "transient", "permanent"} :
          result = [accepted |-> FALSE, status |-> e, reference |-> NoReference]
    BY <1>1 DEF Errors
  <2> QED
    BY <2>1 DEF References
<1>2. CASE result \in Acceptances(n)
  <2>1. OperationOf(n) \in Attempts
    BY AttemptsType DEF OperationOf
  <2>2. CASE result = [accepted |-> TRUE, status |-> "accepted", reference |-> NoReference]
    BY <2>2 DEF References, NormalizedStatus
  <2>3. CASE \E s \in Reports(OperationOf(n)) :
               result = [accepted |-> TRUE, status |-> create_status(s),
                         reference |-> OperationOf(n)]
    <3>1. PICK s \in Reports(OperationOf(n)) :
               result = [accepted |-> TRUE, status |-> create_status(s),
                         reference |-> OperationOf(n)]
      BY Zenon, <2>3
    <3>2. s \in NormalizedStatus /\ (s = "succeeded" => op[OperationOf(n)] = "succeeded")
      BY <2>1, <3>1 DEF Reports, TypeOK, OpState, NormalizedStatus
    <3>3. create_status(s) \in NormalizedStatus /\ (create_status(s) = "succeeded" => s = "succeeded")
      BY <3>2 DEF create_status, NormalizedStatus
    <3> QED
      BY <2>1, <3>1, <3>2, <3>3 DEF References
  <2> QED
    BY <1>2, <2>2, <2>3 DEF Acceptances
<1> QED
  BY <1>1, <1>2

\* x is a row an attempt found dispatching, after its settle transaction.
Settled(x) ==
  /\ x \in Rows
  /\ x.attempt_count = row.attempt_count
  /\ can_transition("dispatching", x.status)
  /\ x.next_retry_at <=> x.status = "retry_scheduled"
  /\ x.status = "retry_scheduled" => x.attempt_count < MaxAttempts
  /\ x.status = "pending" => x.reference # NoReference
  /\ x.completed_at <=> x.status \in {"succeeded", "failed", "cancelled"}
  /\ x.status = "succeeded" => x.reference \in Attempts /\ op[x.reference] = "succeeded"

\* The settle transaction moves a dispatching row on, whatever the result.
LEMMA SettleDispatching ==
  ASSUME TypeOK, TimestampsAgree, row.status = "dispatching",
         NEW n \in Attempts, NEW result \in Acceptances(n) \union Errors
  PROVE  Settled(settled_row(result))
<1>1. row \in Rows /\ row.next_retry_at = FALSE /\ row.completed_at = FALSE
  BY DEF TypeOK, TimestampsAgree, Rows, Row
<1>2. CASE result.accepted
  <2>1. settled_row(result) = apply_acceptance(row, result)
    BY <1>2 DEF settled_row
  <2>2. CASE result.status = "succeeded"
    <3>1. apply_acceptance(row, result) = mark_succeeded(row, result.reference)
      BY <2>2 DEF apply_acceptance
    <3>2. /\ result.reference \in Attempts
          /\ result.reference # NoReference
          /\ op[result.reference] = "succeeded"
      BY <1>2, <2>2, ResultType, AttemptsType
    <3> DEFINE x == mark_succeeded(row, result.reference)
    <3>3. /\ x \in Rows
          /\ x.status = "succeeded"
          /\ x.reference = result.reference
          /\ x.attempt_count = row.attempt_count
          /\ x.next_retry_at = FALSE
          /\ x.completed_at = TRUE
      BY Zenon, <1>1, <3>2 DEF mark_succeeded, Rows, Row, RequestStatus
    <3> HIDE DEF x
    <3>4. Settled(x)
      BY <3>2, <3>3 DEF Settled, can_transition, TRANSITIONS
    <3> QED
      BY <2>1, <3>1, <3>4 DEF x
  <2>3. CASE result.status \in {"accepted", "pending"} /\ result.reference # NoReference
    <3>1. apply_acceptance(row, result) = mark_accepted(row, result.reference)
      BY <2>3 DEF apply_acceptance
    <3>2. result.reference \in Attempts
      BY <2>3, ResultType DEF References
    <3> DEFINE x == mark_accepted(row, result.reference)
    <3>3. /\ x \in Rows
          /\ x.status = "pending"
          /\ x.reference # NoReference
          /\ x.attempt_count = row.attempt_count
          /\ x.next_retry_at = FALSE
          /\ x.completed_at = FALSE
      BY Zenon, <1>1, <2>3, <3>2 DEF mark_accepted, Rows, Row, RequestStatus
    <3> HIDE DEF x
    <3>4. Settled(x)
      BY <3>3 DEF Settled, can_transition, TRANSITIONS
    <3> QED
      BY <2>1, <3>1, <3>4 DEF x
  <2>4. CASE \/ result.status \in {"accepted", "pending"} /\ result.reference = NoReference
             \/ result.status \in {"failed", "unknown"}
    <3>1. apply_acceptance(row, result) = mark_manual_review(row)
      BY <2>4 DEF apply_acceptance
    <3> QED
      BY ZenonT(40), <1>1, <2>1, <3>1
         DEF mark_manual_review, Settled, Rows, Row, RequestStatus, can_transition, TRANSITIONS
  <2>5. CASE result.status = "cancelled"
    BY Zenon, <1>1, <2>1, <2>5
       DEF apply_acceptance, mark_cancelled, Settled, Rows, Row, RequestStatus, can_transition,
           TRANSITIONS
  <2> QED
    BY <1>2, <2>2, <2>3, <2>4, <2>5, ResultType DEF NormalizedStatus
<1>3. CASE ~ result.accepted
  <2>1. settled_row(result) = apply_failure(row, result.status)
    BY <1>3 DEF settled_row
  <2>2. CASE should_retry(row.attempt_count, result.status)
    BY ZenonT(40), <1>1, <2>1, <2>2
       DEF apply_failure, should_retry, has_attempts_remaining, schedule_retry, Settled, Rows,
           Row, RequestStatus, can_transition, TRANSITIONS
  <2>3. CASE ~ should_retry(row.attempt_count, result.status) /\ result.status = "timeout"
    BY ZenonT(40), <1>1, <2>1, <2>3
       DEF apply_failure, mark_manual_review, Settled, Rows, Row, RequestStatus,
           can_transition, TRANSITIONS
  <2>4. CASE ~ should_retry(row.attempt_count, result.status) /\ result.status # "timeout"
    BY ZenonT(40), <1>1, <2>1, <2>4
       DEF apply_failure, mark_failed, Settled, Rows, Row, RequestStatus, can_transition,
           TRANSITIONS
  <2> QED
    BY <2>2, <2>3, <2>4
<1> QED
  BY <1>2, <1>3, ResultType

\* A superseded outcome adds a missing reference or changes nothing.
LEMMA SettleSuperseded ==
  ASSUME TypeOK, row.status # "dispatching",
         NEW n \in Attempts, NEW result \in Acceptances(n) \union Errors
  PROVE  LET x == settled_row(result)
         IN  \/ x = row
             \/ /\ row.reference = NoReference
                /\ x.reference \in Attempts
                /\ x = attach_provider_reference(row, x.reference)
<1>1. CASE result.reference # NoReference /\ row.reference = NoReference
  <2>1. settled_row(result) = attach_provider_reference(row, result.reference)
    BY <1>1 DEF settled_row, record_superseded
  <2>2. attach_provider_reference(row, result.reference).reference = result.reference
    BY DEF attach_provider_reference, TypeOK, Row
  <2>3. result.reference \in Attempts
    BY <1>1, ResultType DEF References
  <2> QED
    BY <1>1, <2>1, <2>2, <2>3
<1>2. CASE ~ (result.reference # NoReference /\ row.reference = NoReference)
  BY <1>2 DEF settled_row, record_superseded
<1> QED
  BY <1>1, <1>2

-----------------------------------------------------------------------------
(***************************************************************************)
(* The invariant is inductive.  One lemma per group of actions.            *)
(***************************************************************************)

\* The initial states satisfy the invariant.
LEMMA InitIInv == Init => IInv
<1> SUFFICES ASSUME Init PROVE IInv
  OBVIOUS
<1> PICK p \in Providers : row = create(p)
  BY DEF Init
<1>1. row \in Rows
  BY DEF create, Rows, Row, RequestStatus
<1>2. TypeOK
  BY <1>1, MaxOperatorRetriesAssumption
     DEF Init, TypeOK, Rows, CallPhase, OpState, ReceiptStatus, References, idle
<1>3. RetriesBounded /\ RetryHasRoom
  BY MaxAttemptsAssumption DEF Init, RetriesBounded, RetryHasRoom, create
<1>4. NotStarted /\ NeverValidating
  BY DEF Init, NotStarted, NeverValidating, create, idle
<1>5. TimestampsAgree /\ SuccessIsTheProviders /\ DispatchingHasOwner
  BY DEF TimestampsAgree, SuccessIsTheProviders, DispatchingHasOwner, create
<1>6. ReceiptsAreTrue
  BY DEF Init, ReceiptsAreTrue
<1> QED
  BY <1>2, <1>3, <1>4, <1>5, <1>6 DEF IInv

\* Claiming a row that has room for one more attempt keeps the invariant.
LEMMA ClaimStep ==
  ASSUME IInv, NEW r \in Rows, claim_for_dispatch(r),
         r.attempt_count = row.attempt_count, r.provider = row.provider,
         r.reference = row.reference, r.completed_at = FALSE,
         r.attempt_count < MaxAttempts + operator_retries,
         pending_dispatch' = FALSE,
         UNCHANGED <<operator_retries, op, receipt, recon, cancel>>
  PROVE  IInv'
<1> DEFINE n == r.attempt_count + 1
<1>1. n \in Attempts /\ n \in Nat /\ n > 0 /\ n <= MaxAttempts + operator_retries
  BY AttemptsType, MaxAttemptsAssumption, MaxOperatorRetriesAssumption
     DEF Rows, Row, IInv, TypeOK
<1>2. /\ row' \in Rows
      /\ row'.status = "dispatching"
      /\ row'.attempt_count = n
      /\ row'.next_retry_at = FALSE
      /\ row'.completed_at = FALSE
  BY Zenon, <1>1 DEF claim_for_dispatch, begin_dispatch, Rows, Row, RequestStatus
<1>3. call' = [call EXCEPT ![n] = "calling"] /\ wire' = wire \union {n}
  BY DEF claim_for_dispatch
<1> HIDE DEF n
<1>4. TypeOK'
  BY Zenon, <1>1, <1>2, <1>3 DEF IInv, TypeOK, Rows, CallPhase
<1>5. RetriesBounded' /\ RetryHasRoom' /\ NotStarted' /\ NeverValidating'
  BY <1>1, <1>2 DEF RetriesBounded, RetryHasRoom, NotStarted, NeverValidating
<1>6. TimestampsAgree' /\ SuccessIsTheProviders'
  BY <1>2 DEF TimestampsAgree, SuccessIsTheProviders
<1>7. DispatchingHasOwner'
  BY <1>1, <1>2, <1>3 DEF DispatchingHasOwner, IInv, TypeOK
<1>8. ReceiptsAreTrue'
  BY DEF ReceiptsAreTrue, IInv
<1> QED
  BY <1>4, <1>5, <1>6, <1>7, <1>8 DEF IInv

\* dispatch() and the retry worker's claim.
LEMMA DispatchStep == IInv /\ (Dispatch \/ ClaimDueForRetry) => IInv'
<1> SUFFICES ASSUME IInv, Dispatch \/ ClaimDueForRetry PROVE IInv'
  OBVIOUS
<1>1. CASE ClaimDueForRetry
  <2>1. /\ row \in Rows
        /\ row.completed_at = FALSE
        /\ row.attempt_count < MaxAttempts + operator_retries
        /\ pending_dispatch = FALSE
    BY <1>1 DEF ClaimDueForRetry, IInv, TypeOK, TimestampsAgree, RetryHasRoom, NotStarted,
                Rows, Row
  <2> QED
    BY Zenon, <1>1, <2>1, ClaimStep DEF ClaimDueForRetry
<1>2. CASE Dispatch
  <2>1. row \in Rows /\ row.status \in {"received", "cancelled"} /\ row.attempt_count = 0
    BY <1>2 DEF Dispatch, IInv, TypeOK, NotStarted, Rows
  <2>2. CASE row.status = "received"
    <3> DEFINE ready == begin_validation(row)
    <3>1. /\ ready \in Rows
          /\ ready.status = "validating"
          /\ ready.attempt_count = row.attempt_count
          /\ ready.provider = row.provider
          /\ ready.reference = row.reference
          /\ ready.completed_at = FALSE
      BY <2>1, <2>2 DEF begin_validation, Rows, Row, RequestStatus, IInv, TimestampsAgree
    <3>2. claim_for_dispatch(ready)
      BY <1>2, <2>2, <3>1 DEF Dispatch, can_transition, TRANSITIONS
    <3>3. ready.attempt_count < MaxAttempts + operator_retries
      BY <2>1, <3>1, MaxAttemptsAssumption DEF IInv, TypeOK
    <3> HIDE DEF ready
    <3> QED
      BY Zenon, <1>2, <3>1, <3>2, <3>3, ClaimStep DEF Dispatch
  <2>3. CASE row.status = "cancelled"
    <3>1. UNCHANGED <<row, operator_retries, call, wire, op, receipt, recon, cancel>>
      BY <1>2, <2>3 DEF Dispatch, can_transition, TRANSITIONS
    <3>2. pending_dispatch' = FALSE
      BY <1>2 DEF Dispatch
    <3> QED
      BY Zenon, <2>3, <3>1, <3>2
         DEF IInv, TypeOK, RetriesBounded, RetryHasRoom, NotStarted, NeverValidating,
             TimestampsAgree, SuccessIsTheProviders, DispatchingHasOwner, ReceiptsAreTrue
  <2> QED
    BY <2>1, <2>2, <2>3
<1> QED
  BY <1>1, <1>2

\* The settle transaction, for the attempt the row is on or for an older one.
LEMMA CompleteStep == ASSUME IInv, NEW n \in Attempts, CompleteAttempt(n) PROVE IInv'
<1> PICK result \in Acceptances(n) \union Errors :
      row' = settled_row(result) /\ wire' = IF answers_create(result) THEN wire \ {n} ELSE wire
  BY DEF CompleteAttempt
<1>1. /\ call[n] = "calling"
      /\ call' = [call EXCEPT ![n] = "settled"]
      /\ UNCHANGED <<pending_dispatch, operator_retries, op, receipt, recon, cancel>>
  BY DEF CompleteAttempt
<1>2. row.status # "received" /\ ~ pending_dispatch
  BY <1>1 DEF IInv, NotStarted
<1>3. ReceiptsAreTrue'
  BY <1>1 DEF IInv, ReceiptsAreTrue
<1>4. CASE row.status = "dispatching"
  <2>1. Settled(row')
    BY <1>4, SettleDispatching DEF IInv
  <2>2. TypeOK'
    BY <1>1, <2>1 DEF IInv, TypeOK, Settled, Rows, CallPhase
  <2>3. row'.status \notin {"received", "validating", "dispatching"}
    BY <2>1 DEF Settled, can_transition, TRANSITIONS
  <2>4. RetriesBounded' /\ RetryHasRoom'
    BY <1>1, <2>1, MaxAttemptsAssumption
       DEF IInv, TypeOK, RetriesBounded, RetryHasRoom, Settled, Rows, Row
  <2>5. NotStarted' /\ NeverValidating' /\ DispatchingHasOwner'
    BY <1>1, <1>2, <2>3 DEF NotStarted, NeverValidating, DispatchingHasOwner
  <2>6. TimestampsAgree'
    BY <2>1 DEF Settled, TimestampsAgree
  <2>7. SuccessIsTheProviders'
    BY <1>1, <2>1, AttemptsType DEF Settled, SuccessIsTheProviders
  <2> QED
    BY <1>3, <2>2, <2>4, <2>5, <2>6, <2>7 DEF IInv
<1>5. CASE row.status # "dispatching"
  <2>1. /\ row' \in Rows
        /\ row'.status = row.status
        /\ row'.attempt_count = row.attempt_count
        /\ row'.next_retry_at = row.next_retry_at
        /\ row'.completed_at = row.completed_at
        /\ row.reference # NoReference => row'.reference = row.reference
    BY <1>5, SettleSuperseded DEF attach_provider_reference, IInv, TypeOK, Rows, Row
  <2>2. TypeOK'
    BY <1>1, <2>1 DEF IInv, TypeOK, Rows, CallPhase
  <2>3. RetriesBounded' /\ RetryHasRoom'
    BY <1>1, <2>1 DEF IInv, RetriesBounded, RetryHasRoom
  <2>4. NotStarted' /\ NeverValidating' /\ DispatchingHasOwner'
    BY <1>1, <1>2, <1>5, <2>1 DEF IInv, NotStarted, NeverValidating, DispatchingHasOwner
  <2>5. TimestampsAgree'
    BY <2>1 DEF IInv, TimestampsAgree
  <2>6. SuccessIsTheProviders'
    BY <1>1, <2>1 DEF IInv, SuccessIsTheProviders
  <2> QED
    BY <1>3, <2>2, <2>3, <2>4, <2>5, <2>6 DEF IInv
<1> QED
  BY <1>4, <1>5

\* A crash leaves the row as it is; the attempt keeps owning it.
LEMMA CrashStep == IInv /\ Crashing => IInv'
<1> SUFFICES ASSUME IInv, Crashing PROVE IInv'
  OBVIOUS
<1> USE DEF RetriesBounded, RetryHasRoom, NeverValidating, TimestampsAgree,
            SuccessIsTheProviders, ReceiptsAreTrue
<1>1. CASE CrashBeforeDispatch
  BY Zenon, <1>1 DEF CrashBeforeDispatch, IInv, TypeOK, NotStarted, DispatchingHasOwner
<1>2. ASSUME NEW n \in Attempts, CrashInCall(n) PROVE IInv'
  <2>1. TypeOK'
    BY <1>2 DEF CrashInCall, IInv, TypeOK, CallPhase
  <2>2. NotStarted'
    BY <1>2 DEF CrashInCall, IInv, NotStarted
  <2>3. DispatchingHasOwner'
    BY <1>2 DEF CrashInCall, IInv, TypeOK, DispatchingHasOwner
  <2> QED
    BY <1>2, <2>1, <2>2, <2>3 DEF CrashInCall, IInv
<1> QED
  BY <1>1, <1>2 DEF Crashing

\* Moving a started row to a status nobody dispatches from, with consistent timestamps.
LEMMA RestStep ==
  ASSUME IInv, row' \in Rows, row'.attempt_count = row.attempt_count,
         row'.status \notin {"received", "validating", "dispatching", "retry_scheduled"},
         NotStarted', TimestampsAgree', SuccessIsTheProviders',
         receipt' \in [Event -> ReceiptStatus],
         recon' \in [Reconcilers -> [busy : BOOLEAN, reference : References]],
         cancel' \in [Cancellers -> References],
         \A e \in Event : receipt'[e] # "none" => receipt[e] # "none",
         UNCHANGED <<pending_dispatch, operator_retries, call, wire, op>>
  PROVE  IInv'
<1>1. TypeOK'
  BY DEF IInv, TypeOK, Rows
<1>2. RetriesBounded' /\ RetryHasRoom' /\ NeverValidating' /\ DispatchingHasOwner'
  BY DEF IInv, RetriesBounded, RetryHasRoom, NeverValidating, DispatchingHasOwner
<1>3. ReceiptsAreTrue'
  BY DEF IInv, ReceiptsAreTrue
<1> QED
  BY <1>1, <1>2, <1>3 DEF IInv

\* Steps that leave the row alone and disturb only the bookkeeping around it.
LEMMA QuietStep ==
  ASSUME IInv, NotStarted', ReceiptsAreTrue',
         wire' \subseteq Attempts,
         receipt' \in [Event -> ReceiptStatus],
         recon' \in [Reconcilers -> [busy : BOOLEAN, reference : References]],
         cancel' \in [Cancellers -> References],
         UNCHANGED <<row, pending_dispatch, operator_retries, call, op>>
  PROVE  IInv'
<1>1. TypeOK'
  BY DEF IInv, TypeOK
<1> QED
  BY <1>1 DEF IInv, RetriesBounded, RetryHasRoom, NeverValidating, TimestampsAgree,
              SuccessIsTheProviders, DispatchingHasOwner

\* Operator retry and cancellation.
LEMMA OperateStep == IInv /\ Operating => IInv'
<1> SUFFICES ASSUME IInv, Operating PROVE IInv'
  OBVIOUS
<1> row \in Rows
  BY DEF IInv, TypeOK, Rows
<1>1. CASE RetryRequest
  <2>1. /\ row' \in Rows
        /\ row'.status = "retry_scheduled"
        /\ row'.attempt_count = row.attempt_count
        /\ row'.next_retry_at = TRUE
        /\ row'.completed_at = FALSE
    BY Zenon, <1>1 DEF RetryRequest, restore_for_retry, Rows, Row, RequestStatus
  <2>2. operator_retries' = operator_retries + 1 /\ operator_retries' \in 0 .. MaxOperatorRetries
    BY <1>1, MaxOperatorRetriesAssumption DEF RetryRequest, IInv, TypeOK
  <2>3. TypeOK'
    BY <1>1, <2>1, <2>2 DEF RetryRequest, IInv, TypeOK, Rows
  <2>4. RetriesBounded' /\ RetryHasRoom'
    BY <2>1, <2>2, MaxAttemptsAssumption
       DEF IInv, TypeOK, RetriesBounded, RetryHasRoom, Rows, Row
  <2>5. ~ pending_dispatch'
    BY <1>1 DEF RetryRequest, IInv, NotStarted, MANUALLY_RETRYABLE_STATUSES
  <2>6. NotStarted' /\ NeverValidating' /\ DispatchingHasOwner' /\ SuccessIsTheProviders'
    BY <2>1, <2>5 DEF NotStarted, NeverValidating, DispatchingHasOwner, SuccessIsTheProviders
  <2>7. TimestampsAgree' /\ ReceiptsAreTrue'
    BY <1>1, <2>1 DEF RetryRequest, IInv, TimestampsAgree, ReceiptsAreTrue
  <2> QED
    BY <2>3, <2>4, <2>6, <2>7 DEF IInv
<1>2. ASSUME row' = mark_cancelled(row)
      PROVE  /\ row' \in Rows
             /\ row'.status = "cancelled"
             /\ row'.attempt_count = row.attempt_count
             /\ row'.reference = row.reference
             /\ TimestampsAgree'
             /\ SuccessIsTheProviders'
  <2>1. /\ row' \in Rows
        /\ row'.status = "cancelled"
        /\ row'.attempt_count = row.attempt_count
        /\ row'.reference = row.reference
        /\ row'.next_retry_at = FALSE
        /\ row'.completed_at = TRUE
    BY Zenon, <1>2 DEF mark_cancelled, Rows, Row, RequestStatus
  <2> QED
    BY <2>1 DEF TimestampsAgree, SuccessIsTheProviders
<1>3. CASE CancelLocally
  <2>1. row' = mark_cancelled(row) /\ row.reference = NoReference
    BY <1>3 DEF CancelLocally
  <2>2. UNCHANGED <<pending_dispatch, operator_retries, call, wire, op, receipt, recon, cancel>>
    BY <1>3 DEF CancelLocally
  <2>3. NotStarted'
    BY <1>2, <2>1, <2>2 DEF IInv, NotStarted
  <2> QED
    BY <1>2, <2>1, <2>2, <2>3, RestStep DEF IInv, TypeOK
<1>4. ASSUME NEW c \in Cancellers, CancelAtProvider(c) PROVE IInv'
  <2>1. cancel' \in [Cancellers -> References]
    BY <1>4 DEF CancelAtProvider, IInv, TypeOK, Rows, Row, References
  <2>2. row.status # "received" /\ ~ pending_dispatch
    BY <1>4 DEF CancelAtProvider, IInv, NotStarted
  <2>3. NotStarted' /\ ReceiptsAreTrue'
    BY <1>4, <2>2 DEF CancelAtProvider, IInv, NotStarted, ReceiptsAreTrue
  <2> QED
    BY <1>4, <2>1, <2>3, QuietStep DEF CancelAtProvider, IInv, TypeOK
<1>5. ASSUME NEW c \in Cancellers, SettleCancellation(c) PROVE IInv'
  <2>1. cancel' \in [Cancellers -> References]
    BY <1>5 DEF SettleCancellation, IInv, TypeOK, References
  <2>2. row.status # "received" /\ ~ pending_dispatch
    BY SMTT(30), <1>5 DEF SettleCancellation, IInv, NotStarted
  <2>3. CASE row' = row
    <3>1. NotStarted' /\ ReceiptsAreTrue'
      BY <1>5, <2>2, <2>3 DEF SettleCancellation, IInv, NotStarted, ReceiptsAreTrue
    <3> QED
      BY SMTT(30), <1>5, <2>1, <2>3, <3>1, QuietStep DEF SettleCancellation, IInv, TypeOK
  <2>4. CASE row' = mark_cancelled(row)
    <3>1. UNCHANGED <<pending_dispatch, operator_retries, call, wire, op, receipt, recon>>
      BY <1>5 DEF SettleCancellation
    <3>2. /\ receipt' \in [Event -> ReceiptStatus]
          /\ recon' \in [Reconcilers -> [busy : BOOLEAN, reference : References]]
          /\ \A e \in Event : receipt'[e] # "none" => receipt[e] # "none"
      BY <3>1 DEF IInv, TypeOK
    <3>3. NotStarted'
      BY <1>2, <2>2, <2>4, <3>1 DEF NotStarted
    <3> QED
      BY <1>2, <2>1, <2>4, <3>1, <3>2, <3>3, RestStep
  <2> QED
    BY <1>5, <2>3, <2>4 DEF SettleCancellation
<1> QED
  BY <1>1, <1>3, <1>4, <1>5 DEF Operating

\* A row a true provider report moved on has consistent timestamps and a real success.
LEMMA MovedOnFacts ==
  ASSUME IInv, NEW s \in NormalizedStatus, NEW ref \in Attempts, MovedOn(row, row', s, ref),
         s = "succeeded" => op[ref] = "succeeded", op' = op
  PROVE  /\ row' \in Rows
         /\ row'.attempt_count = row.attempt_count
         /\ row'.status \notin {"received", "validating", "dispatching", "retry_scheduled"}
         /\ TimestampsAgree'
         /\ SuccessIsTheProviders'
<1>1. SuccessIsTheProviders'
  BY AttemptsType DEF MovedOn, SuccessIsTheProviders
<1>2. CASE row'.status = "pending"
  <2>1. row.next_retry_at = FALSE /\ row.completed_at = FALSE
    BY <1>2 DEF MovedOn, IInv, TypeOK, TimestampsAgree, Rows, Row
  <2> QED
    BY <1>1, <1>2, <2>1 DEF MovedOn, TimestampsAgree
<1>3. CASE row'.status \in {"succeeded", "failed", "cancelled"}
  BY <1>1, <1>3 DEF MovedOn, TimestampsAgree
<1> QED
  BY <1>2, <1>3 DEF MovedOn

\* Reconciliation, whatever became of the row since its candidate was read.
LEMMA ReconcileStep == ASSUME IInv, NEW r \in Reconcilers PROVE
  /\ FindCandidate(r) => IInv'
  /\ \A status \in NormalizedStatus : ApplyProviderState(r, status) => IInv'
  /\ Escalate(r) => IInv'
  /\ LeaveAlone(r) => IInv'
<1> row \in Rows /\ recon[r] \in [busy : BOOLEAN, reference : References]
  BY SMTT(30) DEF IInv, TypeOK, Rows
<1>1. ASSUME FindCandidate(r) PROVE IInv'
  <2>1. recon' \in [Reconcilers -> [busy : BOOLEAN, reference : References]]
    BY SMTT(30), <1>1 DEF FindCandidate, IInv, TypeOK, Rows, Row, References
  <2>2. row.status # "received" /\ ~ pending_dispatch
    BY <1>1 DEF FindCandidate, IInv, NotStarted, RECONCILABLE_STATUSES
  <2>3. NotStarted' /\ ReceiptsAreTrue'
    BY SMTT(30), <1>1, <2>2 DEF FindCandidate, IInv, NotStarted, ReceiptsAreTrue
  <2> QED
    BY <1>1, <2>1, <2>3, QuietStep DEF FindCandidate, IInv, TypeOK
<1>2. ASSUME recon[r].busy, recon' = [recon EXCEPT ![r] = idle],
             UNCHANGED <<pending_dispatch, op, receipt>>
      PROVE  /\ recon' \in [Reconcilers -> [busy : BOOLEAN, reference : References]]
             /\ row.status # "received" /\ ~ pending_dispatch
             /\ row' = row => NotStarted'
             /\ ReceiptsAreTrue'
  <2>1. recon' \in [Reconcilers -> [busy : BOOLEAN, reference : References]]
    BY <1>2 DEF IInv, TypeOK, idle, References
  <2>2. row.status # "received" /\ ~ pending_dispatch
    BY SMTT(30), <1>2 DEF IInv, NotStarted
  <2> QED
    BY <1>2, <2>1, <2>2 DEF IInv, NotStarted, ReceiptsAreTrue
<1>3. ASSUME LeaveAlone(r) PROVE IInv'
  BY <1>2, <1>3, QuietStep DEF LeaveAlone, IInv, TypeOK
<1>4. ASSUME Escalate(r) PROVE IInv'
  <2>1. CASE row' = row
    BY <1>2, <1>4, <2>1, QuietStep DEF Escalate, IInv, TypeOK
  <2>2. CASE row' # row
    <3>1. row' = mark_manual_review(row) /\ row.status \notin Terminal
      BY <1>4, <2>2 DEF Escalate, escalated
    <3>2. /\ row' \in Rows
          /\ row'.status = "manual_review"
          /\ row'.attempt_count = row.attempt_count
          /\ row'.next_retry_at = FALSE
      BY Zenon, <3>1 DEF mark_manual_review, Rows, Row, RequestStatus
    <3>3. TimestampsAgree' /\ SuccessIsTheProviders'
      BY <3>2 DEF TimestampsAgree, SuccessIsTheProviders
    <3>4. /\ UNCHANGED <<pending_dispatch, operator_retries, call, wire, op, receipt, cancel>>
          /\ recon[r].busy
          /\ recon' = [recon EXCEPT ![r] = idle]
      BY <1>4 DEF Escalate
    <3>5. /\ receipt' \in [Event -> ReceiptStatus]
          /\ cancel' \in [Cancellers -> References]
          /\ \A e \in Event : receipt'[e] # "none" => receipt[e] # "none"
      BY <3>4 DEF IInv, TypeOK
    <3>6. NotStarted'
      BY <1>2, <3>2, <3>4 DEF NotStarted
    <3> QED
      BY <1>2, <3>2, <3>3, <3>4, <3>5, <3>6, RestStep
  <2> QED
    BY SMTT(30), <2>1, <2>2
<1>5. ASSUME NEW status \in NormalizedStatus, ApplyProviderState(r, status) PROVE IInv'
  <2> DEFINE ref == recon[r].reference
  <2>1. ref \in Attempts /\ (status = "succeeded" => op[ref] = "succeeded")
    BY <1>5 DEF ApplyProviderState, Reports
  <2>2. row' = apply_normalized_status(row, status, ref)
    BY SMTT(30), <1>5 DEF ApplyProviderState
  <2>3. CASE row' = row
    BY SMTT(30), <1>2, <1>5, <2>3, QuietStep DEF ApplyProviderState, IInv, TypeOK
  <2> HIDE DEF ref
  <2>4. CASE MovedOn(row, row', status, ref)
    <3>1. /\ row' \in Rows
          /\ row'.attempt_count = row.attempt_count
          /\ row'.status \notin {"received", "validating", "dispatching", "retry_scheduled"}
          /\ TimestampsAgree'
          /\ SuccessIsTheProviders'
      BY <1>5, <2>1, <2>4, MovedOnFacts DEF ApplyProviderState
    <3>4. /\ UNCHANGED <<pending_dispatch, operator_retries, call, wire, op, receipt, cancel>>
          /\ recon[r].busy
          /\ recon' = [recon EXCEPT ![r] = idle]
      BY <1>5 DEF ApplyProviderState
    <3>5. /\ receipt' \in [Event -> ReceiptStatus]
          /\ cancel' \in [Cancellers -> References]
          /\ \A e \in Event : receipt'[e] # "none" => receipt[e] # "none"
      BY <3>4 DEF IInv, TypeOK
    <3>6. NotStarted'
      BY <1>2, <3>1, <3>4 DEF NotStarted
    <3> QED
      BY SMTT(30), <1>2, <3>1, <3>4, <3>5, <3>6, RestStep
  <2> QED
    BY <2>1, <2>2, <2>3, <2>4, ApplyNormalizedStatus
<1> QED
  BY <1>1, <1>3, <1>4, <1>5

\* Webhooks: recorded, processed, deferred or abandoned.
LEMMA ReceiveStep == ASSUME IInv, NEW e \in Event PROVE
  /\ PersistReceipt(e) => IInv'
  /\ ProcessReceipt(e) => IInv'
  /\ AbandonReceipt(e) => IInv'
<1> /\ row \in Rows
    /\ e.reference \in Attempts /\ e.status \in NormalizedStatus
    /\ receipt \in [Event -> ReceiptStatus]
  BY SMTT(30) DEF IInv, TypeOK, Rows, Event
<1>1. ASSUME PersistReceipt(e) PROVE IInv'
  <2>1. receipt' = [receipt EXCEPT ![e] = "received"]
    BY <1>1 DEF PersistReceipt
  <2>2. e.status \in {"succeeded", "failed", "cancelled"} => op[e.reference] = e.status
    BY <1>1 DEF PersistReceipt, Reports
  <2>3. ReceiptsAreTrue'
    BY SMTT(30), <1>1, <2>1, <2>2 DEF PersistReceipt, IInv, ReceiptsAreTrue
  <2>4. NotStarted'
    BY <1>1 DEF PersistReceipt, IInv, NotStarted
  <2>5. receipt' \in [Event -> ReceiptStatus]
    BY SMTT(30), <2>1 DEF ReceiptStatus
  <2> QED
    BY <1>1, <2>3, <2>4, <2>5, QuietStep DEF PersistReceipt, IInv, TypeOK
<1>2. ASSUME AbandonReceipt(e) PROVE IInv'
  <2>1. receipt[e] # "none" /\ receipt' = [receipt EXCEPT ![e] = "abandoned"]
    BY SMTT(30), <1>2 DEF AbandonReceipt
  <2>2. ReceiptsAreTrue'
    BY <1>2, <2>1 DEF AbandonReceipt, IInv, ReceiptsAreTrue
  <2>3. NotStarted'
    BY <1>2 DEF AbandonReceipt, IInv, NotStarted
  <2>4. receipt' \in [Event -> ReceiptStatus]
    BY <2>1 DEF ReceiptStatus
  <2> QED
    BY Zenon, <1>2, <2>2, <2>3, <2>4, QuietStep DEF AbandonReceipt, IInv, TypeOK
<1>3. ASSUME ProcessReceipt(e) PROVE IInv'
  <2>1. /\ receipt[e] # "none"
        /\ receipt' = [receipt EXCEPT ![e] = "deferred"]
           \/ receipt' = [receipt EXCEPT ![e] = "processed"]
        /\ UNCHANGED <<pending_dispatch, operator_retries, call, wire, op, recon, cancel>>
    BY <1>3 DEF ProcessReceipt
  <2>2. /\ receipt' \in [Event -> ReceiptStatus]
        /\ recon' \in [Reconcilers -> [busy : BOOLEAN, reference : References]]
        /\ cancel' \in [Cancellers -> References]
        /\ wire' \subseteq Attempts
        /\ \A f \in Event : receipt'[f] # "none" => receipt[f] # "none"
    BY <2>1 DEF IInv, TypeOK, ReceiptStatus
  <2>3. CASE row' = row
    <3>1. NotStarted' /\ ReceiptsAreTrue'
      BY <2>1, <2>2, <2>3 DEF IInv, NotStarted, ReceiptsAreTrue
    <3> QED
      BY SMTT(30), <2>1, <2>2, <2>3, <3>1, QuietStep
  <2>4. CASE row' # row
    <3>1. row.reference = e.reference /\ row' = apply_normalized_status(row, e.status, e.reference)
      BY SMTT(30), <1>3, <2>4 DEF ProcessReceipt
    <3>2. MovedOn(row, row', e.status, e.reference)
      BY <2>4, <3>1, ApplyNormalizedStatus
    <3>3. e.status = "succeeded" => op[e.reference] = "succeeded"
      BY <2>1 DEF IInv, ReceiptsAreTrue
    <3>4. /\ row' \in Rows
          /\ row'.attempt_count = row.attempt_count
          /\ row'.status \notin {"received", "validating", "dispatching", "retry_scheduled"}
          /\ TimestampsAgree'
          /\ SuccessIsTheProviders'
      BY <2>1, <3>2, <3>3, MovedOnFacts
    <3>5. row.status # "received" /\ ~ pending_dispatch
      BY <3>1, AttemptsType DEF IInv, NotStarted
    <3>6. NotStarted'
      BY SMTT(30), <2>1, <3>4, <3>5 DEF NotStarted
    <3> QED
      BY <2>1, <2>2, <3>4, <3>6, RestStep
  <2> QED
    BY SMTT(30), <2>3, <2>4
<1> QED
  BY <1>1, <1>2, <1>3

\* The provider only ever turns absent into running and running into an outcome.
LEMMA ProvideStep == IInv /\ Providing => IInv'
<1> SUFFICES ASSUME IInv, Providing PROVE IInv'
  OBVIOUS
<1>1. /\ UNCHANGED <<row, pending_dispatch, operator_retries, call, receipt, recon, cancel>>
      /\ wire' \subseteq Attempts
      /\ op' \in [Attempts -> OpState]
      /\ \A o \in Attempts : op[o] \in {"succeeded", "failed", "cancelled"} => op'[o] = op[o]
  <2>1. ASSUME NEW n \in Attempts, ProviderCreates(n) PROVE <1>1!:
    <3>1. OperationOf(n) \in Attempts
      BY AttemptsType DEF OperationOf
    <3> QED
      BY <2>1, <3>1 DEF ProviderCreates, IInv, TypeOK, OpState
  <2>2. ASSUME NEW o \in Attempts, ProviderFinishes(o) PROVE <1>1!:
    BY <2>2 DEF ProviderFinishes, IInv, TypeOK, OpState
  <2> QED
    BY <2>1, <2>2 DEF Providing
<1>2. TypeOK'
  BY <1>1 DEF IInv, TypeOK
<1>3. SuccessIsTheProviders'
  BY <1>1 DEF IInv, TypeOK, Row, SuccessIsTheProviders
<1>4. ReceiptsAreTrue'
  BY <1>1 DEF IInv, ReceiptsAreTrue, Event
<1> QED
  BY <1>1, <1>2, <1>3, <1>4
     DEF IInv, RetriesBounded, RetryHasRoom, NotStarted, NeverValidating, TimestampsAgree,
         DispatchingHasOwner

\* Every step keeps the invariant.
LEMMA NextIInv == IInv /\ [Next]_vars => IInv'
<1> SUFFICES ASSUME IInv, [Next]_vars PROVE IInv'
  OBVIOUS
<1>1. CASE Dispatching
  BY <1>1, DispatchStep, CompleteStep DEF Dispatching
<1>2. CASE Crashing
  BY <1>2, CrashStep
<1>3. CASE Operating
  BY <1>3, OperateStep
<1>4. CASE Reconciling
  BY <1>4, ReconcileStep DEF Reconciling
<1>5. CASE Receiving
  BY SMTT(30), <1>5, ReceiveStep DEF Receiving
<1>6. CASE Providing
  BY <1>6, ProvideStep
<1>7. CASE UNCHANGED vars
  BY <1>7 DEF vars, IInv, TypeOK, RetriesBounded, RetryHasRoom, NotStarted, NeverValidating,
              TimestampsAgree, SuccessIsTheProviders, DispatchingHasOwner, ReceiptsAreTrue
<1> QED
  BY <1>1, <1>2, <1>3, <1>4, <1>5, <1>6, <1>7 DEF Next

-----------------------------------------------------------------------------
(***************************************************************************)
(* The theorems.                                                           *)
(***************************************************************************)

\* The inductive invariant holds in every reachable state.
THEOREM Invariance == Spec => []IInv
  BY InitIInv, NextIInv, PTL DEF Spec

\* Every variable keeps its type.
THEOREM TypeCorrect == Spec => []TypeOK
<1>1. IInv => TypeOK
  BY DEF IInv
<1> QED
  BY <1>1, Invariance, PTL

\* However dispatches, crashes and escalations interleave, attempts stay bounded.
THEOREM AttemptsStayBounded == Spec => []RetriesBounded
<1>1. IInv => RetriesBounded
  BY DEF IInv
<1> QED
  BY <1>1, Invariance, PTL

\* The retry worker's query finds exactly the scheduled rows, and completion times are real.
THEOREM TimestampsStayConsistent == Spec => []TimestampsAgree
<1>1. IInv => TimestampsAgree
  BY DEF IInv
<1> QED
  BY <1>1, Invariance, PTL

\* A request is reported succeeded only if the operation it is linked to succeeded.
THEOREM NoFalseSuccess == Spec => []SuccessIsTheProviders
<1>1. IInv => SuccessIsTheProviders
  BY DEF IInv
<1> QED
  BY <1>1, Invariance, PTL

\* Only a dead process leaves a row dispatching.
THEOREM NoOrphanedDispatch == Spec => []DispatchingHasOwner
<1>1. IInv => DispatchingHasOwner
  BY SMTT(30) DEF IInv
<1> QED
  BY <1>1, Invariance, PTL

-----------------------------------------------------------------------------

\* How a step may change the row.
RowMove ==
  \/ row' = row
  \/ row.reference = NoReference /\ row' = attach_provider_reference(row, row'.reference)
  \/ /\ row.status \notin Terminal
     /\ \/ can_transition(row.status, row'.status)
        \/ row.status = "received" /\ row'.status = "dispatching"

\* Every step leaves the row, links it, or moves it on from a status that is not terminal.
LEMMA EveryStepIsARowMove == IInv /\ [Next]_vars => RowMove
<1> SUFFICES ASSUME IInv, [Next]_vars PROVE RowMove
  OBVIOUS
<1> row \in Rows
  BY DEF IInv, TypeOK, Rows
<1> USE DEF RowMove
<1>1. CASE Dispatch
  <2>1. row.status \in {"received", "cancelled"}
    BY <1>1 DEF Dispatch, IInv, NotStarted
  <2>2. CASE row.status = "received"
    <3>1. begin_validation(row) \in Rows /\ begin_validation(row).status = "validating"
      BY DEF begin_validation, Rows, Row, RequestStatus
    <3>2. row' = begin_dispatch(begin_validation(row))
      BY <1>1, <2>2, <3>1 DEF Dispatch, claim_for_dispatch, can_transition, TRANSITIONS
    <3> QED
      BY <2>2, <3>1, <3>2 DEF begin_dispatch, Rows, Row, Terminal
  <2>3. CASE row.status = "cancelled"
    BY <1>1, <2>3 DEF Dispatch, can_transition, TRANSITIONS
  <2> QED
    BY <2>1, <2>2, <2>3
<1>2. CASE ClaimDueForRetry
  BY <1>2 DEF ClaimDueForRetry, claim_for_dispatch, begin_dispatch, Rows, Row, can_transition,
              TRANSITIONS, Terminal
<1>3. ASSUME NEW n \in Attempts, CompleteAttempt(n) PROVE RowMove
  <2>1. PICK result \in Acceptances(n) \union Errors : row' = settled_row(result)
    BY <1>3 DEF CompleteAttempt
  <2>2. CASE row.status = "dispatching"
    BY <2>1, <2>2, SettleDispatching DEF Settled, IInv, Terminal
  <2>3. CASE row.status # "dispatching"
    BY <2>1, <2>3, SettleSuperseded DEF IInv
  <2> QED
    BY <2>2, <2>3
<1>4. CASE Crashing
  BY <1>4 DEF Crashing, CrashBeforeDispatch, CrashInCall
<1>5. CASE RetryRequest
  BY <1>5 DEF RetryRequest, restore_for_retry, MANUALLY_RETRYABLE_STATUSES, Rows, Row,
              can_transition, TRANSITIONS, Terminal
<1>6. ASSUME row' = mark_cancelled(row), row.status \notin Terminal PROVE RowMove
  BY <1>6 DEF mark_cancelled, Rows, Row, RequestStatus, can_transition, TRANSITIONS, Terminal
<1>7. CASE CancelLocally
  BY <1>6, <1>7 DEF CancelLocally, assert_cancellable, CANCELLABLE_STATUSES, Terminal
<1>8. ASSUME NEW c \in Cancellers, CancelAtProvider(c) \/ SettleCancellation(c) PROVE RowMove
  BY <1>6, <1>8 DEF CancelAtProvider, SettleCancellation
<1>9. ASSUME NEW r \in Reconcilers, Escalate(r) PROVE RowMove
  <2>1. row.status # "received" /\ row.status # "validating"
    BY <1>9 DEF Escalate, IInv, NotStarted, NeverValidating
  <2> QED
    BY SMTT(30), <1>9, <2>1 DEF Escalate, escalated, mark_manual_review, Rows, Row, RequestStatus,
                      can_transition, TRANSITIONS, Terminal
<1>10. ASSUME NEW r \in Reconcilers, NEW status \in NormalizedStatus,
              ApplyProviderState(r, status)
       PROVE  RowMove
  <2>1. recon[r].reference \in Attempts
    BY <1>10 DEF ApplyProviderState, Reports
  <2> QED
    BY ZenonT(60), <1>10, <2>1, ApplyNormalizedStatus DEF ApplyProviderState, MovedOn
<1>11. ASSUME NEW r \in Reconcilers, FindCandidate(r) \/ LeaveAlone(r) PROVE RowMove
  BY <1>11 DEF FindCandidate, LeaveAlone
<1>12. ASSUME NEW e \in Event, PersistReceipt(e) \/ ProcessReceipt(e) \/ AbandonReceipt(e)
       PROVE  RowMove
  <2>1. e.reference \in Attempts /\ e.status \in NormalizedStatus
    BY DEF Event
  <2>2. row' = row \/ row' = apply_normalized_status(row, e.status, e.reference)
    BY <1>12 DEF PersistReceipt, ProcessReceipt, AbandonReceipt
  <2>3. row' = row \/ MovedOn(row, row', e.status, e.reference)
    BY <2>1, <2>2, ApplyNormalizedStatus
  <2> QED
    BY <2>3 DEF MovedOn
<1>13. CASE Providing
  BY <1>13 DEF Providing, ProviderCreates, ProviderFinishes
<1>14. CASE UNCHANGED vars
  BY <1>14 DEF vars
<1> QED
  BY <1>1, <1>2, <1>3, <1>4, <1>5, <1>7, <1>8, <1>9, <1>10, <1>11, <1>12, <1>13, <1>14
     DEF Next, Dispatching, Operating, Reconciling, Receiving

\* A succeeded or cancelled row is never changed again, except to add a missing reference.
THEOREM TerminalStaysFinal == Spec => TerminalIsFinal
<1>1. IInv /\ [Next]_vars =>
        [row.status \in Terminal =>
           \/ row' = row
           \/ /\ row.reference = NoReference
              /\ row' = attach_provider_reference(row, row'.reference)]_vars
  BY EveryStepIsARowMove DEF RowMove
<1> QED
  BY <1>1, Invariance, PTL DEF Spec, TerminalIsFinal

\* No handler ever asks the state machine for a transition it refuses.
THEOREM TransitionsStayLegal == Spec => LegalTransitions
<1>1. IInv /\ [Next]_vars =>
        [\/ row'.status = row.status
         \/ can_transition(row.status, row'.status)
         \/ row.status = "received" /\ row'.status = "dispatching"]_vars
  <2> SUFFICES ASSUME IInv, [Next]_vars
               PROVE  \/ row'.status = row.status
                      \/ can_transition(row.status, row'.status)
                      \/ row.status = "received" /\ row'.status = "dispatching"
    OBVIOUS
  <2>1. row \in Rows
    BY DEF IInv, TypeOK, Rows
  <2>2. RowMove
    BY EveryStepIsARowMove
  <2> QED
    BY <2>1, <2>2 DEF RowMove, attach_provider_reference, Rows, Row
<1> QED
  BY <1>1, Invariance, PTL DEF Spec, LegalTransitions

-----------------------------------------------------------------------------
(***************************************************************************)
(* Providers that honour the idempotency key.  Whatever reference anybody  *)
(* holds names the one operation, so even an answer to a question asked    *)
(* long ago is about the operation the row tracks.                         *)
(***************************************************************************)
OneLink ==
  /\ row.reference \in {NoReference, 1}
  /\ \A r \in Reconcilers : recon[r].reference \in {NoReference, 1}
  /\ \A c \in Cancellers : cancel[c] \in {NoReference, 1}
  /\ row.status = "pending" => row.reference # NoReference

KeyedLink == supports_provider_idempotency(row.provider) => OneLink

\* A create at such a provider answers with no reference or with operation 1.
LEMMA ResultLink ==
  ASSUME supports_provider_idempotency(row.provider), TypeOK,
         NEW n \in Attempts, NEW result \in Acceptances(n) \union Errors
  PROVE  result.reference \in {NoReference, 1}
<1>1. OperationOf(n) = 1
  BY DEF OperationOf, TypeOK, Row
<1>2. CASE result \in Errors
  BY <1>2 DEF Errors
<1>3. CASE result \in Acceptances(n)
  BY <1>1, <1>3 DEF Acceptances
<1> QED
  BY <1>2, <1>3

\* The settle transaction keeps the row's reference or takes the result's.
LEMMA SettledReference ==
  ASSUME TypeOK, NEW n \in Attempts, NEW result \in Acceptances(n) \union Errors
  PROVE  settled_row(result).reference \in {row.reference, result.reference}
<1>1. row \in Rows
  BY DEF TypeOK, Rows
<1>2. CASE row.status # "dispatching"
  BY <1>1, <1>2 DEF settled_row, record_superseded, attach_provider_reference, Rows, Row
<1>3. CASE row.status = "dispatching" /\ result.accepted
  <2>1. settled_row(result) = apply_acceptance(row, result)
    BY <1>3 DEF settled_row
  <2>2. result.status \in NormalizedStatus
    BY <1>3, ResultType
  <2> QED
    BY <1>1, <2>1, <2>2
       DEF apply_acceptance, mark_succeeded, mark_accepted, mark_cancelled, mark_manual_review,
           NormalizedStatus, Rows, Row
<1>4. CASE row.status = "dispatching" /\ ~ result.accepted
  BY <1>1, <1>4
     DEF settled_row, apply_failure, schedule_retry, mark_manual_review, mark_failed,
         Rows, Row
<1> QED
  BY <1>2, <1>3, <1>4, ResultType

\* The initial states have no links.
LEMMA InitOneLink == Init => OneLink
  BY DEF Init, OneLink, create, idle

\* No step introduces a second link.
LEMMA NextOneLink ==
  ASSUME supports_provider_idempotency(row.provider), IInv, OneLink, [Next]_vars
  PROVE  OneLink'
<1> /\ row \in Rows
    /\ recon \in [Reconcilers -> [busy : BOOLEAN, reference : References]]
    /\ cancel \in [Cancellers -> References]
  BY DEF IInv, TypeOK, Rows
<1>1. CASE Dispatch \/ ClaimDueForRetry
  <2>1. UNCHANGED <<recon, cancel>>
    BY <1>1 DEF Dispatch, ClaimDueForRetry
  <2>2. \/ row' = row
        \/ row' = begin_dispatch(row)
        \/ row' = begin_dispatch(begin_validation(row))
    BY <1>1 DEF Dispatch, ClaimDueForRetry, claim_for_dispatch
  <2>3. row' = row \/ (row'.reference = row.reference /\ row'.status = "dispatching")
    BY Zenon, <2>2 DEF begin_dispatch, begin_validation, Rows, Row
  <2> QED
    BY <2>1, <2>3 DEF OneLink
<1>2. ASSUME NEW n \in Attempts, CompleteAttempt(n) PROVE OneLink'
  <2>1. PICK result \in Acceptances(n) \union Errors : row' = settled_row(result)
    BY <1>2 DEF CompleteAttempt
  <2>2. row'.reference \in {NoReference, 1}
    BY <2>1, SettledReference, ResultLink DEF IInv, OneLink
  <2>3. row'.status = "pending" => row'.reference # NoReference
    <3>1. CASE row.status = "dispatching"
      BY Zenon, <2>1, <3>1, SettleDispatching DEF Settled, IInv
    <3>2. CASE row.status # "dispatching"
      <4>1. row' = row \/ (row.reference = NoReference /\ row'.status = row.status)
        BY <2>1, <3>2, SettleSuperseded DEF IInv, attach_provider_reference, Rows, Row
      <4> QED
        BY <4>1 DEF OneLink
    <3> QED
      BY <3>1, <3>2
  <2> QED
    BY <1>2, <2>2, <2>3 DEF CompleteAttempt, OneLink
<1>3. CASE Crashing
  BY <1>3 DEF Crashing, CrashBeforeDispatch, CrashInCall, OneLink
<1>4. CASE RetryRequest \/ CancelLocally
  <2>1. UNCHANGED <<recon, cancel>> /\ (row' = restore_for_retry(row) \/ row' = mark_cancelled(row))
    BY <1>4 DEF RetryRequest, CancelLocally
  <2>2. row'.reference = row.reference /\ row'.status # "pending"
    BY Zenon, <2>1 DEF restore_for_retry, mark_cancelled, Rows, Row
  <2> QED
    BY <2>1, <2>2 DEF OneLink
<1>5. ASSUME NEW c \in Cancellers, CancelAtProvider(c) PROVE OneLink'
  BY <1>5 DEF CancelAtProvider, OneLink
<1>6. ASSUME NEW c \in Cancellers, SettleCancellation(c) PROVE OneLink'
  <2>1. row' = row \/ row' = mark_cancelled(row)
    BY <1>6 DEF SettleCancellation
  <2>2. row'.reference = row.reference /\ (row' = row \/ row'.status = "cancelled")
    BY Zenon, <2>1 DEF mark_cancelled, Rows, Row
  <2> QED
    BY <1>6, <2>2 DEF SettleCancellation, OneLink
<1>7. ASSUME NEW r \in Reconcilers, FindCandidate(r) \/ LeaveAlone(r) PROVE OneLink'
  BY <1>7 DEF FindCandidate, LeaveAlone, OneLink, idle
<1>8. ASSUME NEW r \in Reconcilers, Escalate(r) PROVE OneLink'
  <2>1. row' = row \/ row' = mark_manual_review(row)
    BY <1>8 DEF Escalate, escalated
  <2>2. row'.reference = row.reference /\ (row' = row \/ row'.status = "manual_review")
    BY Zenon, <2>1 DEF mark_manual_review, Rows, Row
  <2> QED
    BY <1>8, <2>2 DEF Escalate, OneLink, idle
<1>9. ASSUME NEW r \in Reconcilers, NEW status \in NormalizedStatus,
             ApplyProviderState(r, status)
      PROVE  OneLink'
  <2>1. recon[r].reference \in Attempts /\ recon[r].reference \in {NoReference, 1}
    BY <1>9 DEF ApplyProviderState, Reports, OneLink
  <2>2. row' = row \/ MovedOn(row, row', status, recon[r].reference)
    BY <1>9, <2>1, ApplyNormalizedStatus DEF ApplyProviderState
  <2>3. \/ row' = row
        \/ row'.reference \in {NoReference, 1} /\ row'.reference # NoReference
    BY SMTT(30), <2>1, <2>2 DEF MovedOn, OneLink
  <2> QED
    BY <1>9, <2>3 DEF ApplyProviderState, OneLink, idle
<1>10. ASSUME NEW e \in Event, PersistReceipt(e) \/ ProcessReceipt(e) \/ AbandonReceipt(e)
       PROVE  OneLink'
  <2>1. e.reference \in Attempts /\ e.status \in NormalizedStatus
    BY SMTT(30) DEF Event
  <2>2. \/ row' = row
        \/ /\ row.reference = e.reference
           /\ row' = apply_normalized_status(row, e.status, e.reference)
    BY <1>10 DEF PersistReceipt, ProcessReceipt, AbandonReceipt
  <2>3. row' = row \/ (row.reference = e.reference /\ MovedOn(row, row', e.status, e.reference))
    BY Zenon, <2>1, <2>2, ApplyNormalizedStatus
  <2>4. \/ row' = row
        \/ row'.reference \in {NoReference, 1} /\ row'.reference # NoReference
    BY <2>3 DEF MovedOn, OneLink
  <2> QED
    BY <1>10, <2>4 DEF PersistReceipt, ProcessReceipt, AbandonReceipt, OneLink
<1>11. CASE Providing
  BY <1>11 DEF Providing, ProviderCreates, ProviderFinishes, OneLink
<1>12. CASE UNCHANGED vars
  BY <1>12 DEF vars, OneLink
<1> QED
  BY <1>1, <1>2, <1>3, <1>4, <1>5, <1>6, <1>7, <1>8, <1>9, <1>10, <1>11, <1>12
     DEF Next, Dispatching, Operating, Reconciling, Receiving

\* A step that declares a pending row's outcome found that outcome at operation 1.
LEMMA EvidenceStep ==
  ASSUME supports_provider_idempotency(row.provider), IInv, OneLink, [Next]_vars,
         row.status = "pending", row'.status \in {"succeeded", "failed", "cancelled"}
  PROVE  op[row.reference] = row'.status
<1> /\ row \in Rows
    /\ recon \in [Reconcilers -> [busy : BOOLEAN, reference : References]]
    /\ cancel \in [Cancellers -> References]
  BY DEF IInv, TypeOK, Rows
<1>0. row.reference = 1
  BY SMTT(30) DEF OneLink
<1>1. CASE Dispatch \/ ClaimDueForRetry
  <2>1. row' = row
    <3>1. CASE Dispatch
      BY <3>1 DEF Dispatch, can_transition, TRANSITIONS
    <3>2. CASE ClaimDueForRetry
      BY <3>2 DEF ClaimDueForRetry
    <3> QED
      BY <1>1, <3>1, <3>2
  <2> QED
    BY SMTT(30), <2>1
<1>2. ASSUME NEW n \in Attempts, CompleteAttempt(n) PROVE row'.status = "pending"
  <2>1. PICK result \in Acceptances(n) \union Errors : row' = settled_row(result)
    BY <1>2 DEF CompleteAttempt
  <2>2. row' = row
    BY <1>0, <2>1 DEF settled_row, record_superseded, NoReference
  <2> QED
    BY <2>2
<1>3. CASE Crashing \/ Providing \/ UNCHANGED vars
  BY Zenon, <1>3 DEF Crashing, CrashBeforeDispatch, CrashInCall, Providing, ProviderCreates,
              ProviderFinishes, vars
<1>4. CASE RetryRequest \/ CancelLocally
  BY <1>0, <1>4 DEF RetryRequest, CancelLocally, MANUALLY_RETRYABLE_STATUSES, NoReference
<1>5. ASSUME NEW c \in Cancellers, CancelAtProvider(c) \/ SettleCancellation(c)
      PROVE  op[row.reference] = row'.status
  <2>1. \/ row' = row
        \/ /\ cancel[c] # NoReference
           /\ op[cancel[c]] = "cancelled"
           /\ row' = mark_cancelled(row)
    BY Zenon, <1>5 DEF CancelAtProvider, SettleCancellation
  <2>2. row' # row
    OBVIOUS
  <2>3. cancel[c] = 1
    BY <2>1, <2>2 DEF OneLink
  <2>4. row'.status = "cancelled"
    BY Zenon, <2>1, <2>2 DEF mark_cancelled, Rows, Row
  <2> QED
    BY <1>0, <2>1, <2>2, <2>3, <2>4
<1>6. ASSUME NEW r \in Reconcilers, FindCandidate(r) \/ LeaveAlone(r) \/ Escalate(r)
      PROVE  FALSE
  <2>1. row' = row \/ row' = mark_manual_review(row)
    BY Zenon, <1>6 DEF FindCandidate, LeaveAlone, Escalate, escalated
  <2>2. row'.status \in {"pending", "manual_review"}
    BY Zenon, <2>1 DEF mark_manual_review, Rows, Row
  <2> QED
    BY <2>2
<1>7. ASSUME NEW r \in Reconcilers, NEW status \in NormalizedStatus,
             ApplyProviderState(r, status)
      PROVE  op[row.reference] = row'.status
  <2>1. /\ recon[r].reference \in Attempts
        /\ recon[r].reference \in {NoReference, 1}
        /\ status \in {"accepted", "pending"} \/ op[recon[r].reference] = status
    BY <1>7 DEF ApplyProviderState, Reports, OneLink
  <2>2. MovedOn(row, row', status, recon[r].reference)
    BY <1>7, <2>1, ApplyNormalizedStatus DEF ApplyProviderState
  <2>3. recon[r].reference = 1
    BY <2>1, AttemptsType DEF NoReference
  <2>4. row'.status = status
    BY SMTT(30), <2>2 DEF MovedOn
  <2> QED
    BY <1>0, <2>1, <2>3, <2>4
<1>8. ASSUME NEW e \in Event, PersistReceipt(e) \/ ProcessReceipt(e) \/ AbandonReceipt(e)
      PROVE  op[row.reference] = row'.status
  <2>1. e.reference \in Attempts /\ e.status \in NormalizedStatus
    BY DEF Event
  <2>2. /\ row.reference = e.reference
        /\ receipt[e] # "none"
        /\ row' = apply_normalized_status(row, e.status, e.reference)
    BY SMTT(30), <1>8 DEF PersistReceipt, ProcessReceipt, AbandonReceipt
  <2>3. MovedOn(row, row', e.status, e.reference)
    BY <2>1, <2>2, ApplyNormalizedStatus
  <2>4. row'.status = e.status
    BY <2>3 DEF MovedOn
  <2> QED
    BY <2>2, <2>4 DEF IInv, ReceiptsAreTrue
<1> QED
  BY Zenon, <1>1, <1>2, <1>3, <1>4, <1>5, <1>6, <1>7, <1>8
     DEF Next, Dispatching, Operating, Reconciling, Receiving

\* The settle transaction keeps the row's provider.
LEMMA SettledProvider ==
  ASSUME TypeOK, NEW n \in Attempts, NEW result \in Acceptances(n) \union Errors
  PROVE  settled_row(result).provider = row.provider
<1>1. row \in Rows
  BY DEF TypeOK, Rows
<1>2. CASE row.status # "dispatching"
  BY <1>1, <1>2 DEF settled_row, record_superseded, attach_provider_reference, Rows, Row
<1>3. CASE row.status = "dispatching" /\ result.accepted
  <2>1. settled_row(result) = apply_acceptance(row, result)
    BY <1>3 DEF settled_row
  <2>2. result.status \in NormalizedStatus
    BY <1>3, ResultType
  <2> QED
    BY <1>1, <2>1, <2>2
       DEF apply_acceptance, mark_succeeded, mark_accepted, mark_cancelled, mark_manual_review,
           NormalizedStatus, Rows, Row
<1>4. CASE row.status = "dispatching" /\ ~ result.accepted
  BY <1>1, <1>4
     DEF settled_row, apply_failure, schedule_retry, mark_manual_review, mark_failed,
         Rows, Row
<1> QED
  BY <1>2, <1>3, <1>4, ResultType

\* No step changes the provider a request is for.
LEMMA ProviderIsFixed == IInv /\ [Next]_vars => row'.provider = row.provider
<1> SUFFICES ASSUME IInv, [Next]_vars PROVE row'.provider = row.provider
  OBVIOUS
<1> row \in Rows
  BY DEF IInv, TypeOK, Rows
<1>1. CASE Dispatch \/ ClaimDueForRetry
  <2>1. \/ row' = row
        \/ row' = begin_dispatch(row)
        \/ row' = begin_dispatch(begin_validation(row))
    BY <1>1 DEF Dispatch, ClaimDueForRetry, claim_for_dispatch
  <2>2. begin_validation(row) \in Rows /\ begin_validation(row).provider = row.provider
    BY DEF begin_validation, Rows, Row, RequestStatus
  <2>3. \A r \in Rows : begin_dispatch(r).provider = r.provider
    BY DEF begin_dispatch, Rows, Row
  <2> QED
    BY <2>1, <2>2, <2>3
<1>2. ASSUME NEW n \in Attempts, CompleteAttempt(n) PROVE row'.provider = row.provider
  BY <1>2, SettledProvider DEF CompleteAttempt, IInv
<1>3. CASE Crashing \/ Providing \/ UNCHANGED vars
  BY Zenon, <1>3 DEF Crashing, CrashBeforeDispatch, CrashInCall, Providing, ProviderCreates,
              ProviderFinishes, vars
<1>4. CASE RetryRequest \/ CancelLocally
  BY Zenon, <1>4 DEF RetryRequest, CancelLocally, restore_for_retry, mark_cancelled, Rows, Row
<1>5. ASSUME NEW c \in Cancellers, CancelAtProvider(c) \/ SettleCancellation(c)
      PROVE  row'.provider = row.provider
  BY Zenon, <1>5 DEF CancelAtProvider, SettleCancellation, mark_cancelled, Rows, Row
<1>6. ASSUME NEW r \in Reconcilers, FindCandidate(r) \/ LeaveAlone(r) \/ Escalate(r)
      PROVE  row'.provider = row.provider
  BY Zenon, <1>6 DEF FindCandidate, LeaveAlone, Escalate, escalated, mark_manual_review, Rows, Row
<1>7. ASSUME NEW r \in Reconcilers, NEW status \in NormalizedStatus,
             ApplyProviderState(r, status)
      PROVE  row'.provider = row.provider
  <2>1. recon[r].reference \in Attempts
    BY <1>7 DEF ApplyProviderState, Reports
  <2> QED
    BY Zenon, <1>7, <2>1, ApplyNormalizedStatus DEF ApplyProviderState, MovedOn
<1>8. ASSUME NEW e \in Event, PersistReceipt(e) \/ ProcessReceipt(e) \/ AbandonReceipt(e)
      PROVE  row'.provider = row.provider
  <2>1. e.reference \in Attempts /\ e.status \in NormalizedStatus
    BY DEF Event
  <2>2. row' = row \/ row' = apply_normalized_status(row, e.status, e.reference)
    BY <1>8 DEF PersistReceipt, ProcessReceipt, AbandonReceipt
  <2>3. row' = row \/ MovedOn(row, row', e.status, e.reference)
    BY <2>1, <2>2, ApplyNormalizedStatus
  <2> QED
    BY <2>3 DEF MovedOn
<1> QED
  BY Zenon, <1>1, <1>2, <1>3, <1>4, <1>5, <1>6, <1>7, <1>8
     DEF Next, Dispatching, Operating, Reconciling, Receiving

(***************************************************************************)
(* Where the provider honours the idempotency key, a pending row is        *)
(* declared succeeded, failed or cancelled only when that is the state of  *)
(* the operation it tracks, whatever stale polls, late webhooks and        *)
(* cancellations interleave (reconciliation.py: "never guesses").          *)
(***************************************************************************)
THEOREM PollsNeverGuess == Spec => PendingLeavesOnEvidence
<1>1. Init => KeyedLink
  BY InitOneLink DEF KeyedLink
<1>2. IInv /\ KeyedLink /\ [Next]_vars => KeyedLink'
  BY NextOneLink, ProviderIsFixed DEF KeyedLink, supports_provider_idempotency
<1>3. IInv /\ KeyedLink /\ [Next]_vars =>
        [/\ supports_provider_idempotency(row.provider)
         /\ row.status = "pending"
         /\ row'.status \in {"succeeded", "failed", "cancelled"}
         => op[row.reference] = row'.status]_vars
  BY EvidenceStep DEF KeyedLink
<1> QED
  BY <1>1, <1>2, <1>3, Invariance, PTL DEF Spec, PendingLeavesOnEvidence

-----------------------------------------------------------------------------
(***************************************************************************)
(* RequestLifecycle implements RequestContract: the initial states map to  *)
(* the contract's, and every step maps to one of its steps or a stutter.   *)
(***************************************************************************)

\* Nothing of a request reaches the provider before its first attempt.
NothingUnsent ==
  row.attempt_count = 0 =>
    /\ wire = {}
    /\ \A o \in Attempts : op[o] = "absent"

\* The attempts are counted by the step that makes the row dispatching, and by no other.
Counted ==
  \/ /\ row'.attempt_count = row.attempt_count
     /\ row'.status = "dispatching" => row.status = "dispatching"
  \/ /\ row.status # "dispatching"
     /\ row'.status = "dispatching"
     /\ row'.attempt_count = row.attempt_count + 1

\* The step leaves the provider's operations alone, or it is the provider's own.
Apart == op' = op \/ Providing

\* Every step counts attempts that way and keeps the platform and the provider apart.
LEMMA EveryStepCounts == IInv /\ [Next]_vars => Counted /\ Apart
<1> SUFFICES ASSUME IInv, [Next]_vars PROVE Counted /\ Apart
  OBVIOUS
<1> row \in Rows
  BY DEF IInv, TypeOK, Rows
<1>a. Apart
  BY Zenon DEF Apart, Next, Dispatching, Crashing, Operating, Reconciling, Receiving, Dispatch,
         ClaimDueForRetry, CompleteAttempt, CrashBeforeDispatch, CrashInCall, RetryRequest,
         CancelLocally, CancelAtProvider, SettleCancellation, FindCandidate,
         ApplyProviderState, Escalate, LeaveAlone, PersistReceipt, ProcessReceipt,
         AbandonReceipt, vars
<1>1. ASSUME row' = row PROVE Counted
  BY <1>1 DEF Counted
<1>2. CASE Dispatch \/ ClaimDueForRetry
  <2>1. \/ row' = row
        \/ row' = begin_dispatch(row)
        \/ row' = begin_dispatch(begin_validation(row))
    BY <1>2 DEF Dispatch, ClaimDueForRetry, claim_for_dispatch
  <2>2. row.status # "dispatching"
    BY <1>2 DEF Dispatch, ClaimDueForRetry, IInv, NotStarted
  <2>3. begin_validation(row) \in Rows /\ begin_validation(row).attempt_count = row.attempt_count
    BY DEF begin_validation, Rows, Row, RequestStatus
  <2>4. \A r \in Rows : /\ begin_dispatch(r).status = "dispatching"
                       /\ begin_dispatch(r).attempt_count = r.attempt_count + 1
    BY DEF begin_dispatch, Rows, Row
  <2> QED
    BY SMTT(30), <1>a, <2>1, <2>2, <2>3, <2>4 DEF Counted
<1>3. ASSUME NEW n \in Attempts, CompleteAttempt(n) PROVE Counted
  <2>1. PICK result \in Acceptances(n) \union Errors : row' = settled_row(result)
    BY <1>3 DEF CompleteAttempt
  <2>2. CASE row.status = "dispatching"
    BY <2>1, <2>2, SettleDispatching DEF Settled, IInv, Counted
  <2>3. CASE row.status # "dispatching"
    BY <2>1, <2>3, SettleSuperseded DEF IInv, attach_provider_reference, Rows, Row, Counted
  <2> QED
    BY SMTT(30), <2>2, <2>3
<1>4. CASE Crashing \/ Providing \/ UNCHANGED vars
  <2>1. row' = row
    BY Zenon, <1>4 DEF Crashing, CrashBeforeDispatch, CrashInCall, Providing, ProviderCreates,
                ProviderFinishes, vars
  <2> QED
    BY SMTT(30), <1>a, <1>1, <2>1
<1>5. CASE RetryRequest \/ CancelLocally
  BY Zenon, <1>a, <1>5
     DEF RetryRequest, CancelLocally, restore_for_retry, mark_cancelled, Rows, Row, Counted
<1>6. ASSUME NEW c \in Cancellers, CancelAtProvider(c) \/ SettleCancellation(c) PROVE Counted
  BY Zenon, <1>6 DEF CancelAtProvider, SettleCancellation, mark_cancelled, Rows, Row, Counted
<1>7. ASSUME NEW r \in Reconcilers, FindCandidate(r) \/ LeaveAlone(r) \/ Escalate(r)
      PROVE  Counted
  BY ZenonT(60), <1>7 DEF FindCandidate, LeaveAlone, Escalate, escalated, mark_manual_review, Rows, Row,
              Counted
<1>8. ASSUME NEW r \in Reconcilers, NEW status \in NormalizedStatus,
             ApplyProviderState(r, status)
      PROVE  Counted
  <2>1. recon[r].reference \in Attempts
    BY <1>8 DEF ApplyProviderState, Reports
  <2>2. row' = row \/ MovedOn(row, row', status, recon[r].reference)
    BY <1>8, <2>1, ApplyNormalizedStatus DEF ApplyProviderState
  <2> QED
    BY <2>2 DEF MovedOn, Counted
<1>9. ASSUME NEW e \in Event, PersistReceipt(e) \/ ProcessReceipt(e) \/ AbandonReceipt(e)
      PROVE  Counted
  <2>1. e.reference \in Attempts /\ e.status \in NormalizedStatus
    BY DEF Event
  <2>2. row' = row \/ row' = apply_normalized_status(row, e.status, e.reference)
    BY <1>9 DEF PersistReceipt, ProcessReceipt, AbandonReceipt
  <2>3. row' = row \/ MovedOn(row, row', e.status, e.reference)
    BY <2>1, <2>2, ApplyNormalizedStatus
  <2> QED
    BY <2>3 DEF MovedOn, Counted
<1> QED
  BY <1>a, <1>2, <1>3, <1>4, <1>5, <1>6, <1>7, <1>8, <1>9
     DEF Next, Dispatching, Operating, Reconciling, Receiving

\* A create is put on the wire only by the step that counts the attempt.
LEMMA NextNothingUnsent == IInv /\ IInv' /\ NothingUnsent /\ [Next]_vars => NothingUnsent'
<1> SUFFICES ASSUME IInv, IInv', NothingUnsent, [Next]_vars, row'.attempt_count = 0
             PROVE  wire' = {} /\ \A o \in Attempts : op'[o] = "absent"
  BY DEF NothingUnsent
<1>1. row \in Rows /\ row.attempt_count \in Nat
  BY DEF IInv, TypeOK, Rows, Row
<1>2. row.attempt_count = 0
  BY <1>1, EveryStepCounts DEF Counted
<1>3. wire = {} /\ \A o \in Attempts : op[o] = "absent"
  BY <1>2 DEF NothingUnsent
<1>4. ~ Providing
  BY <1>3 DEF Providing, ProviderCreates, ProviderFinishes
<1>5. op' = op
  BY <1>4, EveryStepCounts DEF Apart
<1>6. wire' \subseteq wire
  <2>1. CASE Dispatch \/ ClaimDueForRetry
    <3>1. \/ wire' = wire
          \/ row' = begin_dispatch(row)
          \/ row' = begin_dispatch(begin_validation(row))
      BY <2>1 DEF Dispatch, ClaimDueForRetry, claim_for_dispatch
    <3>2. begin_validation(row) \in Rows /\ begin_validation(row).attempt_count = 0
      BY <1>1, <1>2 DEF begin_validation, Rows, Row, RequestStatus
    <3>3. \A r \in Rows : r.attempt_count = 0 => begin_dispatch(r).attempt_count = 1
      BY DEF begin_dispatch, Rows, Row
    <3> QED
      BY <1>1, <1>2, <3>1, <3>2, <3>3
  <2>2. ASSUME NEW n \in Attempts, CompleteAttempt(n) PROVE wire' \subseteq wire
    BY SMTT(30), <2>2 DEF CompleteAttempt
  <2>3. CASE Crashing \/ Operating \/ UNCHANGED vars
    BY <2>3 DEF Crashing, CrashBeforeDispatch, CrashInCall, Operating, RetryRequest,
                CancelLocally, CancelAtProvider, SettleCancellation, vars
  <2>4. CASE Reconciling \/ Receiving
    BY Zenon, <2>4 DEF Reconciling, Receiving, FindCandidate, ApplyProviderState, Escalate,
                LeaveAlone, PersistReceipt, ProcessReceipt, AbandonReceipt
  <2> QED
    BY <1>4, <2>1, <2>2, <2>3, <2>4 DEF Next, Dispatching
<1> QED
  BY <1>3, <1>5, <1>6

-----------------------------------------------------------------------------
\* The initial states are the contract's.
LEMMA InitContract == Init => Contract!Init
<1> SUFFICES ASSUME Init PROVE Contract!Init
  OBVIOUS
<1>1. row.status = "received" /\ row.attempt_count = 0
  BY DEF Init, create
<1>2. \A o \in Attempts : op[o] = "absent"
  BY DEF Init
<1> QED
  BY <1>1, <1>2 DEF Contract!Init

\* A step of the platform that changes the status is a move of the contract.
LEMMA MoveContract ==
  ASSUME IInv, IInv', [Next]_vars, op' = op
  PROVE  Contract!Move \/ UNCHANGED Contract!contract
<1>1. /\ row \in Rows /\ row.attempt_count \in Nat
      /\ row'.status \in RequestStatus
  BY DEF IInv, TypeOK, Rows, Row
<1>2. \/ row'.status = row.status
      \/ can_transition(row.status, row'.status)
      \/ row.status = "received" /\ row'.status = "dispatching"
  BY <1>1, EveryStepIsARowMove DEF RowMove, attach_provider_reference, Rows, Row
<1>3. Counted
  BY EveryStepCounts
<1>4. row'.status = "succeeded" => \E o \in Attempts : op[o] = "succeeded"
  BY SMTT(30) DEF IInv, TypeOK, SuccessIsTheProviders, Row
<1>5. CASE row'.status = row.status /\ row'.attempt_count = row.attempt_count
  BY <1>5 DEF Contract!contract
<1>6. CASE ~ (row'.status = row.status /\ row'.attempt_count = row.attempt_count)
  <2>0. TRANSITIONS = Contract!TRANSITIONS /\ RequestStatus = Contract!RequestStatus
    BY ZenonT(40) DEF TRANSITIONS, RequestStatus, Contract!TRANSITIONS, Contract!RequestStatus
  <2>1. Contract!may_become(row.status, row'.status)
    BY <1>2, <1>3, <1>6, <2>0
       DEF Counted, Contract!may_become, Contract!can_transition, can_transition
  <2>2. (row'.attempt_count > 0) <=> (row.attempt_count > 0 \/ row'.status = "dispatching")
    BY <1>1, <1>3, <1>6 DEF Counted
  <2>3. (row'.attempt_count > 0) = (row.attempt_count > 0 \/ row'.status = "dispatching")
    BY <2>2
  <2> QED
    BY ZenonT(60), <1>1, <1>4, <2>0, <2>1, <2>3 DEF Contract!Move
<1> QED
  BY <1>5, <1>6

\* A step of the provider is an act of the contract or invisible in it.
LEMMA ActContract ==
  ASSUME IInv, NothingUnsent, Providing
  PROVE  Contract!Act \/ UNCHANGED Contract!contract
<1>1. row' = row /\ op \in [Attempts -> OpState] /\ row.attempt_count \in Nat
  BY DEF Providing, ProviderCreates, ProviderFinishes, IInv, TypeOK, Row
<1>2. row.attempt_count > 0
  BY <1>1 DEF NothingUnsent, Providing, ProviderCreates, ProviderFinishes
<1>3. \A o \in Attempts : op[o] = "succeeded" => op'[o] = "succeeded"
  BY <1>1 DEF Providing, ProviderCreates, ProviderFinishes
<1> QED
  BY <1>1, <1>2, <1>3 DEF Contract!Act, Contract!contract

(***************************************************************************)
(* The lifecycle implements the contract for any number of attempts,       *)
(* retries, reconcilers, cancellers and webhooks.                          *)
(***************************************************************************)
THEOREM LifecycleImplementsContract == Spec => ImplementsContract
<1>1. Init => NothingUnsent
  BY DEF Init, NothingUnsent
<1>2. IInv /\ IInv' /\ NothingUnsent /\ [Next]_vars => NothingUnsent'
  BY NextNothingUnsent
<1>3. IInv /\ IInv' /\ NothingUnsent /\ [Next]_vars => [Contract!Next]_Contract!contract
  BY EveryStepCounts, MoveContract, ActContract DEF Apart, Contract!Next
<1> QED
  BY <1>1, <1>2, <1>3, InitContract, Invariance, PTL DEF Spec, ImplementsContract, Contract!Spec
=============================================================================
