------------------------- MODULE IntegrationRequest -------------------------
(***************************************************************************)
(* The aggregate root of domain/entities.py: one row of                    *)
(* integration_requests and the methods that change it.  Each operator     *)
(* returns the row a method leaves behind.  The payload, the error detail  *)
(* and the correlation id are left out; the two timestamps the control     *)
(* flow tests are kept as "is set".  The optimistic version is left out:   *)
(* every handler loads the row under its lock, so a version read in a      *)
(* transaction is the version at its commit.                               *)
(***************************************************************************)
EXTENDS Naturals, RequestStateMachine

\* The column provider_reference is NULL.
NoReference == 0

Row(providers, references) ==
  [provider      : providers,
   status        : RequestStatus,
   reference     : references \union {NoReference},
   attempt_count : Nat,
   next_retry_at : BOOLEAN,
   completed_at  : BOOLEAN]

create(provider) ==
  [provider |-> provider, status |-> "received", reference |-> NoReference,
   attempt_count |-> 0, next_retry_at |-> FALSE, completed_at |-> FALSE]

begin_validation(r) == [r EXCEPT !.status = "validating"]

begin_dispatch(r) ==
  [r EXCEPT !.status = "dispatching", !.attempt_count = @ + 1, !.next_retry_at = FALSE]

mark_accepted(r, reference) ==
  [r EXCEPT !.status = "pending", !.reference = reference]

\* Fault: a reference already known is kept although another operation succeeded.
mark_succeeded_keeping_reference(r, reference) ==
  [r EXCEPT !.status = "succeeded",
            !.reference = IF @ = NoReference THEN reference ELSE @,
            !.completed_at = TRUE, !.next_retry_at = FALSE]

mark_succeeded(r, reference) ==
  [r EXCEPT !.status = "succeeded",
            !.reference = IF reference # NoReference THEN reference ELSE @,
            !.completed_at = TRUE, !.next_retry_at = FALSE]

mark_failed(r) ==
  [r EXCEPT !.status = "failed", !.completed_at = TRUE, !.next_retry_at = FALSE]

schedule_retry(r) ==
  [r EXCEPT !.status = "retry_scheduled", !.next_retry_at = TRUE, !.completed_at = FALSE]

mark_cancelled(r) ==
  [r EXCEPT !.status = "cancelled", !.completed_at = TRUE, !.next_retry_at = FALSE]

\* completed_at is not reset: a request that had failed keeps its completion time.
mark_manual_review(r) ==
  [r EXCEPT !.status = "manual_review", !.next_retry_at = FALSE]

\* attempt_count is not reset: the attempts already made keep counting.
restore_for_retry(r) ==
  [r EXCEPT !.status = "retry_scheduled", !.next_retry_at = TRUE, !.completed_at = FALSE]

(***************************************************************************)
(* A provider report from a webhook or a status lookup.  The row comes     *)
(* back unchanged when the report carries no forward progress.             *)
(***************************************************************************)
apply_normalized_status(r, status, reference) ==
  LET target == project_normalized_status(status)
      known  == IF r.reference = NoReference THEN reference ELSE r.reference
      linked == [r EXCEPT !.reference = known]
      ignored == \/ target = NoStatus
                 \/ ~ is_forward_progress(r.status, target)
                 \/ target = "pending" /\ known = NoReference
  IN  IF ignored THEN r
      ELSE CASE target = "succeeded" -> mark_succeeded(linked, reference)
             [] target = "failed"    -> mark_failed(linked)
             [] target = "cancelled" -> mark_cancelled(linked)
             [] target = "pending"   ->
                  mark_accepted(linked, IF reference # NoReference THEN reference ELSE known)

\* Links the operation a superseded dispatch created, when the row has no link yet.
attach_provider_reference(r, reference) == [r EXCEPT !.reference = reference]
=============================================================================
