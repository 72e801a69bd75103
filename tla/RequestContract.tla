-------------------------- MODULE RequestContract ---------------------------
(***************************************************************************)
(* What a request promises to those who hold its id (the client, a         *)
(* workflow step, an operator), without workers, webhooks or retries: the  *)
(* status moves along the transition table, the provider acts only for a   *)
(* request that was dispatched, and the request succeeds only when the     *)
(* provider did.                                                           *)
(***************************************************************************)
EXTENDS RequestStateMachine

VARIABLES
  status,   \* the request's status
  sent,     \* whether a call to the provider was ever begun
  effect    \* whether the provider carried the operation out

contract == <<status, sent, effect>>

Init == status = "received" /\ sent = FALSE /\ effect = FALSE

\* dispatch() takes received through validating to dispatching in one transaction.
may_become(current, next) ==
  can_transition(current, next) \/ (current = "received" /\ next = "dispatching")

Move ==
  /\ \E next \in RequestStatus :
       /\ may_become(status, next)
       /\ next = "succeeded" => effect
       /\ status' = next
       /\ sent' = (sent \/ next = "dispatching")
  /\ UNCHANGED effect

Act ==
  /\ sent
  /\ effect' = TRUE
  /\ UNCHANGED <<status, sent>>

Next == Move \/ Act

Spec == Init /\ [][Next]_contract
=============================================================================
