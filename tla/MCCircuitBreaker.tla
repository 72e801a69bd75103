-------------------------- MODULE MCCircuitBreaker --------------------------
(***************************************************************************)
(* CircuitBreaker for TLC.                                                 *)
(***************************************************************************)
EXTENDS CircuitBreaker

\* One call runs in a process of its own, the others share one.
TwoReplicas ==
  LET apart == CHOOSE c \in Callers : TRUE
  IN  [c \in Callers |-> IF c = apart THEN "r1" ELSE "r2"]
=============================================================================
