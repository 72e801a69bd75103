--------------------------- MODULE CircuitBreaker ---------------------------
(***************************************************************************)
(* The provider-scoped circuit breaker shared through Redis                *)
(* (infrastructure/redis/circuit_breaker.py), the gateway calls that ask   *)
(* it and report to it (infrastructure/providers/resilient.py) and the     *)
(* bulkhead between the two.  A Lua script is one step; between the check  *)
(* and the report a call waits for its slot and for the provider, while    *)
(* other calls of the fleet change the shared state.                       *)
(*                                                                         *)
(* Time is two flags of the Redis hash: cooled, open_seconds have passed   *)
(* since opened_at; due, the key was not touched for its time to live,     *)
(* which is at least ten times open_seconds.  A deleted key reads as       *)
(* closed with every counter zero.                                         *)
(***************************************************************************)
EXTENDS Naturals, FiniteSets

CONSTANTS
  Callers,          \* the provider calls of the fleet that may run at a time
  FailureThreshold, \* CircuitBreakerPolicy
  SuccessThreshold,
  HalfOpenMaxProbes,
  Replica,          \* the process each of them runs in
  MaxConcurrency    \* bulkhead slots of one process

ASSUME CallersAssumption == IsFiniteSet(Callers)
ASSUME PolicyAssumption ==
  /\ FailureThreshold \in Nat \ {0}
  /\ SuccessThreshold \in Nat \ {0}
  /\ HalfOpenMaxProbes \in Nat \ {0}
ASSUME BulkheadAssumption == MaxConcurrency \in Nat \ {0}

VARIABLES
  circuit, \* the hash of the provider's circuit in Redis
  call,    \* phase of each call and the in-process attempts it has left
  probing  \* running calls the current half-open episode admitted

vars == <<circuit, call, probing>>

CircuitState == {"closed", "open", "half_open"}

Snapshot == [state : CircuitState, failure_count : Nat, success_count : Nat,
             half_open_probes : Nat, cooled : BOOLEAN, due : BOOLEAN]

\* No key.
Absent == [state |-> "closed", failure_count |-> 0, success_count |-> 0,
           half_open_probes |-> 0, cooled |-> FALSE, due |-> FALSE]

IN_PROCESS_MAX_ATTEMPTS == 2

idle == [phase |-> "idle", left |-> 0]

Init ==
  /\ circuit = Absent
  /\ call = [c \in Callers |-> idle]
  /\ probing = {}

-----------------------------------------------------------------------------
(***************************************************************************)
(* The pure decision functions of domain/policies.py.                      *)
(***************************************************************************)
evaluate_circuit(k) == IF k.state = "open" /\ k.cooled THEN "half_open" ELSE k.state

next_state_after_failure(k) ==
  IF evaluate_circuit(k) = "closed" /\ k.failure_count + 1 < FailureThreshold
  THEN "closed" ELSE "open"

next_state_after_success(k) ==
  IF evaluate_circuit(k) = "half_open" /\ k.success_count + 1 < SuccessThreshold
  THEN "half_open" ELSE "closed"

admits_traffic(k) ==
  \/ evaluate_circuit(k) = "closed"
  \/ evaluate_circuit(k) = "half_open" /\ k.half_open_probes < HalfOpenMaxProbes

-----------------------------------------------------------------------------
(***************************************************************************)
(* The Lua scripts.  EXPIRE, where a script calls it, restarts the time to *)
(* live.                                                                   *)
(***************************************************************************)
touched(k) == [k EXCEPT !.due = FALSE]

opened(k) ==
  [touched(k) EXCEPT !.state = "open", !.cooled = FALSE,
                     !.half_open_probes = 0, !.success_count = 0]

\* Fault: entering half-open does not use up the slot of the call it admits.
half_opened_free(k) ==
  [touched(k) EXCEPT !.state = "half_open", !.cooled = FALSE,
                     !.half_open_probes = 0, !.success_count = 0]

half_opened(k) ==
  [touched(k) EXCEPT !.state = "half_open", !.cooled = FALSE,
                     !.half_open_probes = 1, !.success_count = 0]

\* Fault: a refused call restarts the time to live.
refused_touching(k) == [allowed |-> FALSE, hash |-> touched(k)]

refused(k) == [allowed |-> FALSE, hash |-> k]

ALLOW_SCRIPT(k) ==
  CASE k.state = "closed" -> [allowed |-> TRUE, hash |-> k]
    [] k.state = "open" /\ k.cooled -> [allowed |-> TRUE, hash |-> half_opened(k)]
    [] k.state = "half_open" /\ k.half_open_probes < HalfOpenMaxProbes ->
         [allowed |-> TRUE, hash |-> [touched(k) EXCEPT !.half_open_probes = @ + 1]]
    [] OTHER -> refused(k)

\* Fault: the threshold is tested before the failure is counted.
FAILURE_SCRIPT_late(k) ==
  CASE k.state = "half_open" -> opened(k)
    [] k.state = "open"      -> touched(k)
    [] k.state = "closed"    ->
         LET counted == [touched(k) EXCEPT !.failure_count = @ + 1]
         IN  IF k.failure_count >= FailureThreshold THEN opened(counted) ELSE counted

FAILURE_SCRIPT(k) ==
  CASE k.state = "half_open" -> opened(k)
    [] k.state = "open"      -> touched(k)
    [] k.state = "closed"    ->
         LET counted == [touched(k) EXCEPT !.failure_count = @ + 1]
         IN  IF counted.failure_count >= FailureThreshold THEN opened(counted) ELSE counted

\* Fault: a success closes an open circuit, as next_state_after_success has it.
SUCCESS_SCRIPT_always(k) ==
  IF k.state = "half_open" /\ k.success_count + 1 < SuccessThreshold
  THEN [touched(k) EXCEPT !.success_count = @ + 1]
  ELSE Absent

\* A closed hash with its counters zero reads like no key at all.
SUCCESS_SCRIPT(k) ==
  CASE k.state = "half_open" ->
         IF k.success_count + 1 >= SuccessThreshold
         THEN Absent
         ELSE [touched(k) EXCEPT !.success_count = @ + 1]
    [] k.state = "open"      -> touched(k)
    [] k.state = "closed"    -> Absent

-----------------------------------------------------------------------------
(***************************************************************************)
(* The gateway's guarded call.  Redis may be unreachable at any script:    *)
(* the script then ran or did not, and the call goes on (fail open).       *)
(***************************************************************************)

\* The probes of an episode are forgotten when the episode ends.
writes(k, running) ==
  /\ circuit' = k
  /\ probing' = IF k.state = "half_open" THEN running ELSE {}

phase(c, p, left) == call' = [call EXCEPT ![c] = [phase |-> p, left |-> left]]

\* _check_circuit; the number of attempts depends on the operation and the provider.
Admit(c) ==
  /\ call[c].phase = "idle"
  /\ ALLOW_SCRIPT(circuit).allowed
  /\ \E attempts \in {1, IN_PROCESS_MAX_ATTEMPTS} : phase(c, "admitted", attempts)
  /\ writes(ALLOW_SCRIPT(circuit).hash, probing \union {c})

\* CircuitOpenError.
Refuse(c) ==
  /\ call[c].phase = "idle"
  /\ ~ ALLOW_SCRIPT(circuit).allowed
  /\ writes(ALLOW_SCRIPT(circuit).hash, probing)
  /\ UNCHANGED call

\* A RedisError admits the call, whatever the script would have said or did say.
AdmitUnchecked(c) ==
  /\ call[c].phase = "idle"
  /\ \E attempts \in {1, IN_PROCESS_MAX_ATTEMPTS} : phase(c, "admitted", attempts)
  /\ \E k \in {circuit, ALLOW_SCRIPT(circuit).hash} : writes(k, probing)

in_flight(replica) == {c \in Callers : call[c].phase = "calling" /\ Replica[c] = replica}

EnterSlot(c) ==
  /\ call[c].phase = "admitted"
  /\ Cardinality(in_flight(Replica[c])) < MaxConcurrency
  /\ phase(c, "calling", call[c].left)
  /\ UNCHANGED <<circuit, probing>>

\* BulkheadRejectedError reports nothing to the breaker.
SlotRejected(c) ==
  /\ call[c].phase = "admitted"
  /\ Cardinality(in_flight(Replica[c])) >= MaxConcurrency
  /\ call' = [call EXCEPT ![c] = idle]
  /\ writes(circuit, probing \ {c})

CallSucceeds(c) ==
  /\ call[c].phase = "calling"
  /\ call' = [call EXCEPT ![c] = idle]
  /\ \E k \in {circuit, SUCCESS_SCRIPT(circuit)} : writes(k, probing \ {c})

\* A timeout, an unavailable provider or a provider's rate limit.
CallFails(c) ==
  /\ call[c].phase = "calling"
  /\ call' = [call EXCEPT ![c] = idle]
  /\ \E k \in {circuit, FAILURE_SCRIPT(circuit)} : writes(k, probing \ {c})

\* In-process retry: the next attempt takes a slot but does not ask the breaker again.
RetryInProcess(c) ==
  /\ call[c].phase = "calling"
  /\ call[c].left > 1
  /\ phase(c, "admitted", call[c].left - 1)
  /\ \E k \in {circuit, FAILURE_SCRIPT(circuit)} : writes(k, probing)

(***************************************************************************)
(* A definite "no" of the provider, any other exception, a cancelled task  *)
(* or a process that dies: the call ends and reports nothing.              *)
(***************************************************************************)
EndsUnreported(c) ==
  /\ call[c].phase \in {"admitted", "calling"}
  /\ call' = [call EXCEPT ![c] = idle]
  /\ writes(circuit, probing \ {c})

\* The open window elapses long before the key's time to live does.
TimePasses ==
  /\ circuit # Absent
  /\ circuit' = IF circuit.state = "open" /\ ~ circuit.cooled
                THEN [circuit EXCEPT !.cooled = TRUE]
                ELSE [circuit EXCEPT !.due = TRUE]
  /\ UNCHANGED <<call, probing>>

\* Redis deletes the key.
KeyExpires ==
  /\ circuit.due
  /\ writes(Absent, {})
  /\ UNCHANGED call

Calling(c) ==
  \/ Admit(c) \/ Refuse(c) \/ AdmitUnchecked(c)
  \/ EnterSlot(c) \/ SlotRejected(c)
  \/ CallSucceeds(c) \/ CallFails(c) \/ RetryInProcess(c) \/ EndsUnreported(c)

Next == TimePasses \/ KeyExpires \/ \E c \in Callers : Calling(c)

Spec == Init /\ [][Next]_vars

\* Time passes and Redis deletes expired keys; no call is owed any progress.
FairSpec == Spec /\ WF_vars(TimePasses) /\ WF_vars(KeyExpires)

-----------------------------------------------------------------------------
(***************************************************************************)
(* Properties.                                                             *)
(***************************************************************************)

\* Every variable keeps its type.
TypeOK ==
  /\ circuit \in Snapshot
  /\ call \in [Callers -> [phase : {"idle", "admitted", "calling"},
                           left : 0 .. IN_PROCESS_MAX_ATTEMPTS]]
  /\ probing \subseteq Callers

(***************************************************************************)
(* The stored state never lags behind its counters, however reports of     *)
(* calls admitted in an earlier state mix in: a closed circuit is below    *)
(* the failure threshold, and a half-open one has handed out at least one  *)
(* probe, at most half_open_max_probes, and is below the success threshold.*)
(***************************************************************************)
CountersDecide ==
  /\ circuit.state = "closed" => circuit.failure_count < FailureThreshold
  /\ circuit.state = "half_open" =>
       /\ circuit.half_open_probes \in 1 .. HalfOpenMaxProbes
       /\ circuit.success_count < SuccessThreshold

(***************************************************************************)
(* At most half_open_max_probes calls that a half-open episode admitted    *)
(* run at a time, over the whole fleet (circuit_breaker.py: "the half-open *)
(* probe slot can be handed to more than one caller" is what the scripts   *)
(* prevent).                                                               *)
(***************************************************************************)
ProbesLimited == Cardinality(probing) <= HalfOpenMaxProbes

(***************************************************************************)
(* circuit-open.md: "If probes succeed, the circuit closes automatically." *)
(* A half-open circuit that has handed out every probe and has had as many *)
(* successes, its probes having all ended, is not left half-open, where it *)
(* refuses everybody with no report to wait for.                           *)
(***************************************************************************)
SucceedingProbesClose ==
  ~ (/\ circuit.state = "half_open"
     /\ circuit.half_open_probes = HalfOpenMaxProbes
     /\ circuit.success_count >= circuit.half_open_probes
     /\ probing = {})

(***************************************************************************)
(* An open circuit never closes behind the probes' back: the late success  *)
(* of a call admitted before it opened does not close it, only the expiry  *)
(* of the whole key does.  (Once the circuit is half-open, such a success  *)
(* counts as a probe's: the script cannot tell them apart.)                *)
(***************************************************************************)
ClosesThroughProbes ==
  [][circuit.state = "open" /\ circuit'.state = "closed" => circuit.due]_vars

(***************************************************************************)
(* circuit_breaker.py: "The Lua scripts mirror the pure decision functions *)
(* in domain.policies".  Admission and failure do, in every state a report *)
(* or a check can meet, and so does success except in the open state: the  *)
(* script keeps the circuit open where next_state_after_success closes it. *)
(***************************************************************************)
ScriptsMirrorPolicies ==
  /\ ALLOW_SCRIPT(circuit).allowed = admits_traffic(circuit)
  /\ FAILURE_SCRIPT(circuit).state = next_state_after_failure(circuit)
  /\ circuit.state # "open" =>
       SUCCESS_SCRIPT(circuit).state = next_state_after_success(circuit)

(***************************************************************************)
(* No circuit stays half-open for ever, although the calls holding its     *)
(* probe slots end without a report: a refused call does not restart the   *)
(* key's time to live, so the key expires.                                 *)
(***************************************************************************)
HalfOpenEnds == circuit.state = "half_open" ~> circuit.state # "half_open"
=============================================================================
