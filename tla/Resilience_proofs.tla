-------------------------- MODULE Resilience_proofs --------------------------
(***************************************************************************)
(* Proofs about the two components that hold calls back: CircuitBreaker,   *)
(* for any number of calls and any policy, and RateLimiter.                *)
(*                                                                         *)
(* The circuit first.  KeyInv is what every script keeps of the hash; the  *)
(* probes of an episode are counted by the hash, which bounds them.        *)
(***************************************************************************)
EXTENDS CircuitBreaker, FiniteSetTheorems, TLAPS

KeyInv(k) ==
  /\ k \in Snapshot
  /\ k.state = "closed" => k.failure_count < FailureThreshold
  /\ k.state = "open" => k.half_open_probes = 0
  /\ k.state = "half_open" =>
       /\ k.half_open_probes \in 1 .. HalfOpenMaxProbes
       /\ k.success_count < SuccessThreshold

Calls == [Callers -> [phase : {"idle", "admitted", "calling"},
                      left : 0 .. IN_PROCESS_MAX_ATTEMPTS]]

\* The running probes are among those the hash has counted.
ProbesCounted ==
  /\ circuit.state # "half_open" => probing = {}
  /\ circuit.state = "half_open" => Cardinality(probing) <= circuit.half_open_probes

CInv ==
  /\ KeyInv(circuit)
  /\ call \in Calls
  /\ probing \subseteq Callers
  /\ ProbesCounted

-----------------------------------------------------------------------------
\* A missing key satisfies the invariant.
LEMMA AbsentKey == KeyInv(Absent) /\ Absent.state = "closed"
  BY PolicyAssumption DEF KeyInv, Absent, Snapshot, CircuitState

\* EXPIRE changes the time to live only.
LEMMA TouchedKey ==
  ASSUME NEW k, KeyInv(k)
  PROVE  /\ KeyInv(touched(k))
         /\ touched(k).state = k.state
         /\ touched(k).half_open_probes = k.half_open_probes
         /\ touched(k).failure_count = k.failure_count
         /\ touched(k).success_count = k.success_count
  BY Zenon DEF KeyInv, touched, Snapshot

\* Counting one more in a field of the hash changes that field only.
LEMMA PlusOne ==
  ASSUME NEW k \in Snapshot
  PROVE  /\ LET h == [k EXCEPT !.half_open_probes = @ + 1] IN
            /\ h \in Snapshot /\ h.state = k.state /\ h.success_count = k.success_count
            /\ h.half_open_probes = k.half_open_probes + 1
         /\ LET h == [k EXCEPT !.success_count = @ + 1] IN
            /\ h \in Snapshot /\ h.state = k.state /\ h.half_open_probes = k.half_open_probes
            /\ h.success_count = k.success_count + 1
         /\ LET h == [k EXCEPT !.failure_count = @ + 1] IN
            /\ h \in Snapshot /\ h.state = k.state
            /\ h.failure_count = k.failure_count + 1
<1> /\ k.half_open_probes \in Nat
    /\ k.success_count \in Nat
    /\ k.failure_count \in Nat
  BY DEF Snapshot
<1>1. /\ k.half_open_probes + 1 \in Nat
      /\ k.success_count + 1 \in Nat
      /\ k.failure_count + 1 \in Nat
  OBVIOUS
<1> QED
  BY <1>1 DEF Snapshot

\* Opening from any state.
LEMMA OpenedKey ==
  ASSUME NEW k \in Snapshot
  PROVE  KeyInv(opened(k)) /\ opened(k).state = "open"
  BY Zenon DEF KeyInv, opened, touched, Snapshot, CircuitState

\* The allow script hands out one probe slot at a time, never more than the policy's.
LEMMA AllowKey ==
  ASSUME NEW k, KeyInv(k)
  PROVE  LET r == ALLOW_SCRIPT(k) IN
         /\ KeyInv(r.hash)
         /\ r.hash.state = "closed" => r.hash = k
         /\ r.hash.state = "open" => r.hash = k
         /\ ~ r.allowed => r.hash = k
         /\ r.hash.state = "half_open" /\ r.hash # k =>
              \/ k.state = "open" /\ r.hash.half_open_probes = 1
              \/ /\ k.state = "half_open"
                 /\ r.hash.half_open_probes = k.half_open_probes + 1
         /\ k.state = "half_open" => r.hash.state = "half_open"
         /\ k.state = "half_open" /\ r.allowed =>
              r.hash.half_open_probes = k.half_open_probes + 1
         /\ r.allowed = admits_traffic(k)
<1>1. CASE k.state = "closed"
  BY Zenon, <1>1 DEF ALLOW_SCRIPT, KeyInv, admits_traffic, evaluate_circuit
<1>2. CASE k.state = "open" /\ k.cooled
  <2> DEFINE h == half_opened(k)
  <2>1. ALLOW_SCRIPT(k) = [allowed |-> TRUE, hash |-> h]
    BY <1>2 DEF ALLOW_SCRIPT
  <2>2. /\ h \in Snapshot
        /\ h.state = "half_open"
        /\ h.half_open_probes = 1
        /\ h.success_count = 0
    BY Zenon DEF KeyInv, half_opened, touched, Snapshot, CircuitState
  <2>3. admits_traffic(k)
    BY <1>2, PolicyAssumption DEF KeyInv, admits_traffic, evaluate_circuit
  <2>4. admits_traffic(k) \in BOOLEAN
    BY <1>2 DEF admits_traffic, evaluate_circuit
  <2> HIDE DEF h
  <2>5. KeyInv(h)
    BY <2>2, PolicyAssumption DEF KeyInv
  <2> QED
    BY <1>2, <2>1, <2>2, <2>3, <2>4, <2>5
<1>3. CASE k.state = "half_open" /\ k.half_open_probes < HalfOpenMaxProbes
  <2> DEFINE t == touched(k)
  <2>0. /\ t \in Snapshot
        /\ t.state = k.state
        /\ t.half_open_probes = k.half_open_probes
        /\ t.failure_count = k.failure_count
        /\ t.success_count = k.success_count
    BY TouchedKey DEF KeyInv
  <2> DEFINE h == [t EXCEPT !.half_open_probes = @ + 1]
  <2>1. ALLOW_SCRIPT(k) = [allowed |-> TRUE, hash |-> h]
    BY <1>3 DEF ALLOW_SCRIPT
  <2>2. /\ h \in Snapshot
        /\ h.state = "half_open"
        /\ h.half_open_probes = k.half_open_probes + 1
        /\ h.success_count = k.success_count
    <3> HIDE DEF t
    <3> QED
      BY Zenon, <1>3, <2>0, PlusOne
  <2>3. admits_traffic(k) = TRUE
    BY <1>3 DEF admits_traffic, evaluate_circuit
  <2> HIDE DEF h
  <2>4. KeyInv(h)
    BY <1>3, <2>2, PolicyAssumption DEF KeyInv, Snapshot
  <2> QED
    BY <1>3, <2>1, <2>2, <2>3, <2>4
<1>4. CASE \/ k.state = "open" /\ ~ k.cooled
           \/ k.state = "half_open" /\ ~ (k.half_open_probes < HalfOpenMaxProbes)
  <2>1. ALLOW_SCRIPT(k) = [allowed |-> FALSE, hash |-> k]
    BY <1>4 DEF ALLOW_SCRIPT, refused
  <2>2. admits_traffic(k) = FALSE
    BY <1>4 DEF admits_traffic, evaluate_circuit
  <2>3. k.state # "closed" /\ ALLOW_SCRIPT(k).hash = k /\ ALLOW_SCRIPT(k).allowed = FALSE
    BY <1>4, <2>1
  <2> QED
    BY Zenon, <2>2, <2>3
<1> QED
  BY <1>1, <1>2, <1>3, <1>4 DEF KeyInv, Snapshot, CircuitState

\* The failure script ends a half-open episode and opens at the threshold.
LEMMA FailureKey ==
  ASSUME NEW k, KeyInv(k)
  PROVE  /\ KeyInv(FAILURE_SCRIPT(k))
         /\ FAILURE_SCRIPT(k).state # "half_open"
         /\ k.state = "open" => FAILURE_SCRIPT(k).state = "open"
         /\ FAILURE_SCRIPT(k).state = next_state_after_failure(k)
<1>1. CASE k.state \in {"open", "half_open"}
  BY <1>1, TouchedKey, OpenedKey
     DEF FAILURE_SCRIPT, KeyInv, next_state_after_failure, evaluate_circuit
<1>2. CASE k.state = "closed"
  <2> DEFINE t == touched(k)
  <2>0. /\ t \in Snapshot
        /\ t.state = k.state
        /\ t.half_open_probes = k.half_open_probes
        /\ t.failure_count = k.failure_count
        /\ t.success_count = k.success_count
    BY TouchedKey DEF KeyInv
  <2> DEFINE counted == [t EXCEPT !.failure_count = @ + 1]
  <2>1. /\ counted \in Snapshot
        /\ counted.state = "closed"
        /\ counted.failure_count = k.failure_count + 1
    <3> HIDE DEF t
    <3> QED
      BY Zenon, <1>2, <2>0, PlusOne
  <2>2. FAILURE_SCRIPT(k) =
          IF counted.failure_count >= FailureThreshold THEN opened(counted) ELSE counted
    BY <1>2 DEF FAILURE_SCRIPT
  <2>3. k.failure_count \in Nat
    BY DEF KeyInv, Snapshot
  <2> HIDE DEF counted
  <2>4. CASE k.failure_count + 1 >= FailureThreshold
    BY <1>2, <2>1, <2>2, <2>3, <2>4, OpenedKey, PolicyAssumption
       DEF next_state_after_failure, evaluate_circuit
  <2>5. CASE k.failure_count + 1 < FailureThreshold
    BY <1>2, <2>1, <2>2, <2>3, <2>5, PolicyAssumption
       DEF KeyInv, next_state_after_failure, evaluate_circuit
  <2> QED
    BY <2>3, <2>4, <2>5, PolicyAssumption
<1> QED
  BY <1>1, <1>2 DEF KeyInv, Snapshot, CircuitState

\* The success script closes a half-open circuit at the threshold and never an open one.
LEMMA SuccessKey ==
  ASSUME NEW k, KeyInv(k)
  PROVE  /\ KeyInv(SUCCESS_SCRIPT(k))
         /\ k.state = "open" => SUCCESS_SCRIPT(k).state = "open"
         /\ SUCCESS_SCRIPT(k).state = "half_open" =>
              /\ k.state = "half_open"
              /\ SUCCESS_SCRIPT(k).half_open_probes = k.half_open_probes
         /\ k.state # "open" => SUCCESS_SCRIPT(k).state = next_state_after_success(k)
<1> USE DEF next_state_after_success, evaluate_circuit
<1>0. k.success_count \in Nat
  BY DEF KeyInv, Snapshot
<1>1. CASE k.state = "closed"
  BY <1>1, AbsentKey DEF SUCCESS_SCRIPT
<1>2. CASE k.state = "open"
  BY <1>2, TouchedKey DEF SUCCESS_SCRIPT
<1>3. CASE k.state = "half_open" /\ k.success_count + 1 >= SuccessThreshold
  BY <1>0, <1>3, AbsentKey, PolicyAssumption DEF SUCCESS_SCRIPT
<1>4. CASE k.state = "half_open" /\ ~ (k.success_count + 1 >= SuccessThreshold)
  <2> DEFINE t == touched(k)
  <2>0. /\ t \in Snapshot
        /\ t.state = k.state
        /\ t.half_open_probes = k.half_open_probes
        /\ t.failure_count = k.failure_count
        /\ t.success_count = k.success_count
    BY TouchedKey DEF KeyInv
  <2> DEFINE h == [t EXCEPT !.success_count = @ + 1]
  <2>1. SUCCESS_SCRIPT(k) = h
    BY <1>4 DEF SUCCESS_SCRIPT
  <2>2. /\ h \in Snapshot
        /\ h.state = "half_open"
        /\ h.half_open_probes = k.half_open_probes
        /\ h.success_count = k.success_count + 1
    <3> HIDE DEF t
    <3> QED
      BY Zenon, <1>4, <2>0, PlusOne
  <2>3. k.success_count \in Nat
    BY DEF KeyInv, Snapshot
  <2> HIDE DEF h
  <2> QED
    BY <1>4, <2>1, <2>2, <2>3, PolicyAssumption DEF KeyInv
<1> QED
  BY <1>1, <1>2, <1>3, <1>4 DEF KeyInv, Snapshot, CircuitState

-----------------------------------------------------------------------------
\* The initial state satisfies the invariant.
LEMMA InitCInv == Init => CInv
<1> SUFFICES ASSUME Init PROVE CInv
  OBVIOUS
<1>1. call \in Calls
  BY DEF Init, Calls, idle, IN_PROCESS_MAX_ATTEMPTS
<1>2. KeyInv(circuit) /\ circuit.state = "closed"
  BY AbsentKey DEF Init
<1> QED
  BY <1>1, <1>2 DEF Init, CInv, ProbesCounted

\* Writing a hash that counts the running probes keeps the invariant.
LEMMA WriteStep ==
  ASSUME NEW k, NEW running \in SUBSET Callers, KeyInv(k), writes(k, running), call' \in Calls,
         k.state = "half_open" => Cardinality(running) <= k.half_open_probes
  PROVE  CInv'
<1>1. circuit' = k /\ probing' = IF k.state = "half_open" THEN running ELSE {}
  BY DEF writes
<1>2. KeyInv(circuit)'
  BY <1>1 DEF KeyInv
<1> QED
  BY <1>1, <1>2 DEF CInv, ProbesCounted

\* Removing a call from the running probes does not raise their number.
LEMMA FewerProbes ==
  ASSUME CInv, NEW c \in Callers
  PROVE  /\ Cardinality(probing) \in Nat
         /\ Cardinality(probing \ {c}) \in Nat
         /\ Cardinality(probing \ {c}) <= Cardinality(probing)
         /\ Cardinality(probing \union {c}) \in Nat
         /\ Cardinality(probing \union {c}) <= Cardinality(probing) + 1
         /\ circuit.half_open_probes \in Nat
<1>1. IsFiniteSet(probing)
  BY CallersAssumption, FS_Subset DEF CInv
<1>2. Cardinality(probing) \in Nat
  BY <1>1, FS_CardinalityType
<1>3. IsFiniteSet(probing \ {c}) /\ Cardinality(probing \ {c}) <= Cardinality(probing)
  BY <1>1, FS_Subset
<1>4. /\ IsFiniteSet(probing \union {c})
      /\ Cardinality(probing \union {c}) =
           IF c \in probing THEN Cardinality(probing) ELSE Cardinality(probing) + 1
  BY <1>1, FS_AddElement
<1>5. Cardinality(probing \ {c}) \in Nat
  BY <1>3, FS_CardinalityType
<1> QED
  BY <1>2, <1>3, <1>4, <1>5 DEF CInv, KeyInv, Snapshot

\* Every step of a call keeps the invariant and leaves an open circuit unclosed.
LEMMA CallStep ==
  ASSUME CInv, NEW c \in Callers, Calling(c)
  PROVE  /\ CInv'
         /\ circuit.state = "open" => circuit'.state # "closed"
<1> /\ KeyInv(circuit)
    /\ call \in Calls
    /\ probing \subseteq Callers
    /\ probing \ {c} \in SUBSET Callers
    /\ probing \union {c} \in SUBSET Callers
    /\ ProbesCounted
  BY DEF CInv
<1>0. call' \in Calls
  <2>1. \/ call' = call
        \/ call' = [call EXCEPT ![c] = idle]
        \/ \E attempts \in {1, 2} :
             call' = [call EXCEPT ![c] = [phase |-> "admitted", left |-> attempts]]
        \/ call' = [call EXCEPT ![c] = [phase |-> "calling", left |-> call[c].left]]
        \/ /\ call[c].left > 1
           /\ call' = [call EXCEPT ![c] = [phase |-> "admitted", left |-> call[c].left - 1]]
    BY DEF Calling, Admit, Refuse, AdmitUnchecked, EnterSlot, SlotRejected, CallSucceeds,
           CallFails, RetryInProcess, EndsUnreported, phase, IN_PROCESS_MAX_ATTEMPTS
  <2>2. call[c].left \in 0 .. 2
    BY DEF Calls, IN_PROCESS_MAX_ATTEMPTS
  <2> QED
    BY <2>1, <2>2 DEF Calls, idle, IN_PROCESS_MAX_ATTEMPTS
<1>1. CASE Admit(c)
  <2> DEFINE h == ALLOW_SCRIPT(circuit).hash
  <2>1. ALLOW_SCRIPT(circuit).allowed /\ writes(h, probing \union {c})
    BY <1>1 DEF Admit
  <2>2. KeyInv(h) /\ (circuit.state = "open" => h.state # "closed")
    BY AllowKey
  <2>3. h.state = "half_open" => Cardinality(probing \union {c}) <= h.half_open_probes
    <3>1. CASE circuit.state = "half_open"
      <4>1. h.half_open_probes = circuit.half_open_probes + 1
        BY <2>1, <3>1, AllowKey
      <4>2. Cardinality(probing) <= circuit.half_open_probes
        BY <3>1 DEF ProbesCounted
      <4>3. /\ Cardinality(probing) \in Nat
            /\ Cardinality(probing \union {c}) \in Nat
            /\ Cardinality(probing \union {c}) <= Cardinality(probing) + 1
            /\ circuit.half_open_probes \in Nat
        BY Zenon, FewerProbes
      <4> HIDE DEF h
      <4> QED
        BY <4>1, <4>2, <4>3
    <3>2. CASE circuit.state # "half_open" /\ h.state = "half_open"
      <4>1. h.half_open_probes = 1
        BY <3>2, AllowKey
      <4>2. probing = {} /\ Cardinality(probing) = 0
        BY <3>2, FS_EmptySet DEF ProbesCounted
      <4> HIDE DEF h
      <4> QED
        BY <4>1, <4>2, FewerProbes
    <3> QED
      BY <3>1, <3>2
  <2>4. circuit' = h
    BY <2>1 DEF writes
  <2> HIDE DEF h
  <2> QED
    BY <1>0, <2>1, <2>2, <2>3, <2>4, WriteStep
<1>2. CASE Refuse(c) \/ AdmitUnchecked(c)
  <2>1. PICK k \in {circuit, ALLOW_SCRIPT(circuit).hash} : writes(k, probing)
    BY <1>2 DEF Refuse, AdmitUnchecked
  <2>2. KeyInv(k) /\ (circuit.state = "open" => k.state # "closed")
    BY <2>1, AllowKey
  <2>3. k.state = "half_open" => Cardinality(probing) <= k.half_open_probes
    <3>1. CASE circuit.state = "half_open"
      <4>1. \/ k.half_open_probes = circuit.half_open_probes
            \/ k.half_open_probes = circuit.half_open_probes + 1
        BY <2>1, <3>1, AllowKey
      <4>2. Cardinality(probing) <= circuit.half_open_probes
        BY <3>1 DEF ProbesCounted
      <4>3. Cardinality(probing) \in Nat /\ circuit.half_open_probes \in Nat
        BY Zenon, FewerProbes
      <4> QED
        BY <4>1, <4>2, <4>3
    <3>2. CASE circuit.state # "half_open" /\ k.state = "half_open"
      <4>1. k.half_open_probes = 1
        BY <2>1, <3>2, AllowKey
      <4>2. Cardinality(probing) = 0
        BY <3>2, FS_EmptySet DEF ProbesCounted
      <4> QED
        BY <4>1, <4>2
    <3> QED
      BY <3>1, <3>2
  <2> QED
    BY <1>0, <2>1, <2>2, <2>3, WriteStep DEF writes
<1>3. CASE EnterSlot(c)
  BY <1>0, <1>3 DEF EnterSlot, CInv, KeyInv, ProbesCounted
<1>4. CASE SlotRejected(c) \/ EndsUnreported(c) \/ CallSucceeds(c) \/ CallFails(c)
  <2>1. PICK k \in {circuit, SUCCESS_SCRIPT(circuit), FAILURE_SCRIPT(circuit)} :
          writes(k, probing \ {c})
    BY <1>4 DEF SlotRejected, EndsUnreported, CallSucceeds, CallFails
  <2>2. /\ KeyInv(k)
        /\ circuit.state = "open" => k.state # "closed"
        /\ k.state = "half_open" =>
             circuit.state = "half_open" /\ k.half_open_probes = circuit.half_open_probes
    BY <2>1, SuccessKey, FailureKey
  <2>3. k.state = "half_open" => Cardinality(probing \ {c}) <= k.half_open_probes
    BY <2>2, FewerProbes DEF ProbesCounted
  <2> QED
    BY <1>0, <2>1, <2>2, <2>3, WriteStep DEF writes
<1>5. CASE RetryInProcess(c)
  <2>1. PICK k \in {circuit, FAILURE_SCRIPT(circuit)} : writes(k, probing)
    BY <1>5 DEF RetryInProcess
  <2>2. /\ KeyInv(k)
        /\ circuit.state = "open" => k.state # "closed"
        /\ k.state = "half_open" => k = circuit
    BY <2>1, FailureKey
  <2>3. k.state = "half_open" => Cardinality(probing) <= k.half_open_probes
    BY <2>2 DEF ProbesCounted
  <2> QED
    BY <1>0, <2>1, <2>2, <2>3, WriteStep DEF writes
<1> QED
  BY <1>1, <1>2, <1>3, <1>4, <1>5 DEF Calling

\* Every step keeps the invariant, and only an expired key closes an open circuit.
LEMMA NextCInv ==
  ASSUME CInv, [Next]_vars
  PROVE  CInv' /\ (circuit.state = "open" /\ circuit'.state = "closed" => circuit.due)
<1>1. CASE TimePasses
  <2>1. UNCHANGED <<call, probing>>
    BY <1>1 DEF TimePasses
  <2>2. /\ circuit' \in Snapshot
        /\ circuit'.state = circuit.state
        /\ circuit'.failure_count = circuit.failure_count
        /\ circuit'.success_count = circuit.success_count
        /\ circuit'.half_open_probes = circuit.half_open_probes
    BY Zenon, <1>1 DEF TimePasses, CInv, KeyInv, Snapshot
  <2> QED
    BY <2>1, <2>2 DEF CInv, KeyInv, ProbesCounted
<1>2. CASE KeyExpires
  <2>1. circuit.due /\ writes(Absent, {}) /\ call' = call
    BY <1>2 DEF KeyExpires
  <2> QED
    BY <2>1, AbsentKey, WriteStep DEF CInv
<1>3. ASSUME NEW c \in Callers, Calling(c)
      PROVE  CInv' /\ (circuit.state = "open" => circuit'.state # "closed")
  BY <1>3, CallStep
<1>4. CASE UNCHANGED vars
  BY <1>4 DEF vars, CInv, KeyInv, ProbesCounted
<1> QED
  BY <1>1, <1>2, <1>3, <1>4 DEF Next

\* The inductive invariant holds of every behaviour.
THEOREM CircuitInvariance == Spec => []CInv
<1>1. CInv /\ [Next]_vars => CInv'
  BY NextCInv
<1> QED
  BY InitCInv, <1>1, PTL DEF Spec

\* Every variable keeps its type, whatever the policy.
THEOREM CircuitTypeCorrect == Spec => []TypeOK
<1>1. CInv => TypeOK
  BY DEF CInv, KeyInv, Calls, TypeOK
<1> QED
  BY <1>1, CircuitInvariance, PTL

\* The counters of the hash never reach a limit without the state changing.
THEOREM CountersAlwaysDecide == Spec => []CountersDecide
<1>1. CInv => CountersDecide
  BY DEF CInv, KeyInv, CountersDecide
<1> QED
  BY <1>1, CircuitInvariance, PTL

\* The whole fleet never runs more probes of an episode than the policy allows.
THEOREM ProbesStayLimited == Spec => []ProbesLimited
<1>1. CInv => ProbesLimited
  <2> SUFFICES ASSUME CInv PROVE ProbesLimited
    OBVIOUS
  <2>1. CASE circuit.state = "half_open"
    <3>1. IsFiniteSet(probing)
      BY CallersAssumption, FS_Subset DEF CInv
    <3>2. Cardinality(probing) \in Nat
      BY <3>1, FS_CardinalityType
    <3> QED
      BY <2>1, <3>2, PolicyAssumption DEF CInv, KeyInv, Snapshot, ProbesCounted, ProbesLimited
  <2>2. CASE circuit.state # "half_open"
    BY <2>2, FS_EmptySet, PolicyAssumption DEF CInv, ProbesCounted, ProbesLimited
  <2> QED
    BY <2>1, <2>2
<1> QED
  BY <1>1, CircuitInvariance, PTL

(***************************************************************************)
(* The scripts decide as the pure functions do in every reachable state,   *)
(* but for a success reported to an open circuit.                          *)
(***************************************************************************)
THEOREM ScriptsAgree == Spec => []ScriptsMirrorPolicies
<1>1. CInv => ScriptsMirrorPolicies
  BY AllowKey, FailureKey, SuccessKey DEF CInv, ScriptsMirrorPolicies
<1> QED
  BY <1>1, CircuitInvariance, PTL

\* No report closes an open circuit; only the expiry of its key does.
THEOREM OpenClosesThroughProbes == Spec => ClosesThroughProbes
<1>1. CInv /\ [Next]_vars =>
        [circuit.state = "open" /\ circuit'.state = "closed" => circuit.due]_vars
  BY NextCInv
<1> QED
  BY <1>1, CircuitInvariance, PTL DEF Spec, ClosesThroughProbes

-----------------------------------------------------------------------------
(***************************************************************************)
(* The token bucket of RateLimiter, and the rate it keeps, for every size  *)
(* of the bucket.                                                          *)
(*                                                                         *)
(* The invariant relates what was granted to what the bucket would have    *)
(* gained since it was last written, were it not for the cap: together     *)
(* they exceed a burst only by the lateness allowed and by what was        *)
(* counted twice.                                                          *)
(***************************************************************************)
CONSTANTS Burst, Cost, TTL, MaxLateness
VARIABLES clock, key, tokens, updated_at, expires_at, level, regained

Bucket == INSTANCE RateLimiter


(***************************************************************************)
(* What the settings guarantee: a bucket holds at least a token, and the   *)
(* key lives at least as long as an empty bucket takes to fill, seen by    *)
(* the latest caller (_ttl_seconds: at least four times as long).          *)
(***************************************************************************)
Sized ==
  /\ Burst \in Nat
  /\ Cost \in Nat \ {0}
  /\ Cost <= Burst
  /\ MaxLateness \in Nat
  /\ TTL \in Nat
  /\ Burst + MaxLateness <= TTL

Uncapped == tokens + (clock - updated_at)

Paid ==
  /\ key = "present" =>
       /\ level + Bucket!Least(Burst + MaxLateness, Uncapped) <= Burst + MaxLateness + regained
       /\ updated_at <= clock
       /\ updated_at + TTL <= expires_at
  /\ key = "absent" => level <= regained

BucketInv == Bucket!TypeOK /\ Paid

\* What a script finds is between nothing and a burst.
LEMMA AvailableInRange ==
  ASSUME Sized, Bucket!TypeOK, NEW now \in Int
  PROVE  Bucket!available(now) \in 0 .. Burst
BY DEF Sized, Bucket!TypeOK, Bucket!available, Bucket!Least, Bucket!Most

\* Init: no key, nothing granted.
LEMMA InitBucketInv == ASSUME Sized PROVE Bucket!Init => BucketInv
BY DEF Sized, Bucket!Init, BucketInv, Bucket!TypeOK, Paid

\* A script keeps the types, whatever time it is given.
LEMMA ScriptTypes ==
  ASSUME Sized, Bucket!TypeOK, NEW now \in Int, Bucket!script(now)
  PROVE  /\ key' = "present"
         /\ tokens' \in 0 .. Burst
         /\ updated_at' \in Int
         /\ expires_at' \in Nat
         /\ regained' \in Nat
<1>1. Bucket!available(now) \in 0 .. Burst
  BY AvailableInRange
<1>2. tokens' \in 0 .. Burst
  BY <1>1 DEF Bucket!script, Sized
<1>3. regained' \in Nat
  BY DEF Bucket!script, Bucket!TypeOK, Bucket!Most
<1> QED
  BY <1>2, <1>3 DEF Bucket!script, Bucket!TypeOK, Sized

(***************************************************************************)
(* What a script takes out of the bucket it may grant, and nothing else    *)
(* changes the balance.                                                    *)
(***************************************************************************)
LEMMA ScriptPays ==
  ASSUME Sized, BucketInv, NEW lateness \in 0 .. MaxLateness, Bucket!script(clock - lateness),
         clock' = clock,
         \/ level' = level
         \/ Bucket!available(clock - lateness) >= Cost /\ level' = level + Cost
  PROVE  Paid'
<1>1. PICK now \in Int : now = clock - lateness /\ clock - now \in 0 .. MaxLateness
  BY DEF BucketInv, Bucket!TypeOK, Sized
<1>2. PICK found \in 0 .. Burst : found = Bucket!available(now)
  BY AvailableInRange DEF BucketInv
<1>3. /\ key' = "present"
      /\ updated_at' = now
      /\ expires_at' = clock + TTL
      /\ tokens' = IF found >= Cost THEN found - Cost ELSE found
      /\ regained' = IF key = "present" THEN regained + Bucket!Most(0, updated_at - now) ELSE regained
  BY <1>1, <1>2 DEF Bucket!script
<1>4. level' + tokens' <= level + found
  BY <1>1, <1>2, <1>3 DEF Sized, BucketInv, Bucket!TypeOK
<1>5. level + found + (clock - now) <= Burst + MaxLateness + regained'
  <2>1. CASE key = "absent"
    BY <1>1, <1>2, <1>3, <2>1 DEF Sized, BucketInv, Paid, Bucket!TypeOK
  <2>2. CASE key = "present" /\ updated_at <= now
    <3>1. regained' = regained
      BY <1>1, <1>3, <2>2 DEF Bucket!Most, BucketInv, Bucket!TypeOK
    <3>2. found <= Burst /\ found <= tokens + (now - updated_at)
      BY <1>1, <1>2, <2>2 DEF Bucket!available, Bucket!Least, Bucket!Most, BucketInv, Bucket!TypeOK, Sized
    <3>3. level + Bucket!Least(Burst + MaxLateness, Uncapped) <= Burst + MaxLateness + regained
      BY <2>2 DEF BucketInv, Paid
    <3> QED
      BY <1>1, <1>2, <3>1, <3>2, <3>3 DEF Bucket!Least, Uncapped, BucketInv, Bucket!TypeOK, Sized
  <2>3. CASE key = "present" /\ now < updated_at
    <3>1. regained' = regained + (updated_at - now)
      BY <1>1, <1>3, <2>3 DEF Bucket!Most, BucketInv, Bucket!TypeOK
    <3>2. found <= tokens
      BY <1>1, <1>2, <2>3 DEF Bucket!available, Bucket!Least, Bucket!Most, BucketInv, Bucket!TypeOK, Sized
    <3>3. /\ level + Bucket!Least(Burst + MaxLateness, Uncapped) <= Burst + MaxLateness + regained
          /\ updated_at <= clock
      BY <2>3 DEF BucketInv, Paid
    <3>4. Bucket!Least(Burst + MaxLateness, Uncapped) = Uncapped
      BY <1>1, <2>3, <3>3 DEF Bucket!Least, Uncapped, BucketInv, Bucket!TypeOK, Sized
    <3> QED
      BY <1>1, <1>2, <3>1, <3>2, <3>3, <3>4 DEF Uncapped, BucketInv, Bucket!TypeOK, Sized
  <2> QED
    BY <1>1, <2>1, <2>2, <2>3 DEF BucketInv, Bucket!TypeOK
<1>6. regained' \in Nat /\ tokens' \in 0 .. Burst
  BY <1>1, ScriptTypes DEF BucketInv
<1>7. level' \in Nat
  BY DEF BucketInv, Bucket!TypeOK, Sized
<1>8. Uncapped' = tokens' + (clock - now)
  BY <1>3 DEF Uncapped
<1>9. (level + Bucket!Least(Burst + MaxLateness, Uncapped) <= Burst + MaxLateness + regained)'
  <2>1. PICK granted \in Int : granted = level'
    BY <1>7
  <2>2. PICK left \in Int : left = tokens'
    BY <1>6
  <2>3. PICK twice \in Int : twice = regained'
    BY <1>6
  <2>4. PICK late \in Int : late = clock - now
    BY <1>1
  <2>5. PICK before \in Int : before = level
    BY DEF BucketInv, Bucket!TypeOK
  <2>6. PICK most \in Int : most = Burst + MaxLateness
    BY DEF Sized
  <2>7. granted + left <= before + found
    BY <1>4, <2>1, <2>2, <2>5, Zenon
  <2>8. before + found + late <= most + twice
    BY <1>5, <2>3, <2>4, <2>5, <2>6
  <2>9. granted + (left + late) <= most + twice
    BY <2>7, <2>8
  <2>10. granted + Bucket!Least(most, left + late) <= most + twice
    BY <2>9 DEF Bucket!Least
  <2> QED
    BY <1>8, <2>1, <2>2, <2>3, <2>4, <2>6, <2>10
<1>10. updated_at' <= clock' /\ updated_at' + TTL <= expires_at'
  BY <1>1, <1>3 DEF BucketInv, Bucket!TypeOK, Sized
<1> QED
  BY <1>3, <1>9, <1>10 DEF Paid

\* Every step keeps the invariant.
LEMMA NextBucketInv == ASSUME Sized, BucketInv, [Bucket!Next]_(Bucket!vars) PROVE BucketInv'
<1>1. ASSUME NEW lateness \in 0 .. MaxLateness, Bucket!Acquire(lateness) PROVE BucketInv'
  <2>1. clock - lateness \in Int
    BY DEF BucketInv, Bucket!TypeOK, Sized
  <2>2. Bucket!TypeOK'
    BY <1>1, <2>1, ScriptTypes DEF Bucket!Acquire, BucketInv, Bucket!TypeOK, Sized
  <2>3. Paid'
    BY <1>1, ScriptPays DEF Bucket!Acquire
  <2> QED
    BY <2>2, <2>3 DEF BucketInv
<1>2. ASSUME NEW lateness \in 0 .. MaxLateness, Bucket!AnswerLost(lateness) PROVE BucketInv'
  <2>1. clock - lateness \in Int
    BY DEF BucketInv, Bucket!TypeOK, Sized
  <2>2. Bucket!TypeOK'
    BY <1>2, <2>1, ScriptTypes DEF Bucket!AnswerLost, BucketInv, Bucket!TypeOK, Sized
  <2>3. Paid'
    BY <1>2, ScriptPays DEF Bucket!AnswerLost
  <2> QED
    BY <2>2, <2>3 DEF BucketInv
<1>3. CASE Bucket!Tick
  BY <1>3 DEF Bucket!Tick, Bucket!bucket, BucketInv, Bucket!TypeOK, Paid, Uncapped, Bucket!Least, Bucket!Most, Sized
<1>4. CASE Bucket!Expire
  BY <1>4 DEF Bucket!Expire, BucketInv, Bucket!TypeOK, Paid, Uncapped, Bucket!Least, Sized
<1>5. CASE UNCHANGED Bucket!vars
  BY <1>5 DEF Bucket!vars, BucketInv, Bucket!TypeOK, Paid, Uncapped, Bucket!Least
<1> QED
  BY <1>1, <1>2, <1>3, <1>4, <1>5 DEF Bucket!Next

\* Whatever the sizes, the bucket's invariant holds in every state.
THEOREM BucketInvariance == ASSUME Sized PROVE Bucket!Spec => []BucketInv
<1>1. Bucket!Init => BucketInv
  BY InitBucketInv
<1>2. BucketInv /\ [Bucket!Next]_(Bucket!vars) => BucketInv'
  BY NextBucketInv
<1> QED
  BY <1>1, <1>2, PTL DEF Bucket!Spec

(***************************************************************************)
(* rate_limiter.py's promise, for every burst, cost and time to live: what *)
(* the bucket grants in any stretch of time is bounded by a burst and the  *)
(* sustained rate, the lateness of callers and the time counted twice.     *)
(***************************************************************************)
THEOREM SettlesToTheRate == ASSUME Sized PROVE Bucket!Spec => []Bucket!RateKept
<1>1. BucketInv => Bucket!RateKept
  BY DEF BucketInv, Paid, Bucket!TypeOK, Bucket!RateKept, Uncapped, Bucket!Least, Sized
<1> QED
  BY <1>1, BucketInvariance, PTL

(***************************************************************************)
(* The Retry-After handed to a refused caller is what the script will ask  *)
(* for, no more and no less, in every state of the bucket.                 *)
(***************************************************************************)
THEOREM RetryAfterAgrees == ASSUME Sized PROVE Bucket!Spec => []Bucket!RetryAfterIsExact
<1>1. ASSUME BucketInv PROVE Bucket!RetryAfterIsExact
  <2>1. updated_at <= clock \/ key = "absent"
    BY <1>1 DEF BucketInv, Paid, Bucket!TypeOK
  <2>2. Bucket!available(clock + Bucket!retry_after(clock)) >= Cost
    BY <1>1, <2>1 DEF BucketInv, Bucket!TypeOK, Bucket!retry_after, Bucket!available, Bucket!Least, Bucket!Most, Sized
  <2>3. ASSUME NEW wait \in 0 .. Cost, wait < Bucket!retry_after(clock)
        PROVE  Bucket!available(clock + wait) < Cost
    BY <1>1, <2>1, <2>3 DEF BucketInv, Bucket!TypeOK, Bucket!retry_after, Bucket!available, Bucket!Least, Bucket!Most, Sized
  <2> QED
    BY <2>2, <2>3 DEF Bucket!RetryAfterIsExact
<1>2. BucketInv => Bucket!RetryAfterIsExact
  BY <1>1
<1> QED
  BY <1>2, BucketInvariance, PTL
=============================================================================
