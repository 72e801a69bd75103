---------------------------- MODULE RateLimiter ----------------------------
(***************************************************************************)
(* A token bucket in Redis, shared by every process that takes from it:    *)
(* the limit on calls to a provider (infrastructure/redis/rate_limiter.py) *)
(* and the limits on the API's own clients (inbound_rate_limiter.py).      *)
(*                                                                         *)
(* A tick of the clock is the time that refills one unit, so a token is    *)
(* Cost units and rates do not appear.  A Lua script is one step, but the  *)
(* time it is given is the caller's: time.time(), read before the script   *)
(* is sent, on a clock that may run behind.  lateness is what is missing   *)
(* when the script runs.                                                   *)
(***************************************************************************)
EXTENDS Integers

CONSTANTS
  Burst,       \* units in a full bucket
  Cost,        \* units in a token
  TTL,         \* ticks the key outlives its last script
  MaxLateness  \* bound: how far a caller's time may be behind

VARIABLES
  clock,
  key,         \* "present" when Redis has the key, or "absent"
  tokens,      \* the fields of the hash
  updated_at,
  expires_at,  \* when Redis deletes the key
  level,       \* units granted that the sustained rate has not yet paid for
  regained     \* ticks counted twice, because a script was given an older time than the last

bucket == <<key, tokens, updated_at, expires_at>>
vars == <<clock, key, tokens, updated_at, expires_at, level, regained>>

Least(a, b) == IF a <= b THEN a ELSE b
Most(a, b) == IF a <= b THEN b ELSE a

Init ==
  /\ clock = 0
  /\ key = "absent"
  /\ tokens = 0
  /\ updated_at = 0
  /\ expires_at = 0
  /\ level = 0
  /\ regained = 0

\* What the script finds in the bucket at time now.
available(now) ==
  IF key = "present" THEN Least(Burst, tokens + Most(0, now - updated_at)) ELSE Burst

\* _TOKEN_BUCKET_SCRIPT and _TOKEN_BUCKET: the key is written whatever the answer.
script(now) ==
  /\ key' = "present"
  /\ tokens' = IF available(now) >= Cost THEN available(now) - Cost ELSE available(now)
  /\ updated_at' = now
  /\ expires_at' = clock + TTL
  /\ regained' = IF key = "present" THEN regained + Most(0, updated_at - now) ELSE regained

\* acquire() and allow(): granted or refused.
Acquire(lateness) ==
  /\ script(clock - lateness)
  /\ level' = IF available(clock - lateness) >= Cost THEN level + Cost ELSE level
  /\ UNCHANGED clock

(***************************************************************************)
(* A RedisError after the script ran.  The caller is let through, or the   *)
(* limit fails closed: either way its answer is not the bucket's.          *)
(***************************************************************************)
AnswerLost(lateness) ==
  /\ script(clock - lateness)
  /\ UNCHANGED <<clock, level>>

Tick ==
  /\ clock' = clock + 1
  /\ level' = Most(0, level - 1)
  /\ UNCHANGED <<bucket, regained>>

\* EXPIRE.
Expire ==
  /\ key = "present"
  /\ clock >= expires_at
  /\ key' = "absent"
  /\ UNCHANGED <<clock, tokens, updated_at, expires_at, level, regained>>

Next ==
  \/ \E lateness \in 0 .. MaxLateness : Acquire(lateness) \/ AnswerLost(lateness)
  \/ Tick
  \/ Expire

Spec == Init /\ [][Next]_vars

\* retry_after(), asked at time now.
retry_after(now) == IF available(now) >= Cost THEN 0 ELSE Cost - available(now)

-----------------------------------------------------------------------------
\* Every variable keeps its type, and the bucket never holds more than a burst.
TypeOK ==
  /\ clock \in Nat
  /\ key \in {"absent", "present"}
  /\ tokens \in 0 .. Burst
  /\ updated_at \in Int
  /\ expires_at \in Nat
  /\ level \in Nat
  /\ regained \in Nat

(***************************************************************************)
(* "A client that has been idle can burst up to the bucket size and then   *)
(* settles to the sustained rate" (rate_limiter.py): in any stretch of     *)
(* time the bucket grants a burst and what the stretch refills, and beyond *)
(* that only how late a caller's time may be, and what was counted twice.  *)
(* The expiry of the key adds nothing.                                     *)
(***************************************************************************)
RateKept == level <= Burst + MaxLateness + regained

(***************************************************************************)
(* retry_after, computed in Python, tells a refused caller how long the    *)
(* script will go on refusing: no shorter and no longer.                   *)
(***************************************************************************)
RetryAfterIsExact ==
  /\ available(clock + retry_after(clock)) >= Cost
  /\ \A wait \in 0 .. Cost : wait < retry_after(clock) => available(clock + wait) < Cost
=============================================================================
