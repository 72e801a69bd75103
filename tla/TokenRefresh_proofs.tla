------------------------- MODULE TokenRefresh_proofs -------------------------
(***************************************************************************)
(* Proofs about TokenRefresh, for any number of calls, tokens and faults.  *)
(***************************************************************************)
EXTENDS TokenRefresh, TLAPS

\* LeaseStands, for one call.
Lease(c) == call[c].holds /\ c \notin lapsed => lock = c

(***************************************************************************)
(* RefreshRecovers for one call, and why: unless something befell it, a    *)
(* repetition relies on good credentials only.  From its invalidation of   *)
(* the cache until it has a token, the cache holds no revoked one, and the *)
(* token it goes on with is valid.                                         *)
(***************************************************************************)
Recovers(c) ==
  /\ at(c, "unauthorized") => mishap[c] # "none"
  /\ call[c].at \in {"idle", "invalidate"} => call[c].send = 1
  /\ call[c].send = 2 /\ mishap[c] = "none"
     => /\ call[c].at \in {"headers", "lock", "recheck"} /\ cache # NoToken
           => token[cache] # "revoked"
        /\ call[c].at \in {"publish", "unlock", "send"} => bearer_is_valid(call[c].token)

IInv == TypeOK /\ \A c \in Calls : Lease(c) /\ Recovers(c)

\* Initially no call runs.
LEMMA InitInv == Init => IInv
<1> SUFFICES ASSUME Init PROVE IInv
  OBVIOUS
<1>1. TypeOK
  BY MaxFaultsAssumption
     DEF Init, TypeOK, TokenState, CallPoint, NoToken, Mishap
<1>2. ASSUME NEW c \in Calls PROVE Lease(c) /\ Recovers(c)
  BY DEF Init, Lease, Recovers, at, active
<1> QED
  BY <1>1, <1>2 DEF IInv

\* A fault is counted within its bound.
LEMMA FaultCounted ==
  ASSUME TypeOK, Fault \/ UNCHANGED faults
  PROVE  faults' \in 0 .. MaxFaults
  BY MaxFaultsAssumption DEF TypeOK, Fault

\* What a call relies on: the token in the cache, if any, and the token it goes on with.
LEMMA Relied ==
  ASSUME TypeOK, NEW d \in Calls
  PROVE  /\ cache # NoToken => cache \in Tokens
         /\ call[d].at \in {"publish", "unlock", "send"} => call[d].token \in Tokens
  BY DEF TypeOK

\* A call that is not touched stays sound when no token it may rely on is spoiled.
LEMMA Untouched ==
  ASSUME TypeOK, NEW d \in Calls, Recovers(d),
         call'[d] = call[d], cache' = cache, mishap'[d] = mishap[d],
         \A u \in Tokens : /\ token[u] # "revoked" => token'[u] # "revoked"
                           /\ token[u] \in {"fresh", "ageing"} => token'[u] \in {"fresh", "ageing"}
  PROVE  Recovers(d)'
  BY Relied DEF Recovers, at, active, bearer_is_valid

\* Reading the cache, at the first look and under the lock.
LEMMA ReadStep ==
  ASSUME IInv, NEW c \in Calls, ReadCache(c) \/ Recheck(c)
  PROVE  IInv'
<1> TypeOK
  BY DEF IInv
<1> USE DEF TypeOK, ReadCache, Recheck, ReadToken, at, Go, GoWith
<1>1. faults' \in 0 .. MaxFaults
  BY FaultCounted
<1>2. cache' \in {cache, NoToken} /\ UNCHANGED <<token, lock, lapsed, mishap>>
  OBVIOUS
<1>3. \/ call' = [call EXCEPT ![c].at = "lock"] /\ ~ call[c].holds
      \/ call' = [call EXCEPT ![c].at = "fetch"]
      \/ /\ cache \in Tokens /\ token[cache] \in {"fresh", "revoked"}
         /\ \/ call' = [call EXCEPT ![c].at = "send", ![c].token = cache] /\ ~ call[c].holds
            \/ call' = [call EXCEPT ![c].at = "unlock", ![c].token = cache]
  BY DEF is_fresh
<1>4. call[c].at \in {"headers", "recheck"}
  OBVIOUS
<1>5. TypeOK'
  <2>1. call' \in [Calls -> [at : CallPoint, token : Tokens \union {NoToken}, send : 1 .. 2,
                             holds : BOOLEAN]]
    BY <1>3 DEF CallPoint
  <2>2. ASSUME NEW d \in Calls
        PROVE  /\ call'[d].holds => call'[d].at \in {"recheck", "fetch", "publish", "unlock"}
               /\ call'[d].at \in {"publish", "unlock", "send"} => call'[d].token # NoToken
    BY <1>3, <1>4 DEF NoToken, Tokens
  <2> QED
    BY <1>1, <1>2, <2>1, <2>2
<1>6. ASSUME NEW d \in Calls PROVE Lease(d)' /\ Recovers(d)'
  <2>1. Lease(d) /\ Recovers(d)
    BY DEF IInv
  <2>2. Lease(d)'
    BY <1>2, <1>3, <2>1 DEF Lease
  <2>3. CASE d = c
    BY <1>2, <1>3, <1>4, <2>1, <2>2, <2>3 DEF Recovers, bearer_is_valid, NoToken, Tokens
  <2>4. CASE d # c
    <3>1. call'[d] = call[d]
      BY <1>3, <2>4
    <3> QED
      BY <1>2, <2>1, <2>2, <3>1 DEF Recovers, bearer_is_valid
  <2> QED
    BY <2>3, <2>4
<1> QED
  BY <1>5, <1>6 DEF IInv

\* Starting a call, and taking the lock or going on without it.
LEMMA LockStep ==
  ASSUME IInv, NEW c \in Calls, Begin(c) \/ AcquireLock(c) \/ GiveUpLock(c)
  PROVE  IInv'
<1> TypeOK
  BY DEF IInv
<1> USE DEF TypeOK, Begin, AcquireLock, GiveUpLock, at, Go
<1>1. faults' \in 0 .. MaxFaults
  BY FaultCounted
<1>2. UNCHANGED <<token, cache, lapsed, mishap>> /\ call[c].at \in {"idle", "lock"}
  OBVIOUS
<1>3. \/ lock = Free /\ lock' = c /\ call' = [call EXCEPT ![c].at = "recheck", ![c].holds = TRUE]
      \/ /\ lock' = lock /\ ~ call[c].holds
         /\ \E point \in {"headers", "recheck"} : call' = [call EXCEPT ![c].at = point]
  OBVIOUS
<1>4. TypeOK'
  BY <1>1, <1>2, <1>3 DEF CallPoint
<1>5. ASSUME NEW d \in Calls PROVE Lease(d)'
  BY <1>2, <1>3, CallsAssumption DEF IInv, Lease
<1>6. ASSUME NEW d \in Calls PROVE Recovers(d)'
  <2>1. \/ call'[d] = call[d]
        \/ call[d].at = "idle" /\ call'[d].at = "headers" /\ call'[d].send = call[d].send
        \/ call[d].at = "lock" /\ call'[d].at = "recheck" /\ call'[d].send = call[d].send
    OBVIOUS
  <2>2. call[d].at = "idle" => call[d].send = 1
    BY DEF IInv, Recovers
  <2> QED
    BY <1>2, <2>1, <2>2 DEF IInv, Recovers, bearer_is_valid
<1> QED
  BY <1>4, <1>5, <1>6 DEF IInv

\* Issuing a token, which never spoils one that a call relies on.
LEMMA RequestTokenStep ==
  ASSUME IInv, NEW c \in Calls, RequestToken(c)
  PROVE  IInv'
<1> TypeOK
  BY DEF IInv
<1>1. PICK t \in Tokens : /\ token' = [token EXCEPT ![t] = "fresh"]
                          /\ call' = [call EXCEPT ![c].at = "publish", ![c].token = t]
  BY Zenon DEF RequestToken, issuable, GoWith
<1>2. UNCHANGED <<cache, lock, lapsed, mishap, faults>> /\ call[c].at = "fetch"
  BY DEF RequestToken, at
<1>3. t # NoToken
  BY MaxTokensAssumption DEF Tokens, NoToken
<1>4. TypeOK'
  <2>1. "publish" \in CallPoint /\ "fresh" \in TokenState
    BY DEF CallPoint, TokenState
  <2>2. /\ token' \in [Tokens -> TokenState]
        /\ call' \in [Calls -> [at : CallPoint, token : Tokens \union {NoToken}, send : 1 .. 2,
                               holds : BOOLEAN]]
    BY Zenon, <1>1, <2>1 DEF TypeOK
  <2>3. ASSUME NEW d \in Calls
        PROVE  /\ call'[d].holds => call'[d].at \in {"recheck", "fetch", "publish", "unlock"}
               /\ call'[d].at \in {"publish", "unlock", "send"} => call'[d].token # NoToken
    BY <1>1, <1>3 DEF TypeOK
  <2> QED
    BY <1>2, <2>2, <2>3 DEF TypeOK
<1>5. ASSUME NEW d \in Calls PROVE Lease(d)' /\ Recovers(d)'
  <2>1. Lease(d)'
    BY <1>1, <1>2 DEF IInv, TypeOK, Lease
  <2>2. \A u \in Tokens : /\ token[u] # "revoked" => token'[u] # "revoked"
                          /\ token[u] \in {"fresh", "ageing"} => token'[u] \in {"fresh", "ageing"}
    BY <1>1 DEF TypeOK
  <2>3. CASE d = c
    <3>1. call'[d].at = "publish" /\ call'[d].token = t /\ call'[d].send = call[d].send
      BY <1>1, <2>3 DEF TypeOK
    <3>2. token'[t] = "fresh"
      BY <1>1 DEF TypeOK
    <3> QED
      BY <1>2, <2>1, <3>1, <3>2 DEF Recovers, at, bearer_is_valid
  <2>4. CASE d # c
    <3>1. call'[d] = call[d]
      BY <1>1, <2>4 DEF TypeOK
    <3> QED
      <4>1. Recovers(d) /\ cache' = cache /\ mishap'[d] = mishap[d]
        BY <1>2 DEF IInv
      <4> QED
        BY Zenon, <2>1, <2>2, <3>1, <4>1, Untouched
  <2> QED
    BY <2>1, <2>3, <2>4
<1> QED
  BY <1>4, <1>5 DEF IInv

\* Publishing a token, or failing to; a revoked one befalls the calls that read the cache again.
LEMMA PublishStep ==
  ASSUME IInv, NEW c \in Calls, PublishToken(c)
  PROVE  IInv'
<1> TypeOK
  BY DEF IInv
<1> USE DEF TypeOK, PublishToken, at, Go
<1>1. faults' \in 0 .. MaxFaults
  BY FaultCounted
<1>2. /\ UNCHANGED <<token, lock, lapsed>> /\ call[c].at = "publish"
      /\ call' = [call EXCEPT ![c].at = "unlock"]
      /\ call[c].token \in Tokens
  BY DEF NoToken
<1>3. cache' \in {cache, call[c].token} /\ mishap' \in [Calls -> Mishap]
  BY DEF Befalls, Mishap
<1>4. ASSUME NEW d \in Calls
      PROVE  \/ mishap'[d] = "put_back"
             \/ /\ mishap'[d] = mishap[d]
                /\ \/ cache' = cache
                   \/ token[cache'] # "revoked"
                   \/ ~ rereads(d)
  BY <1>2 DEF Befalls
<1>5. TypeOK'
  <2>1. call' \in [Calls -> [at : CallPoint, token : Tokens \union {NoToken}, send : 1 .. 2,
                             holds : BOOLEAN]]
    BY <1>2 DEF CallPoint
  <2>2. ASSUME NEW d \in Calls
        PROVE  /\ call'[d].holds => call'[d].at \in {"recheck", "fetch", "publish", "unlock"}
               /\ call'[d].at \in {"publish", "unlock", "send"} => call'[d].token # NoToken
    BY <1>2
  <2> QED
    BY <1>1, <1>2, <1>3, <2>1, <2>2
<1>6. ASSUME NEW d \in Calls PROVE Lease(d)' /\ Recovers(d)'
  <2>1. Lease(d) /\ Recovers(d)
    BY DEF IInv
  <2>2. Lease(d)'
    BY <1>2, <2>1 DEF Lease
  <2>3. /\ call'[d].send = call[d].send /\ call'[d].token = call[d].token
        /\ \/ call'[d].at = call[d].at
           \/ call[d].at = "publish" /\ call'[d].at = "unlock"
    BY <1>2
  <2> QED
    BY <1>2, <1>4, <2>1, <2>2, <2>3 DEF Recovers, rereads, bearer_is_valid
<1> QED
  BY <1>5, <1>6 DEF IInv

\* Every way to let go of the lock: the end of the refresh, its failure and a crash.
LEMMA ReleaseStep ==
  ASSUME IInv, NEW c \in Calls, Unlock(c) \/ RequestTokenFails(c) \/ Crash(c)
  PROVE  IInv'
<1> TypeOK
  BY DEF IInv
<1> USE DEF TypeOK, Unlock, RequestTokenFails, Crash, after_release, at
<1>1. faults' \in 0 .. MaxFaults
  BY FaultCounted
<1>2. /\ UNCHANGED <<token, cache, mishap>>
      /\ lapsed' = lapsed \ {c}
      /\ lock' = lock \/ (lock = c /\ lock' = Free)
  BY DEF released
<1>3. \/ call[c].at = "unlock" /\ call' = [call EXCEPT ![c].at = "send", ![c].holds = FALSE]
      \/ call' = [call EXCEPT ![c].at = "unauthenticated", ![c].holds = FALSE]
      \/ call' = [call EXCEPT ![c].at = "crashed", ![c].token = NoToken, ![c].holds = FALSE]
  BY Zenon
<1>4. TypeOK'
  BY <1>1, <1>2, <1>3 DEF CallPoint
<1>5. ASSUME NEW d \in Calls PROVE Lease(d)' /\ Recovers(d)'
  BY <1>2, <1>3 DEF IInv, Lease, Recovers, bearer_is_valid
<1> QED
  BY <1>4, <1>5 DEF IInv

\* The request itself, and the refresh after its first 401.
LEMMA ExchangeStep ==
  ASSUME IInv, NEW c \in Calls, Exchange(c) \/ Invalidate(c)
  PROVE  IInv'
<1> TypeOK
  BY DEF IInv
<1> USE DEF TypeOK, at
<1>1. faults' \in 0 .. MaxFaults
  BY FaultCounted DEF Exchange, Invalidate
<1>2. UNCHANGED <<token, lock, lapsed>> /\ call[c].at \in {"send", "invalidate"}
  BY DEF Exchange, Invalidate
<1>3. CASE Exchange(c)
  <2>1. cache' = cache /\ call[c].at = "send"
    BY <1>3 DEF Exchange
  <2>2. \/ /\ mishap' = mishap
           /\ call' = [call EXCEPT ![c].at = "answered", ![c].token = NoToken]
        \/ /\ call[c].send = 1
           /\ call' = [call EXCEPT ![c].at = "invalidate", ![c].token = NoToken]
        \/ /\ mishap' = mishap /\ call[c].send = 2 /\ ~ bearer_is_valid(call[c].token)
           /\ call' = [call EXCEPT ![c].at = "unauthorized", ![c].token = NoToken]
        \/ /\ mishap'[c] = "refused"
           /\ call' = [call EXCEPT ![c].at = "unauthorized", ![c].token = NoToken]
    BY <1>3 DEF Exchange, GoWith, after_401, Befalls
  <2>5. /\ mishap' \in [Calls -> Mishap]
        /\ \A d \in Calls \ {c} : mishap'[d] = mishap[d]
    BY <1>3 DEF Exchange, Befalls, Mishap
  <2>3. TypeOK'
    BY <1>1, <1>2, <2>1, <2>2, <2>5 DEF CallPoint
  <2>4. ASSUME NEW d \in Calls PROVE Lease(d)' /\ Recovers(d)'
    BY <1>2, <2>1, <2>2, <2>5 DEF IInv, Lease, Recovers, bearer_is_valid
  <2> QED
    BY <2>3, <2>4 DEF IInv
<1>4. CASE Invalidate(c)
  <2>1. /\ call[c].at = "invalidate"
        /\ call' = [call EXCEPT ![c].at = "headers", ![c].send = 2]
        /\ \/ cache' = NoToken /\ mishap' = mishap
           \/ cache' = cache /\ mishap'[c] = "kept"
        /\ \A d \in Calls \ {c} : mishap'[d] = mishap[d]
        /\ mishap' \in [Calls -> Mishap]
    BY <1>4 DEF Invalidate, invalidated, Befalls, Mishap
  <2>2. TypeOK'
    <3>1. call' \in [Calls -> [at : CallPoint, token : Tokens \union {NoToken}, send : 1 .. 2,
                               holds : BOOLEAN]]
      <4>1. "headers" \in CallPoint /\ 2 \in 1 .. 2
        BY DEF CallPoint
      <4>2. call' = [call EXCEPT ![c].at = "headers", ![c].send = 2]
        BY <2>1
      <4> HIDE <1>4
      <4> QED
        BY Zenon, <4>1, <4>2
    <3> QED
      BY <1>1, <1>2, <2>1, <3>1
  <2>3. ASSUME NEW d \in Calls PROVE Lease(d)' /\ Recovers(d)'
    BY <1>2, <2>1 DEF IInv, Lease, Recovers, bearer_is_valid
  <2> QED
    BY <2>2, <2>3 DEF IInv
<1> QED
  BY <1>3, <1>4

\* A lease that runs out is noted for the call that held it.
LEMMA LapseStep ==
  ASSUME IInv, LockLapses
  PROVE  IInv'
<1> TypeOK
  BY DEF IInv
<1>1. TypeOK'
  BY DEF TypeOK, LockLapses
<1>2. ASSUME NEW d \in Calls PROVE Lease(d)' /\ Recovers(d)'
  BY DEF IInv, TypeOK, LockLapses, Lease, Recovers, at, active, bearer_is_valid
<1> QED
  BY <1>1, <1>2 DEF IInv

\* Time and the provider spoil tokens; that befalls the repetitions which rely on them.
LEMMA TokenStep ==
  ASSUME IInv, TokensRevoked \/ \E t \in Tokens : TokenAges(t)
  PROVE  IInv'
<1> TypeOK
  BY DEF IInv
<1>1. faults' \in 0 .. MaxFaults
  BY Zenon, FaultCounted DEF TokensRevoked, TokenAges
<1>2. UNCHANGED <<call, cache, lock, lapsed>>
  BY Zenon DEF TokensRevoked, TokenAges
<1>3. token' \in [Tokens -> TokenState]
  BY Zenon DEF TypeOK, TokensRevoked, TokenAges, TokenState
<1>4. mishap' \in [Calls -> Mishap]
  BY Zenon DEF TypeOK, TokensRevoked, TokenAges, Befalls, Mishap
<1>5. TypeOK'
  BY <1>1, <1>2, <1>3, <1>4 DEF TypeOK
<1>6. ASSUME NEW d \in Calls PROVE Lease(d)' /\ Recovers(d)'
  <2>1. Lease(d)'
    BY <1>2 DEF IInv, Lease
  <2>2. mishap'[d] \in {"lost", mishap[d]}
    BY Zenon DEF TokensRevoked, TokenAges, Befalls
  <2>3. ASSUME mishap'[d] = "none", rereads(d), cache # NoToken, token[cache] # "revoked"
        PROVE  token'[cache] # "revoked"
    <3>1. cache \in Tokens
      BY <2>3, Relied
    <3>2. CASE TokensRevoked
      BY <2>3, <3>1, <3>2 DEF TypeOK, TokensRevoked, Befalls, TokenState
    <3>3. CASE \E t \in Tokens : TokenAges(t)
      BY <2>3, <3>1, <3>3 DEF TypeOK, TokenAges
    <3> QED
      BY <3>2, <3>3
  <2>4. ASSUME NEW u \in Tokens, mishap'[d] = "none", repeats_with(d, u), bearer_is_valid(u)
        PROVE  token'[u] \in {"fresh", "ageing"}
    <3>1. CASE TokensRevoked
      BY <2>4, <3>1 DEF TypeOK, TokensRevoked, Befalls
    <3>2. CASE \E t \in Tokens : TokenAges(t)
      BY <2>4, <3>2 DEF TypeOK, TokenAges, Befalls, bearer_is_valid
    <3> QED
      BY <3>1, <3>2
  <2>5. Recovers(d)
    BY DEF IInv
  <2> QED
    BY <1>2, <2>1, <2>2, <2>3, <2>4, <2>5, Relied
       DEF Recovers, at, rereads, repeats_with, bearer_is_valid
<1> QED
  BY <1>5, <1>6 DEF IInv

\* Every step keeps the invariant.
LEMMA NextInv == IInv /\ [Next]_vars => IInv'
<1> SUFFICES ASSUME IInv, [Next]_vars PROVE IInv'
  OBVIOUS
<1>1. ASSUME NEW c \in Calls, Begin(c) \/ Step(c) \/ Crash(c) PROVE IInv'
  BY <1>1, ReadStep, LockStep, RequestTokenStep, PublishStep, ReleaseStep, ExchangeStep DEF Step
<1>2. CASE UNCHANGED vars
  <2>1. TypeOK'
    BY <1>2 DEF vars, IInv, TypeOK
  <2>2. ASSUME NEW d \in Calls PROVE Lease(d)' /\ Recovers(d)'
    BY <1>2 DEF vars, IInv, Lease, Recovers, at, active, bearer_is_valid
  <2> QED
    BY <2>1, <2>2 DEF IInv
<1> QED
  BY <1>1, <1>2, LapseStep, TokenStep DEF Next

\* The inductive invariant holds in every reachable state.
THEOREM TokenInvariance == Spec => []IInv
  BY InitInv, NextInv, PTL DEF Spec

\* The variables keep their types, and the refresh lock is held within its block only.
THEOREM TokenTypeCorrect == Spec => []TypeOK
<1>1. IInv => TypeOK
  BY DEF IInv
<1> QED
  BY <1>1, TokenInvariance, PTL

(***************************************************************************)
(* However late a call releases the refresh lock, it never deletes the     *)
(* lease of another one (the compare-and-delete script of locks.py).       *)
(***************************************************************************)
THEOREM LeasesAlwaysStand == Spec => []LeaseStands
<1>1. IInv => LeaseStands
  BY DEF IInv, Lease, LeaseStands
<1> QED
  BY <1>1, TokenInvariance, PTL

(***************************************************************************)
(* One refresh is enough: a call whose repetition is refused too met one   *)
(* of the four mishaps after its first 401 (http.py repeats a request      *)
(* once).  What happened to tokens before that costs no call.              *)
(***************************************************************************)
THEOREM OneRefreshIsEnough == Spec => []RefreshRecovers
<1>1. IInv => RefreshRecovers
  BY DEF IInv, Recovers, RefreshRecovers
<1> QED
  BY <1>1, TokenInvariance, PTL
=============================================================================
