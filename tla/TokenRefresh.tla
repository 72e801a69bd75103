---------------------------- MODULE TokenRefresh ----------------------------
(***************************************************************************)
(* OAuth2 access tokens shared by every process of the platform: the       *)
(* authenticator (auth.py) reads a token from the Redis cache              *)
(* (token_cache.py) or fetches one under the refresh lock (locks.py), and  *)
(* the HTTP client (http.py) repeats a request once, with a new token,     *)
(* when the provider answers 401.                                          *)
(*                                                                         *)
(* A call is one authenticated HTTP request of some process.  What the     *)
(* provider does besides accepting or refusing the token is the subject of *)
(* ProviderGateway.                                                        *)
(***************************************************************************)
EXTENDS Integers

CONSTANTS
  Calls,      \* calls, each made once
  MaxTokens,  \* bound: access tokens the provider issues
  MaxFaults   \* bound: Redis errors, failing token requests, crashes, revocations

ASSUME MaxTokensAssumption == MaxTokens \in Nat \ {0}
ASSUME MaxFaultsAssumption == MaxFaults \in Nat

VARIABLES
  token,     \* what became of each access token
  call,      \* where each call is: [at, token, send, holds]
  cache,     \* the token in Redis
  lock,      \* who holds the refresh lock in Redis
  lapsed,    \* calls that hold a lease on the lock which has run out
  mishap,    \* what befell each call's repetition, if anything (a history)
  faults

vars == <<token, call, cache, lock, lapsed, mishap, faults>>

Tokens == 1 .. MaxTokens
NoToken == 0
Free == "free"

\* "kept": the call could not delete the cached token before it repeated; "put_back": it did,
\* but a slower process cached a revoked token before the call had read the cache again;
\* "lost": the token it was about to repeat with was revoked or ran out; "refused": the
\* provider refused a good token again.
Mishap == {"none", "kept", "put_back", "lost", "refused"}

ASSUME CallsAssumption == Free \notin Calls

\* "revoked": the provider has forgotten a token whose expiry has not come.
TokenState == {"unissued", "fresh", "ageing", "expired", "revoked"}

\* CachedToken.is_fresh: the leeway before the expiry has not begun.
is_fresh(t) == t # NoToken /\ token[t] \in {"fresh", "revoked"}

bearer_is_valid(t) == token[t] \in {"fresh", "ageing"}

CallPoint == {"idle", "headers", "lock", "recheck", "fetch", "publish", "unlock", "send",
              "invalidate", "answered", "unauthorized", "unauthenticated", "crashed"}

Over == {"answered", "unauthorized", "unauthenticated", "crashed"}

Init ==
  /\ token = [t \in Tokens |-> "unissued"]
  /\ call = [c \in Calls |-> [at |-> "idle", token |-> NoToken, send |-> 1, holds |-> FALSE]]
  /\ cache = NoToken
  /\ lock = Free
  /\ lapsed = {}
  /\ mishap = [c \in Calls |-> "none"]
  /\ faults = 0

Fault == faults < MaxFaults /\ faults' = faults + 1

at(c, point) == call[c].at = point

active(c) == call[c].at \notin Over \union {"idle"}

Go(c, point) == call' = [call EXCEPT ![c].at = point]

GoWith(c, t, point) == call' = [call EXCEPT ![c].at = point, ![c].token = t]

\* The call has invalidated the cache after its 401 and may yet read a token there.
rereads(c) == call[c].send = 2 /\ call[c].at \in {"headers", "lock", "recheck"}

\* The call is about to repeat its request with the token.
repeats_with(c, t) ==
  call[c].send = 2 /\ call[c].at \in {"publish", "unlock", "send"} /\ call[c].token = t

Befalls(what, calls) ==
  mishap' = [c \in Calls |-> IF c \in calls THEN what ELSE mishap[c]]

-----------------------------------------------------------------------------
(***************************************************************************)
(* RedisTokenCache.get, followed by the freshness check: the call goes on  *)
(* with the token, or to the point "otherwise".                            *)
(***************************************************************************)
ReadToken(c, found, otherwise) ==
  \/ /\ is_fresh(cache)
     /\ GoWith(c, cache, found)
     /\ UNCHANGED <<cache, faults>>
  \/ /\ ~ is_fresh(cache)
     /\ Go(c, otherwise)
     /\ UNCHANGED <<cache, faults>>
  \/ \* Redis cannot be reached, or the entry cannot be read and is dropped.
     /\ Fault
     /\ cache' \in {cache, NoToken}
     /\ Go(c, otherwise)

Begin(c) ==
  /\ at(c, "idle")
  /\ Go(c, "headers")
  /\ UNCHANGED <<token, cache, lock, lapsed, mishap, faults>>

ReadCache(c) ==
  /\ at(c, "headers")
  /\ ReadToken(c, "send", "lock")
  /\ UNCHANGED <<token, lock, lapsed, mishap>>

AcquireLock(c) ==
  /\ at(c, "lock")
  /\ lock = Free
  /\ lock' = c
  /\ call' = [call EXCEPT ![c].at = "recheck", ![c].holds = TRUE]
  /\ UNCHANGED <<token, cache, lapsed, mishap, faults>>

\* The wait is over, or Redis cannot be reached: go on without the lock.
GiveUpLock(c) ==
  /\ at(c, "lock")
  /\ \/ lock # Free /\ UNCHANGED faults
     \/ Fault
  /\ Go(c, "recheck")
  /\ UNCHANGED <<token, cache, lock, lapsed, mishap>>

Recheck(c) ==
  /\ at(c, "recheck")
  /\ ReadToken(c, "unlock", "fetch")
  /\ UNCHANGED <<token, lock, lapsed, mishap>>

\* The next token; within one second the provider gives out the same one again.
issuable ==
  LET is_issued(t) == token[t] # "unissued"
  IN  {t \in Tokens : /\ \A u \in 1 .. t - 1 : is_issued(u)
                      /\ \A u \in t + 1 .. MaxTokens : ~ is_issued(u)}

RequestToken(c) ==
  /\ at(c, "fetch")
  /\ \E t \in issuable :
       /\ token' = [token EXCEPT ![t] = "fresh"]
       /\ GoWith(c, t, "publish")
  /\ UNCHANGED <<cache, lock, lapsed, mishap, faults>>

\* Fault: the key is deleted without comparing its owner.
released_blindly(c) == IF call[c].holds THEN Free ELSE lock

\* The release script: the key is deleted only while it holds the caller's value.
released(c) == IF call[c].holds /\ lock = c THEN Free ELSE lock

\* The token endpoint cannot be reached, refuses, or its answer cannot be parsed.
RequestTokenFails(c) ==
  /\ at(c, "fetch")
  /\ Fault
  /\ call' = [call EXCEPT ![c].at = "unauthenticated", ![c].holds = FALSE]
  /\ lock' = released(c)
  /\ lapsed' = lapsed \ {c}
  /\ UNCHANGED <<token, cache, mishap>>

\* RedisTokenCache.set: nothing is cached of a token that has run out.
PublishToken(c) ==
  /\ at(c, "publish")
  /\ Go(c, "unlock")
  /\ \/ /\ cache' = IF token[call[c].token] = "expired" THEN cache ELSE call[c].token
        /\ Befalls("put_back",
                   {d \in Calls : token[call[c].token] = "revoked" /\ rereads(d)})
        /\ UNCHANGED faults
     \/ Fault /\ UNCHANGED <<cache, mishap>>
  /\ UNCHANGED <<token, lock, lapsed>>

after_release(c) == [call[c] EXCEPT !.at = "send", !.holds = FALSE]

Unlock(c) ==
  /\ at(c, "unlock")
  /\ call' = [call EXCEPT ![c] = after_release(c)]
  /\ \/ lock' = released(c) /\ UNCHANGED faults
     \/ call[c].holds /\ Fault /\ UNCHANGED lock
  /\ lapsed' = lapsed \ {c}
  /\ UNCHANGED <<token, cache, mishap>>

-----------------------------------------------------------------------------
(***************************************************************************)
(* ProviderHttpClient.request: one refresh and one repetition after a 401. *)
(* The provider may refuse a good token too (the sandbox's auth_challenge).*)
(***************************************************************************)
\* Fault: the request is repeated after every 401.
after_401_again(c) == "invalidate"

after_401(c) == IF call[c].send = 1 THEN "invalidate" ELSE "unauthorized"

Exchange(c) ==
  /\ at(c, "send")
  /\ \/ /\ bearer_is_valid(call[c].token)
        /\ GoWith(c, NoToken, "answered")
        /\ UNCHANGED <<mishap, faults>>
     \/ /\ ~ bearer_is_valid(call[c].token)
        /\ GoWith(c, NoToken, after_401(c))
        /\ UNCHANGED <<mishap, faults>>
     \/ /\ bearer_is_valid(call[c].token)
        /\ Fault
        /\ GoWith(c, NoToken, after_401(c))
        /\ Befalls("refused", {d \in {c} : call[d].send = 2})
  /\ UNCHANGED <<token, cache, lock, lapsed>>

\* Fault: the rejected token stays in the cache.
invalidated_not == cache

\* The key is deleted, whichever token it holds by now.
invalidated == NoToken

Invalidate(c) ==
  /\ at(c, "invalidate")
  /\ call' = [call EXCEPT ![c].at = "headers", ![c].send = 2]
  /\ \/ cache' = invalidated /\ UNCHANGED <<faults, mishap>>
     \/ Fault /\ Befalls("kept", {c}) /\ UNCHANGED cache
  /\ UNCHANGED <<token, lock, lapsed>>

-----------------------------------------------------------------------------
(***************************************************************************)
(* Time, operators and crashes.                                            *)
(***************************************************************************)
\* The lease's time to live runs out.
LockLapses ==
  /\ lock # Free
  /\ lapsed' = lapsed \union {c \in Calls : c = lock /\ call[c].holds}
  /\ lock' = Free
  /\ UNCHANGED <<token, call, cache, mishap, faults>>

\* Somebody has the token; of the others the age is not kept.
held(t) == cache = t \/ \E c \in Calls : call[c].token = t

TokenAges(t) ==
  /\ token[t] \in {"fresh", "ageing", "revoked"}
  /\ held(t)
  /\ token' = [token EXCEPT ![t] = IF @ = "fresh" THEN "ageing" ELSE "expired"]
  /\ Befalls("lost", {c \in Calls : token[t] = "ageing" /\ repeats_with(c, t)})
  /\ UNCHANGED <<call, cache, lock, lapsed, faults>>

\* The provider forgets its tokens: a rotation of credentials or a restart.
TokensRevoked ==
  /\ Fault
  /\ \E t \in Tokens : bearer_is_valid(t)
  /\ token' = [t \in Tokens |-> CASE token[t] = "fresh"  -> "revoked"
                                  [] token[t] = "ageing" -> "expired"
                                  [] OTHER               -> token[t]]
  /\ Befalls("lost", {c \in Calls :
                       \/ rereads(c) /\ cache # NoToken /\ token[cache] = "fresh"
                       \/ \E t \in Tokens : bearer_is_valid(t) /\ repeats_with(c, t)})
  /\ UNCHANGED <<call, cache, lock, lapsed>>

Crash(c) ==
  /\ active(c)
  /\ Fault
  /\ call' = [call EXCEPT ![c].at = "crashed", ![c].token = NoToken, ![c].holds = FALSE]
  /\ lapsed' = lapsed \ {c}
  /\ UNCHANGED <<token, cache, lock, mishap>>

-----------------------------------------------------------------------------
Step(c) ==
  \/ ReadCache(c) \/ AcquireLock(c) \/ GiveUpLock(c) \/ Recheck(c) \/ RequestToken(c)
  \/ RequestTokenFails(c) \/ PublishToken(c) \/ Unlock(c) \/ Exchange(c) \/ Invalidate(c)

Next ==
  \/ \E c \in Calls : Begin(c) \/ Step(c) \/ Crash(c)
  \/ \E t \in Tokens : TokenAges(t)
  \/ LockLapses
  \/ TokensRevoked

Spec == Init /\ [][Next]_vars

(***************************************************************************)
(* The event loop runs every ready coroutine, and every wait in a call     *)
(* (for the lock, Redis, the token endpoint, the provider) has a timeout.  *)
(***************************************************************************)
Fairness == \A c \in Calls : WF_vars(Step(c))

FairSpec == Spec /\ Fairness

-----------------------------------------------------------------------------
\* Every variable stays in its range, the lock is held in its block only, and a request is
\* sent with a token.
TypeOK ==
  /\ token \in [Tokens -> TokenState]
  /\ call \in [Calls -> [at : CallPoint, token : Tokens \union {NoToken}, send : 1 .. 2,
                         holds : BOOLEAN]]
  /\ \A c \in Calls :
       /\ call[c].holds => call[c].at \in {"recheck", "fetch", "publish", "unlock"}
       /\ call[c].at \in {"publish", "unlock", "send"} => call[c].token # NoToken
  /\ cache \in Tokens \union {NoToken}
  /\ lock \in Calls \union {Free}
  /\ lapsed \subseteq Calls
  /\ mishap \in [Calls -> Mishap]
  /\ faults \in 0 .. MaxFaults

(***************************************************************************)
(* A lease on the refresh lock stands until its holder releases it or it   *)
(* runs out: a call whose own lease ran out, and which releases late, does *)
(* not delete the lease of the call that came after it.                    *)
(***************************************************************************)
LeaseStands == \A c \in Calls : call[c].holds /\ c \notin lapsed => lock = c

(***************************************************************************)
(* One refresh is enough: a call ends in rejected credentials only when    *)
(* something befell its repetition, after its first 401.  A token that was *)
(* revoked or ran out before, in the cache or in hand, that other calls    *)
(* are using and even caching again until this call has invalidated the    *)
(* cache, costs a refresh and not the call.  Of the four mishaps that cost *)
(* the call, "put_back" is of the code's own making: _fetch_and_cache      *)
(* stores what it fetched whatever has become of it since.                 *)
(***************************************************************************)
RefreshRecovers == \A c \in Calls : at(c, "unauthorized") => mishap[c] # "none"

(***************************************************************************)
(* Every call ends, with an answer or an error: nobody waits for ever for  *)
(* the lock of a process that died holding it, and no 401 starts a loop.   *)
(***************************************************************************)
CallsEnd == \A c \in Calls : active(c) ~> ~ active(c)
=============================================================================
