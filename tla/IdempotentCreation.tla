------------------------- MODULE IdempotentCreation -------------------------
(***************************************************************************)
(* Creating integration requests (create_request.py) and starting workflow *)
(* executions (start_workflow.py, WorkflowOrchestrator.start_execution)    *)
(* under the clients' idempotency keys.                                    *)
(*                                                                         *)
(* A call is one POST of a client; a client that gets no answer makes      *)
(* another call with the same key and body.  What a call creates is named  *)
(* by the call.  A transaction that has inserted a row with a unique key   *)
(* makes others that insert the same key wait until it commits or is       *)
(* rolled back; the death of its process rolls it back.                    *)
(***************************************************************************)
EXTENDS ProviderAdapters

CONSTANTS
  Calls,      \* POST calls
  Keys,       \* idempotency keys
  Bodies,     \* request bodies: [provider, operation, spelling]
  MaxCrashes  \* bound: processes that die

ASSUME MaxCrashesAssumption == MaxCrashes \in Nat
ASSUME BodiesAssumption ==
  /\ Bodies # {}
  /\ Bodies \subseteq [provider : Provider, operation : OperationType, spelling : Nat]

ASSUME NamesAssumption == None \notin Calls /\ None \notin Keys

Kind == {"request", "workflow"}

\* Requests and workflow executions have their unique keys apart.
Slots == Kind \X Keys

VARIABLES
  call,     \* each call: [at, kind, key, body, answer]
  record,   \* committed idempotency records: the creating call, or None
  writing,  \* the uncommitted transaction that has inserted a key, or None
  entity,   \* what each call has created: "none", "new" (received, queued) or "started"
  defined,  \* the row of the workflow's definition: "absent", "registered" or "immutable"
  crashes

vars == <<call, record, writing, entity, defined, crashes>>

Point ==
  {"idle", "define", "register", "look", "insert", "commit", "race", "start", "answered", "crashed"}

\* An answer: refused, or the call that created the entity it reports.
NoAnswer == [status |-> "none", entity |-> None]
Created(c) == [status |-> "created", entity |-> c]
Replayed(c) == [status |-> "replayed", entity |-> c]
Refused(status) == [status |-> status, entity |-> None]

\* Stands for every input of a workflow: start_execution never compares them.
AnyBody == CHOOSE b \in Bodies : TRUE

bodies(kind) == IF kind = "request" THEN Bodies ELSE {AnyBody}

Init ==
  /\ call = [c \in Calls |-> [at |-> "idle", kind |-> "request", key |-> None,
                              body |-> AnyBody, answer |-> NoAnswer]]
  /\ record = [s \in Slots |-> None]
  /\ writing = [s \in Slots |-> None]
  /\ entity = [c \in Calls |-> "none"]
  /\ defined = "absent"
  /\ crashes = 0

at(c, point) == call[c].at = point

active(c) == call[c].at \notin {"idle", "answered", "crashed"}

has_key(c) == call[c].key # None

slot(c) == <<call[c].kind, call[c].key>>

recorded(c) == record[slot(c)]

Go(c, point) == call' = [call EXCEPT ![c].at = point]

Answer(c, a) == call' = [call EXCEPT ![c].at = "answered", ![c].answer = a]

-----------------------------------------------------------------------------
\* _validate_provider_support, for requests.
supports(kind, body) ==
  kind = "request" => body.operation \in supported_operations[body.provider]

\* The transaction that creates begins with the key, if there is one.
creating(key) == IF key = None THEN "insert" ELSE "look"

Begin(c) ==
  /\ at(c, "idle")
  /\ \E kind \in Kind, key \in Keys \union {None} : \E body \in bodies(kind) :
       call' = [call EXCEPT ![c] =
         [at |-> IF ~ supports(kind, body) THEN "answered"
                 ELSE IF kind = "workflow" THEN "define" ELSE creating(key),
          kind |-> kind, key |-> key, body |-> body,
          answer |-> IF supports(kind, body) THEN NoAnswer ELSE Refused("unsupported")]]
  /\ UNCHANGED <<record, writing, entity, defined, crashes>>

(***************************************************************************)
(* ensure_customer_onboarding and its twin: the definition's row is looked *)
(* up and, if it is missing, inserted by the commit of the same            *)
(* transaction, where its unique name and version may conflict.            *)
(***************************************************************************)
FindDefinition(c) ==
  /\ at(c, "define")
  /\ Go(c, IF defined = "absent" THEN "register" ELSE creating(call[c].key))
  /\ UNCHANGED <<record, writing, entity, defined, crashes>>

RegisterDefinition(c) ==
  /\ at(c, "register")
  /\ IF defined = "absent"
     THEN defined' = "registered" /\ Go(c, creating(call[c].key))
     ELSE UNCHANGED defined /\ Answer(c, Refused("definition_conflict"))
  /\ UNCHANGED <<record, writing, entity, crashes>>

\* RequestFingerprint.of over canonical_json: key order, escapes and 1.0 for 1 do not count.
fingerprint(body) == [provider |-> body.provider, operation |-> body.operation]

\* Fault: the record is replayed whatever the body.
matches_any(c) == TRUE

\* IdempotencyRecord.matches; start_execution does not compare inputs.
matches(c) ==
  call[c].kind = "request" => fingerprint(call[recorded(c)].body) = fingerprint(call[c].body)

\* _replay_if_seen.  A workflow found this way is advanced once more.
Replay(c) ==
  IF ~ matches(c) THEN Answer(c, Refused("key_conflict"))
  ELSE IF call[c].kind = "request" THEN Answer(c, Replayed(recorded(c)))
  ELSE call' = [call EXCEPT ![c].at = "start", ![c].answer = Replayed(recorded(c))]

Look(c) ==
  /\ at(c, "look")
  /\ IF recorded(c) = None THEN Go(c, "insert") ELSE Replay(c)
  /\ UNCHANGED <<record, writing, entity, defined, crashes>>

is_conflict(c) == has_key(c) /\ recorded(c) # None

must_wait(c) == has_key(c) /\ writing[slot(c)] # None

\* Fault: a row that another transaction is inserting counts as one that exists.
Insert_nowait(c) ==
  /\ at(c, "insert")
  /\ IF is_conflict(c) \/ must_wait(c)
     THEN /\ IF call[c].kind = "request" THEN Go(c, "race") ELSE Answer(c, Refused("conflict"))
          /\ UNCHANGED writing
     ELSE /\ Go(c, "commit")
          /\ writing' = IF has_key(c) THEN [writing EXCEPT ![slot(c)] = c] ELSE writing
  /\ UNCHANGED <<record, entity, defined, crashes>>

\* The flush of the inserted rows, where a conflict shows.
Insert(c) ==
  /\ at(c, "insert")
  /\ ~ must_wait(c)
  /\ IF is_conflict(c)
     THEN /\ IF call[c].kind = "request" THEN Go(c, "race") ELSE Answer(c, Refused("conflict"))
          /\ UNCHANGED writing
     ELSE /\ Go(c, "commit")
          /\ writing' = IF has_key(c) THEN [writing EXCEPT ![slot(c)] = c] ELSE writing
  /\ UNCHANGED <<record, entity, defined, crashes>>

\* Fault: the key is recorded in a transaction of its own, which is not reached.
recorded_apart(c) == record

recorded_with(c) ==
  IF has_key(c) THEN [record EXCEPT ![slot(c)] = c] ELSE record

unlocked(c) ==
  IF has_key(c) /\ writing[slot(c)] = c
  THEN [writing EXCEPT ![slot(c)] = None] ELSE writing

\* start_execution marks its definition.
marked_immutable(c) == IF call[c].kind = "workflow" THEN "immutable" ELSE defined

Commit(c) ==
  /\ at(c, "commit")
  /\ record' = recorded_with(c)
  /\ writing' = unlocked(c)
  /\ entity' = [entity EXCEPT ![c] = "new"]
  /\ defined' = marked_immutable(c)
  /\ call' = [call EXCEPT ![c].at = "start", ![c].answer = Created(c)]
  /\ UNCHANGED crashes

\* _replay_after_race, in a fresh transaction.
ReplayAfterRace(c) ==
  /\ at(c, "race")
  /\ IF recorded(c) = None THEN Answer(c, Refused("conflict")) ELSE Replay(c)
  /\ UNCHANGED <<record, writing, entity, defined, crashes>>

\* dispatch() claims the request, advance() the execution; then the client is answered.
Start(c) ==
  /\ at(c, "start")
  /\ Go(c, "answered")
  /\ entity' = [entity EXCEPT ![call[c].answer.entity] = "started"]
  /\ UNCHANGED <<record, writing, defined, crashes>>

\* Fault: queued executions are left to whoever started them.
is_runnable_never(c) == FALSE

is_runnable(c) == call[c].kind = "workflow" /\ entity[c] = "new"

\* The workflow worker claims queued executions too.
WorkerAdvances(c) ==
  /\ is_runnable(c)
  /\ entity' = [entity EXCEPT ![c] = "started"]
  /\ UNCHANGED <<call, record, writing, defined, crashes>>

\* Without its process a call is not answered; the database rolls its transaction back.
Crash(c) ==
  /\ active(c)
  /\ crashes < MaxCrashes
  /\ crashes' = crashes + 1
  /\ call' = [call EXCEPT ![c].at = "crashed", ![c].answer = NoAnswer]
  /\ writing' = unlocked(c)
  /\ UNCHANGED <<record, entity, defined>>

-----------------------------------------------------------------------------
Step(c) ==
  \/ FindDefinition(c) \/ RegisterDefinition(c)
  \/ Look(c) \/ Insert(c) \/ Commit(c) \/ ReplayAfterRace(c) \/ Start(c)

Next ==
  \E c \in Calls : Begin(c) \/ Step(c) \/ WorkerAdvances(c) \/ Crash(c)

Spec == Init /\ [][Next]_vars

(***************************************************************************)
(* The event loop runs every ready coroutine, the database wakes whoever   *)
(* waits for a key, and the workflow worker polls.                         *)
(***************************************************************************)
Fairness == \A c \in Calls : WF_vars(Step(c)) /\ WF_vars(WorkerAdvances(c))

FairSpec == Spec /\ Fairness

-----------------------------------------------------------------------------
\* Every variable stays in its range.
TypeOK ==
  /\ call \in [Calls -> [at : Point, kind : Kind, key : Keys \union {None}, body : Bodies,
                         answer : {NoAnswer, Refused("unsupported"), Refused("conflict"),
                                   Refused("key_conflict"), Refused("definition_conflict")}
                                    \union {Created(c) : c \in Calls}
                                    \union {Replayed(c) : c \in Calls}]]
  /\ record \in [Slots -> Calls \union {None}]
  /\ writing \in [Slots -> Calls \union {None}]
  /\ entity \in [Calls -> {"none", "new", "started"}]
  /\ defined \in {"absent", "registered", "immutable"}
  /\ crashes \in 0 .. MaxCrashes

(***************************************************************************)
(* One key, one request, and one key, one execution: however calls with    *)
(* the same key race, crash and are repeated, at most one of them creates. *)
(***************************************************************************)
OneEntityPerKey ==
  \A c, d \in Calls :
    /\ c # d /\ has_key(c)
    /\ call[c].key = call[d].key /\ call[c].kind = call[d].kind
    => entity[c] = "none" \/ entity[d] = "none"

(***************************************************************************)
(* A client is told of the request it asked for: a replay, whether found   *)
(* at once or after a lost race, is of the same key and asks for the same. *)
(***************************************************************************)
ReplaysMatch ==
  \A c \in Calls :
    at(c, "answered") /\ call[c].kind = "request" /\ call[c].answer.entity # None
    => LET d == call[c].answer.entity
       IN  /\ call[d].body.provider = call[c].body.provider
           /\ call[d].body.operation = call[c].body.operation
           /\ c # d => has_key(c) /\ call[d].key = call[c].key

(***************************************************************************)
(* No call is refused with a conflict unless another one with its key has  *)
(* created something, or has just registered the definition it wants to    *)
(* run: a transaction that was rolled back, and the death of its process,  *)
(* burn neither the key nor the definition, and a client that repeats its  *)
(* request in another spelling is not told that it asked for another one.  *)
(***************************************************************************)
ConflictsAreReal ==
  \A c \in Calls :
    /\ call[c].answer.status \in {"conflict", "key_conflict"}
       => \E d \in Calls \ {c} :
            /\ call[d].kind = call[c].kind /\ call[d].key = call[c].key /\ entity[d] # "none"
            /\ call[c].answer.status = "key_conflict" =>
                 \/ call[d].body.provider # call[c].body.provider
                 \/ call[d].body.operation # call[c].body.operation
    /\ call[c].answer.status = "definition_conflict"
       => call[c].kind = "workflow" /\ defined # "absent"

(***************************************************************************)
(* What has been created gets started: an execution always, by the worker  *)
(* if not by the call, and a request unless the process dies between the   *)
(* creating commit and the dispatch.                                       *)
(***************************************************************************)
CreatedIsStarted ==
  \A c \in Calls :
    entity[c] = "new" ~> (\/ entity[c] = "started"
                          \/ call[c].kind = "request" /\ at(c, "crashed"))
=============================================================================
