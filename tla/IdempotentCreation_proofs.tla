---------------------- MODULE IdempotentCreation_proofs ----------------------
(***************************************************************************)
(* Proofs about IdempotentCreation, for any number of calls, keys, bodies  *)
(* and crashes.                                                            *)
(***************************************************************************)
EXTENDS IdempotentCreation, TLAPS

Answers ==
  {NoAnswer, Refused("unsupported"), Refused("conflict"), Refused("key_conflict"),
   Refused("definition_conflict")}
    \union {Created(c) : c \in Calls} \union {Replayed(c) : c \in Calls}

CallType ==
  [at : Point, kind : Kind, key : Keys \union {None}, body : Bodies, answer : Answers]

\* Nothing is created before the commit, and a key is asked about only if there is one.
Early(c) ==
  /\ call[c].at \in {"idle", "define", "register", "look", "insert", "commit", "race"} =>
       entity[c] = "none" /\ call[c].answer = NoAnswer
  /\ call[c].at = "idle" => call[c].key = None
  /\ call[c].at \in {"look", "race"} => has_key(c)
  /\ call[c].at \in {"define", "register"} => call[c].kind = "workflow"
  /\ call[c].at = "race" => record[slot(c)] # None

\* A call about to commit has its key to itself; what it has created is recorded under it.
Keyed(c) ==
  has_key(c) =>
    /\ call[c].at = "commit" => writing[slot(c)] = c /\ record[slot(c)] = None
    /\ entity[c] # "none" => record[slot(c)] = c

\* What an answer says is true.
Told(c) ==
  /\ call[c].at = "start" => call[c].answer.entity \in Calls
  /\ call[c].answer.entity \in Calls =>
       LET d == call[c].answer.entity
       IN  /\ entity[d] # "none" /\ call[d].kind = call[c].kind
           /\ d # c => has_key(c) /\ call[d].key = call[c].key
           /\ call[c].kind = "request" => fingerprint(call[d].body) = fingerprint(call[c].body)
  /\ call[c].answer.status \in {"conflict", "key_conflict"} =>
       entity[c] = "none" /\ has_key(c) /\ record[slot(c)] # None
  /\ call[c].answer.status = "key_conflict" =>
       fingerprint(call[record[slot(c)]].body) # fingerprint(call[c].body)
  /\ call[c].answer.status = "definition_conflict" =>
       call[c].kind = "workflow" /\ defined # "absent"

\* A record names the call that used its key and created something.
Recorded(s) ==
  record[s] # None => slot(record[s]) = s /\ entity[record[s]] # "none"

IInv ==
  /\ TypeOK
  /\ \A c \in Calls : Early(c) /\ Keyed(c) /\ Told(c)
  /\ \A s \in Slots : Recorded(s)

\* TypeOK, with the calls' type by its name.
LEMMA Types ==
  TypeOK <=> /\ call \in [Calls -> CallType]
             /\ record \in [Slots -> Calls \union {None}]
             /\ writing \in [Slots -> Calls \union {None}]
             /\ entity \in [Calls -> {"none", "new", "started"}]
             /\ defined \in {"absent", "registered", "immutable"}
             /\ crashes \in 0 .. MaxCrashes
  BY DEF TypeOK, CallType, Answers

\* The parts of a call's type.
LEMMA Fields ==
  ASSUME TypeOK, NEW c \in Calls
  PROVE  /\ call[c].at \in Point /\ call[c].kind \in Kind /\ call[c].body \in Bodies
         /\ has_key(c) => slot(c) \in Slots
         /\ call[c].key \in Keys \union {None}
  BY DEF TypeOK, has_key, slot, Slots

\* A call moves to another point with another answer.
LEMMA Moves ==
  ASSUME TypeOK, NEW c \in Calls, NEW point \in Point, NEW answer \in Answers,
         call' = [call EXCEPT ![c].at = point, ![c].answer = answer]
  PROVE  /\ call' \in [Calls -> CallType] /\ \A d \in Calls \ {c} : call'[d] = call[d]
         /\ call'[c].at = point /\ call'[c].answer = answer
         /\ call'[c].kind = call[c].kind /\ call'[c].key = call[c].key /\ call'[c].body = call[c].body
  BY ZenonT(30), Types DEF CallType

\* Initially there are no calls and no records.
LEMMA InitInv == Init => IInv
<1> SUFFICES ASSUME Init PROVE IInv
  OBVIOUS
<1>1. AnyBody \in Bodies
  BY BodiesAssumption DEF AnyBody
<1>2. TypeOK
  BY <1>1, MaxCrashesAssumption DEF Init, TypeOK, Point, Kind
<1>3. ASSUME NEW c \in Calls PROVE Early(c) /\ Keyed(c) /\ Told(c)
  BY NamesAssumption DEF Init, Early, Keyed, Told, has_key, NoAnswer, None
<1>4. ASSUME NEW s \in Slots PROVE Recorded(s)
  BY DEF Init, Recorded
<1> QED
  BY <1>2, <1>3, <1>4 DEF IInv

(***************************************************************************)
(* A step of one call that creates and records nothing keeps what is true  *)
(* of the other calls and of the records.                                  *)
(***************************************************************************)
LEMMA Others ==
  ASSUME IInv, NEW c \in Calls,
         UNCHANGED <<record, entity>>,
         defined' \in {"absent", "registered", "immutable"}, defined # "absent" => defined' # "absent",
         \A d \in Calls \ {c} : call'[d] = call[d],
         \A s \in Slots : writing[s] # None /\ writing[s] # c => writing'[s] = writing[s],
         entity[c] # "none" => /\ call'[c].kind = call[c].kind /\ call'[c].key = call[c].key
                               /\ call'[c].body = call[c].body
  PROVE  /\ \A d \in Calls \ {c} : Early(d)' /\ Keyed(d)' /\ Told(d)'
         /\ \A s \in Slots : Recorded(s)'
<1> TypeOK
  BY DEF IInv
<1>1. ASSUME NEW d \in Calls \ {c} PROVE Early(d)' /\ Keyed(d)'
  <2>1. call'[d] = call[d] /\ record' = record /\ entity' = entity
    OBVIOUS
  <2>2. Early(d) /\ Keyed(d) /\ (has_key(d) => slot(d) \in Slots)
    BY Fields DEF IInv
  <2>3. Early(d)'
    BY <2>1, <2>2 DEF Early, has_key, slot
  <2>4. Keyed(d)'
    BY <2>1, <2>2, NamesAssumption DEF Keyed, has_key, slot
  <2> QED
    BY <2>3, <2>4
<1>2. ASSUME NEW d \in Calls \ {c} PROVE Told(d)'
  <2>1. call'[d] = call[d] /\ record' = record /\ entity' = entity
    OBVIOUS
  <2>2. ASSUME NEW e \in Calls, entity[e] # "none"
        PROVE  call'[e].kind = call[e].kind /\ call'[e].key = call[e].key /\ call'[e].body = call[e].body
    BY <2>2
  <2>3. Told(d) /\ (has_key(d) => slot(d) \in Slots)
    BY Fields DEF IInv
  <2>4. has_key(d) /\ record[slot(d)] # None =>
          call'[record[slot(d)]].body = call[record[slot(d)]].body
    <3> SUFFICES ASSUME has_key(d), record[slot(d)] # None
                 PROVE  call'[record[slot(d)]].body = call[record[slot(d)]].body
      OBVIOUS
    <3>1. record[slot(d)] \in Calls /\ entity[record[slot(d)]] # "none"
      BY <2>3, Types DEF IInv, Recorded
    <3> QED
      BY <2>2, <3>1
  <2> QED
    BY <2>1, <2>2, <2>3, <2>4 DEF Told, has_key, slot
<1>3. ASSUME NEW s \in Slots PROVE Recorded(s)'
  <2>1. Recorded(s) /\ record[s] \in Calls \union {None}
    BY DEF IInv, TypeOK
  <2> QED
    BY <2>1 DEF Recorded, slot
<1> QED
  BY <1>1, <1>2, <1>3

\* The invariant after such a step, once it is known for the call that took it.
LEMMA LocalStep ==
  ASSUME IInv, NEW c \in Calls,
         UNCHANGED <<record, entity>>,
         defined' \in {"absent", "registered", "immutable"}, defined # "absent" => defined' # "absent",
         call' \in [Calls -> CallType],
         \A d \in Calls \ {c} : call'[d] = call[d],
         writing' \in [Slots -> Calls \union {None}],
         \A s \in Slots : writing[s] # None /\ writing[s] # c => writing'[s] = writing[s],
         crashes' \in 0 .. MaxCrashes,
         entity[c] # "none" => /\ call'[c].kind = call[c].kind /\ call'[c].key = call[c].key
                               /\ call'[c].body = call[c].body,
         Early(c)', Keyed(c)', Told(c)'
  PROVE  IInv'
<1>1. TypeOK'
  BY DEF IInv, TypeOK, CallType, Answers
<1>2. /\ \A d \in Calls \ {c} : Early(d)' /\ Keyed(d)' /\ Told(d)'
      /\ \A s \in Slots : Recorded(s)'
  BY Others
<1> QED
  BY <1>1, <1>2 DEF IInv

\* A call begins.
LEMMA BeginStep ==
  ASSUME IInv, NEW c \in Calls, Begin(c)
  PROVE  IInv'
<1> TypeOK
  BY DEF IInv
<1>1. PICK kind \in Kind, key \in Keys \union {None}, body \in Bodies,
           point \in {"answered", "define", "insert", "look"}, answer \in {NoAnswer, Refused("unsupported")} :
        /\ call' = [call EXCEPT ![c] = [at |-> point, kind |-> kind, key |-> key, body |-> body,
                                        answer |-> answer]]
        /\ point = "look" => key # None
        /\ point \in {"define", "look", "insert"} => answer = NoAnswer
        /\ point = "define" => kind = "workflow"
  <2>1. \A kind \in Kind : bodies(kind) \subseteq Bodies
    BY BodiesAssumption DEF AnyBody, bodies
  <2>2. PICK kind \in Kind, key \in Keys \union {None}, body \in Bodies :
          call' = [call EXCEPT ![c] =
            [at |-> IF ~ supports(kind, body) THEN "answered"
                    ELSE IF kind = "workflow" THEN "define" ELSE creating(key),
             kind |-> kind, key |-> key, body |-> body,
             answer |-> IF supports(kind, body) THEN NoAnswer ELSE Refused("unsupported")]]
    BY Zenon, <2>1 DEF Begin
  <2>3. CASE ~ supports(kind, body)
    BY Zenon, <2>2, <2>3
  <2>4. CASE supports(kind, body) /\ kind = "workflow"
    BY Zenon, <2>2, <2>4
  <2>5. CASE supports(kind, body) /\ kind # "workflow"
    <3>1. creating(key) \in {"insert", "look"} /\ (creating(key) = "look" => key # None)
      BY DEF creating
    <3>2. creating(key) # "define"
      BY DEF creating
    <3> QED
      BY Zenon, <2>2, <2>5, <3>1, <3>2
  <2> QED
    BY <2>3, <2>4, <2>5
<1>2. UNCHANGED <<record, writing, entity, defined, crashes>> /\ call[c].at = "idle"
  BY DEF Begin, at
<1>3. entity[c] = "none"
  BY <1>2 DEF IInv, Early
<1>4. call' \in [Calls -> CallType] /\ \A d \in Calls \ {c} : call'[d] = call[d]
  <2>1. point \in Point /\ answer \in Answers
    BY DEF Point, Answers
  <2> QED
    BY <1>1, <2>1, Types DEF CallType
<1>5. call'[c] = [at |-> point, kind |-> kind, key |-> key, body |-> body, answer |-> answer]
  BY <1>1, Types
<1>6. Early(c)'
  BY <1>1, <1>2, <1>3, <1>5 DEF Early, has_key
<1>7. Keyed(c)'
  BY <1>2, <1>3, <1>5 DEF Keyed, has_key
<1>8. Told(c)'
  BY <1>1, <1>5, NamesAssumption DEF Told, NoAnswer, Refused, None
<1> QED
  BY <1>2, <1>3, <1>4, <1>6, <1>7, <1>8, LocalStep, Types

\* A recorded key is replayed, at once or after a lost race, or the call is refused.
LEMMA ReplayStep ==
  ASSUME IInv, NEW c \in Calls, Replay(c), record[slot(c)] # None,
         call[c].at \in {"look", "race"}, UNCHANGED <<record, writing, entity, defined, crashes>>
  PROVE  IInv'
<1> DEFINE d == record[slot(c)]
<1>0. TypeOK
  BY DEF IInv
<1>1. slot(c) \in Slots /\ has_key(c) /\ entity[c] = "none"
  BY <1>0, Fields DEF IInv, Early
<1>2. d \in Calls /\ slot(d) = slot(c) /\ entity[d] # "none"
  BY <1>0, <1>1, Types DEF IInv, Recorded
<1>3. call[d].kind = call[c].kind /\ call[d].key = call[c].key
  BY <1>2 DEF slot
<1>4. PICK point \in {"answered", "start"}, answer \in {Refused("key_conflict"), Replayed(d)} :
        /\ call' = [call EXCEPT ![c].at = point, ![c].answer = answer]
        /\ answer = Replayed(d) /\ call[c].kind = "request" =>
             fingerprint(call[d].body) = fingerprint(call[c].body)
        /\ answer = Refused("key_conflict") => fingerprint(call[d].body) # fingerprint(call[c].body)
        /\ point = "start" => answer = Replayed(d)
  <2>1. CASE ~ matches(c)
    <3>1. call' = [call EXCEPT ![c].at = "answered", ![c].answer = Refused("key_conflict")]
      BY <2>1 DEF Replay, Answer
    <3>2. Refused("key_conflict") # Replayed(d)
      BY DEF Refused, Replayed
    <3>3. fingerprint(call[d].body) # fingerprint(call[c].body)
      BY <2>1 DEF matches, recorded
    <3> QED
      BY <3>1, <3>2, <3>3
  <2>2. CASE matches(c)
    <3>1. \/ call' = [call EXCEPT ![c].at = "answered", ![c].answer = Replayed(d)]
          \/ call' = [call EXCEPT ![c].at = "start", ![c].answer = Replayed(d)]
      BY <2>2 DEF Replay, Answer, recorded
    <3>2. Refused("key_conflict") # Replayed(d)
      BY DEF Refused, Replayed
    <3> QED
      BY <2>2, <3>1, <3>2 DEF matches, recorded
  <2> QED
    BY <2>1, <2>2
<1>5. point \in Point /\ answer \in Answers
  BY <1>2 DEF Point, Answers
<1>6. /\ call' \in [Calls -> CallType] /\ \A e \in Calls \ {c} : call'[e] = call[e]
      /\ call'[c].at = point /\ call'[c].answer = answer
      /\ call'[c].kind = call[c].kind /\ call'[c].key = call[c].key /\ call'[c].body = call[c].body
  BY Zenon, <1>0, <1>4, <1>5, Moves
<1>7. Early(c)'
  BY <1>4, <1>6 DEF Early
<1>8. Keyed(c)'
  BY <1>1, <1>4, <1>6 DEF Keyed
<1>9. Told(c)'
  <2>1. CASE answer = Replayed(d)
    <3>1. d # c
      BY <1>1, <1>2
    <3>2. call'[d] = call[d]
      BY <1>2, <1>6, <3>1
    <3>3. call'[c].answer.entity = d /\ call'[c].answer.status = "replayed"
      BY <1>6, <2>1 DEF Replayed
    <3> QED
      BY <1>1, <1>2, <1>3, <1>4, <1>6, <2>1, <3>2, <3>3 DEF Told, has_key
  <2>2. CASE answer = Refused("key_conflict") /\ point = "answered"
    <3>1. /\ call'[c].answer.entity = None /\ call'[c].answer.status = "key_conflict"
          /\ call'[c].at = "answered"
      BY <1>6, <2>2 DEF Refused
    <3>2. call'[d].body = call[d].body /\ slot(c)' = slot(c)
      BY <1>1, <1>2, <1>6 DEF slot
    <3>3. fingerprint(call'[d].body) # fingerprint(call'[c].body)
      BY <1>4, <1>6, <2>2, <3>2
    <3> QED
      BY <1>1, <1>6, <3>1, <3>2, <3>3, NamesAssumption DEF Told, has_key
  <2> QED
    BY <1>4, <2>1, <2>2
<1> QED
  BY <1>0, <1>1, <1>6, <1>7, <1>8, <1>9, LocalStep, Types

\* The definition is found, registered, or found to be registered by another call.
LEMMA DefineStep ==
  ASSUME IInv, NEW c \in Calls, FindDefinition(c) \/ RegisterDefinition(c)
  PROVE  IInv'
<1>0. TypeOK
  BY DEF IInv
<1>1. /\ UNCHANGED <<record, writing, entity, crashes>>
      /\ call[c].at \in {"define", "register"}
      /\ defined' \in {"absent", "registered", "immutable"}
      /\ defined # "absent" => defined' # "absent"
  BY <1>0, Types DEF FindDefinition, RegisterDefinition, at
<1>2. entity[c] = "none" /\ call[c].answer = NoAnswer /\ call[c].kind = "workflow"
  BY <1>1 DEF IInv, Early
<1>3. CASE \E point \in {"register", "look", "insert"} :
             call' = [call EXCEPT ![c].at = point] /\ (point = "look" => has_key(c))
  <2>1. PICK point \in {"register", "look", "insert"} :
          call' = [call EXCEPT ![c].at = point] /\ (point = "look" => has_key(c))
    BY Zenon, <1>3
  <2>2. call' \in [Calls -> CallType] /\ \A e \in Calls \ {c} : call'[e] = call[e]
    BY <1>0, <2>1, Types DEF CallType, Point
  <2>3. /\ call'[c].at = point /\ call'[c].answer = call[c].answer
        /\ call'[c].kind = call[c].kind /\ call'[c].key = call[c].key /\ call'[c].body = call[c].body
    BY <1>0, <2>1, Types DEF CallType
  <2>4. Early(c)' /\ Keyed(c)'
    BY <1>1, <1>2, <2>1, <2>3 DEF Early, Keyed, has_key
  <2>5. Told(c)'
    BY <1>2, <2>1, <2>3, NamesAssumption DEF Told, NoAnswer
  <2> QED
    BY <1>0, <1>1, <2>2, <2>3, <2>4, <2>5, LocalStep, Types
<1>4. CASE /\ call' = [call EXCEPT ![c].at = "answered", ![c].answer = Refused("definition_conflict")]
           /\ defined' # "absent"
  <2>1. "answered" \in Point /\ Refused("definition_conflict") \in Answers
    BY DEF Point, Answers
  <2>2. /\ call' \in [Calls -> CallType] /\ \A e \in Calls \ {c} : call'[e] = call[e]
        /\ call'[c].at = "answered" /\ call'[c].answer = Refused("definition_conflict")
        /\ call'[c].kind = call[c].kind /\ call'[c].key = call[c].key /\ call'[c].body = call[c].body
    BY Zenon, <1>0, <1>4, <2>1, Moves
  <2>3. Early(c)' /\ Keyed(c)'
    BY <1>1, <1>2, <2>2 DEF Early, Keyed
  <2>4. Told(c)'
    BY <1>2, <1>4, <2>2, NamesAssumption DEF Told, Refused
  <2> QED
    BY <1>0, <1>1, <2>2, <2>3, <2>4, LocalStep, Types
<1>5. CASE FindDefinition(c)
  BY Zenon, <1>3, <1>5 DEF FindDefinition, Go, creating, has_key
<1>6. CASE RegisterDefinition(c) /\ defined = "absent"
  BY <1>3, <1>6 DEF RegisterDefinition, Go, creating, has_key
<1>7. CASE RegisterDefinition(c) /\ defined # "absent"
  BY <1>4, <1>7 DEF RegisterDefinition, Answer
<1> QED
  BY <1>5, <1>6, <1>7

\* The look for the key.
LEMMA LookStep ==
  ASSUME IInv, NEW c \in Calls, Look(c)
  PROVE  IInv'
<1>0. TypeOK
  BY DEF IInv
<1>1. CASE record[slot(c)] # None
  BY <1>1, ReplayStep DEF Look, at, recorded
<1>2. CASE record[slot(c)] = None
  <2>1. /\ call' = [call EXCEPT ![c].at = "insert"] /\ call[c].at = "look"
        /\ UNCHANGED <<record, writing, entity, defined, crashes>>
    BY <1>2 DEF Look, recorded, Go, at
  <2>2. call' \in [Calls -> CallType] /\ \A e \in Calls \ {c} : call'[e] = call[e]
    BY <1>0, <2>1, Types DEF CallType, Point
  <2>3. /\ call'[c].at = "insert" /\ call'[c].answer = call[c].answer
        /\ call'[c].kind = call[c].kind /\ call'[c].key = call[c].key /\ call'[c].body = call[c].body
    BY <1>0, <2>1, Types DEF CallType
  <2>4. entity[c] = "none" /\ call[c].answer = NoAnswer
    BY <2>1 DEF IInv, Early
  <2>5. Early(c)' /\ Keyed(c)'
    BY <2>1, <2>3, <2>4 DEF Early, Keyed
  <2>6. Told(c)'
    BY <2>3, <2>4, NamesAssumption DEF Told, NoAnswer
  <2> QED
    BY <1>0, <2>1, <2>2, <2>3, <2>5, <2>6, LocalStep, Types
<1> QED
  BY <1>1, <1>2

\* The insert: the key is free, taken, or being written.
LEMMA InsertStep ==
  ASSUME IInv, NEW c \in Calls, Insert(c)
  PROVE  IInv'
<1>0. TypeOK
  BY DEF IInv
<1>1. UNCHANGED <<record, entity, defined, crashes>> /\ call[c].at = "insert"
  BY DEF Insert, at
<1>2. /\ entity[c] = "none" /\ call[c].answer = NoAnswer
      /\ has_key(c) => slot(c) \in Slots
  BY <1>0, <1>1, Fields DEF IInv, Early
<1>3. CASE is_conflict(c) /\ call[c].kind = "request"
  <2>1. call' = [call EXCEPT ![c].at = "race"] /\ writing' = writing
    BY <1>3 DEF Insert, Go
  <2>2. call' \in [Calls -> CallType] /\ \A e \in Calls \ {c} : call'[e] = call[e]
    BY <1>0, <2>1, Types DEF CallType, Point
  <2>3. /\ call'[c].at = "race" /\ call'[c].answer = call[c].answer
        /\ call'[c].kind = call[c].kind /\ call'[c].key = call[c].key /\ call'[c].body = call[c].body
    BY <1>0, <2>1, Types DEF CallType
  <2>4. Early(c)' /\ Keyed(c)'
    BY <1>1, <1>2, <1>3, <2>3 DEF Early, Keyed, is_conflict, recorded, has_key, slot
  <2>5. Told(c)'
    BY <1>2, <2>3, NamesAssumption DEF Told, NoAnswer
  <2> QED
    BY <1>0, <1>1, <2>1, <2>2, <2>3, <2>4, <2>5, LocalStep, Types
<1>4. CASE is_conflict(c) /\ call[c].kind # "request"
  <2>1. /\ call' = [call EXCEPT ![c].at = "answered", ![c].answer = Refused("conflict")]
        /\ writing' = writing
    BY <1>4 DEF Insert, Answer
  <2>2. "answered" \in Point /\ Refused("conflict") \in Answers
    BY DEF Point, Answers
  <2>3. /\ call' \in [Calls -> CallType] /\ \A e \in Calls \ {c} : call'[e] = call[e]
        /\ call'[c].at = "answered" /\ call'[c].answer = Refused("conflict")
        /\ call'[c].kind = call[c].kind /\ call'[c].key = call[c].key /\ call'[c].body = call[c].body
    BY Zenon, <1>0, <2>1, <2>2, Moves
  <2>4. Early(c)' /\ Keyed(c)'
    BY <1>1, <1>2, <2>3 DEF Early, Keyed
  <2>5. Told(c)'
    BY <1>1, <1>2, <1>4, <2>3, NamesAssumption
       DEF Told, Refused, is_conflict, recorded, has_key, slot
  <2> QED
    BY <1>0, <1>1, <2>1, <2>3, <2>4, <2>5, LocalStep, Types
<1>5. CASE ~ is_conflict(c)
  <2>1. /\ call' = [call EXCEPT ![c].at = "commit"]
        /\ writing' = IF has_key(c) THEN [writing EXCEPT ![slot(c)] = c] ELSE writing
        /\ has_key(c) => writing[slot(c)] = None /\ record[slot(c)] = None
    BY <1>5 DEF Insert, Go, must_wait, is_conflict, recorded
  <2>2. call' \in [Calls -> CallType] /\ \A e \in Calls \ {c} : call'[e] = call[e]
    BY <1>0, <2>1, Types DEF CallType, Point
  <2>3. /\ call'[c].at = "commit" /\ call'[c].answer = call[c].answer
        /\ call'[c].kind = call[c].kind /\ call'[c].key = call[c].key /\ call'[c].body = call[c].body
    BY <1>0, <2>1, Types DEF CallType
  <2>4. /\ writing' \in [Slots -> Calls \union {None}]
        /\ has_key(c) => writing'[slot(c)] = c
        /\ \A s \in Slots : writing[s] # None /\ writing[s] # c => writing'[s] = writing[s]
    BY <1>0, <1>2, <2>1, Types
  <2>5. Early(c)'
    BY <1>1, <1>2, <2>3 DEF Early
  <2>6. Keyed(c)'
    BY <1>1, <1>2, <2>1, <2>3, <2>4 DEF Keyed, has_key, slot
  <2>7. Told(c)'
    BY <1>2, <2>3, NamesAssumption DEF Told, NoAnswer
  <2> QED
    BY <1>0, <1>1, <2>2, <2>3, <2>4, <2>5, <2>6, <2>7, LocalStep, Types
<1> QED
  BY <1>3, <1>4, <1>5

\* A crash undoes what the call had not committed, and nothing else.
LEMMA CrashStep ==
  ASSUME IInv, NEW c \in Calls, Crash(c)
  PROVE  IInv'
<1>0. TypeOK
  BY DEF IInv
<1>1. /\ UNCHANGED <<record, entity, defined>>
      /\ call' = [call EXCEPT ![c].at = "crashed", ![c].answer = NoAnswer]
  BY DEF Crash
<1>2. crashes' \in 0 .. MaxCrashes
  BY <1>0, MaxCrashesAssumption, Types DEF Crash
<1>3. "crashed" \in Point /\ NoAnswer \in Answers
  BY DEF Point, Answers
<1>4. /\ call' \in [Calls -> CallType] /\ \A e \in Calls \ {c} : call'[e] = call[e]
      /\ call'[c].at = "crashed" /\ call'[c].answer = NoAnswer
      /\ call'[c].kind = call[c].kind /\ call'[c].key = call[c].key /\ call'[c].body = call[c].body
  BY Zenon, <1>0, <1>1, <1>3, Moves
<1>5. /\ writing' \in [Slots -> Calls \union {None}]
      /\ \A s \in Slots : writing[s] # None /\ writing[s] # c => writing'[s] = writing[s]
  BY Zenon, <1>0, Types DEF Crash, unlocked
<1>6. Early(c)'
  BY <1>4 DEF Early
<1>7. Keyed(c)'
  BY <1>1, <1>4 DEF IInv, Keyed, has_key, slot
<1>8. Told(c)'
  BY <1>4, NamesAssumption DEF Told, NoAnswer
<1>9. defined \in {"absent", "registered", "immutable"}
  BY <1>0, Types
<1> QED
  BY <1>1, <1>2, <1>4, <1>5, <1>6, <1>7, <1>8, <1>9, LocalStep

\* The commit: the request or execution and its key appear together.
LEMMA CommitStep ==
  ASSUME IInv, NEW c \in Calls, Commit(c)
  PROVE  IInv'
<1>0. TypeOK
  BY DEF IInv
<1>1. /\ call[c].at = "commit" /\ crashes' = crashes
      /\ entity' = [entity EXCEPT ![c] = "new"]
      /\ defined' \in {"absent", "registered", "immutable"}
      /\ defined # "absent" => defined' # "absent"
      /\ call' = [call EXCEPT ![c].at = "start", ![c].answer = Created(c)]
  BY <1>0, Types DEF Commit, at, marked_immutable
<1>2. /\ has_key(c) => slot(c) \in Slots /\ record[slot(c)] = None /\ writing[slot(c)] = c
      /\ entity[c] = "none"
  BY <1>0, <1>1, Fields DEF IInv, Keyed, Early
<1>3. "start" \in Point /\ Created(c) \in Answers
  BY DEF Point, Answers
<1>4. /\ call' \in [Calls -> CallType] /\ \A e \in Calls \ {c} : call'[e] = call[e]
      /\ call'[c].at = "start" /\ call'[c].answer = Created(c)
      /\ call'[c].kind = call[c].kind /\ call'[c].key = call[c].key /\ call'[c].body = call[c].body
  BY Zenon, <1>0, <1>1, <1>3, Moves
<1>5. /\ record' = IF has_key(c) THEN [record EXCEPT ![slot(c)] = c] ELSE record
      /\ record' \in [Slots -> Calls \union {None}]
      /\ has_key(c) => record'[slot(c)] = c
  BY <1>0, <1>2, Types DEF Commit, recorded_with
<1>6. /\ writing' \in [Slots -> Calls \union {None}]
      /\ \A s \in Slots : writing[s] # None /\ writing[s] # c => writing'[s] = writing[s]
  BY Zenon, <1>0, Types DEF Commit, unlocked
<1>7. /\ entity' \in [Calls -> {"none", "new", "started"}]
      /\ entity'[c] = "new"
      /\ \A e \in Calls \ {c} : entity'[e] = entity[e]
  BY <1>0, <1>1, Types
<1>8. TypeOK'
  BY Zenon, <1>0, <1>1, <1>4, <1>5, <1>6, <1>7 DEF TypeOK, CallType, Answers
<1>9. Early(c)' /\ Keyed(c)' /\ Told(c)'
  <2>1. Early(c)' /\ Keyed(c)'
    BY <1>4, <1>5, <1>7 DEF Early, Keyed, has_key, slot
  <2>2. Told(c)'
    BY <1>4, <1>7 DEF Told, Created
  <2> QED
    BY <2>1, <2>2
<1>10. ASSUME NEW d \in Calls \ {c} PROVE Early(d)' /\ Keyed(d)' /\ Told(d)'
  <2>1. call'[d] = call[d] /\ entity'[d] = entity[d]
    BY <1>4, <1>7
  <2>2. Early(d) /\ Keyed(d) /\ Told(d) /\ (has_key(d) => slot(d) \in Slots)
    BY <1>0, Fields DEF IInv
  <2>3. has_key(d) => \/ record'[slot(d)] = record[slot(d)]
                      \/ slot(d) = slot(c) /\ record[slot(d)] = None /\ writing[slot(d)] = c
                         /\ record'[slot(d)] = c
    BY <1>0, <1>2, <1>5, <2>2, Types
  <2>4. Early(d)'
    BY <2>1, <2>2, <2>3, NamesAssumption DEF Early, has_key, slot
  <2>5. Keyed(d)'
    BY SMTT(20), <1>6, <2>1, <2>2, <2>3, NamesAssumption DEF Keyed, has_key, slot
  <2>6. Told(d)'
    <3>1. ASSUME NEW e \in Calls, entity[e] # "none"
          PROVE  call'[e] = call[e] /\ entity'[e] # "none"
      BY <1>2, <1>4, <1>7, <3>1
    <3>2. has_key(d) /\ record[slot(d)] # None =>
            /\ record'[slot(d)] = record[slot(d)] /\ record[slot(d)] \in Calls
            /\ entity[record[slot(d)]] # "none"
      BY <1>0, <2>2, <2>3, Types DEF IInv, Recorded
    <3>3. call'[d].answer.status = "definition_conflict" =>
            call'[d].kind = "workflow" /\ defined' # "absent"
      BY <1>1, <2>1, <2>2 DEF Told
    <3> QED
      BY <2>1, <2>2, <3>1, <3>2, <3>3 DEF Told, has_key, slot
  <2> QED
    BY <2>4, <2>5, <2>6
<1>11. ASSUME NEW s \in Slots PROVE Recorded(s)'
  <2>1. Recorded(s) /\ record[s] \in Calls \union {None}
    BY <1>0, Types DEF IInv
  <2>2. CASE has_key(c) /\ s = slot(c)
    BY <1>4, <1>5, <1>7, <2>2 DEF Recorded, slot
  <2>3. CASE record'[s] = record[s]
    <3>1. record[s] # None => record[s] \in Calls \ {c}
      BY <1>2, <2>1 DEF Recorded
    <3> QED
      BY <1>4, <1>7, <2>1, <2>3, <3>1 DEF Recorded, slot
  <2> QED
    BY <1>0, <1>5, <2>2, <2>3, Types
<1> QED
  BY <1>8, <1>9, <1>10, <1>11 DEF IInv

\* Starting what has been created, by a call or by the worker, changes no record.
LEMMA StartStep ==
  ASSUME IInv, NEW c \in Calls, Start(c) \/ WorkerAdvances(c)
  PROVE  IInv'
<1>0. TypeOK
  BY DEF IInv
<1>1. PICK e \in Calls : entity[e] # "none" /\ entity' = [entity EXCEPT ![e] = "started"]
  <2>1. CASE Start(c)
    BY Zenon, <2>1 DEF Start, IInv, Told, at
  <2>2. CASE WorkerAdvances(c)
    BY Zenon, <2>2 DEF WorkerAdvances, is_runnable
  <2> QED
    BY <2>1, <2>2
<1>2. UNCHANGED <<record, writing, defined, crashes>>
  BY DEF Start, WorkerAdvances
<1>3. /\ entity' \in [Calls -> {"none", "new", "started"}]
      /\ \A d \in Calls : entity'[d] = "none" <=> entity[d] = "none"
  BY <1>0, <1>1, Types
<1>4. call' = call \/ (call[c].at = "start" /\ call' = [call EXCEPT ![c].at = "answered"])
  BY DEF Start, WorkerAdvances, Go, at
<1>5. call' \in [Calls -> CallType]
  BY <1>0, <1>4, Types DEF CallType, Point
<1>6. ASSUME NEW d \in Calls
      PROVE  /\ call'[d].kind = call[d].kind /\ call'[d].key = call[d].key
             /\ call'[d].body = call[d].body /\ call'[d].answer = call[d].answer
             /\ call'[d].at = call[d].at \/ call'[d].at = "answered"
  BY <1>0, <1>4, Types DEF CallType
<1>7. TypeOK'
  BY <1>0, <1>2, <1>3, <1>5 DEF TypeOK, CallType, Answers
<1>8. ASSUME NEW d \in Calls PROVE Early(d)' /\ Keyed(d)' /\ Told(d)'
  <2>1. Early(d) /\ Keyed(d) /\ Told(d)
    BY DEF IInv
  <2>2. Early(d)'
    BY <1>2, <1>3, <1>6, <2>1 DEF Early, has_key, slot
  <2>3. Keyed(d)'
    BY <1>2, <1>3, <1>6, <2>1 DEF Keyed, has_key, slot
  <2>4. has_key(d) /\ record[slot(d)] # None => record[slot(d)] \in Calls
    BY <1>0, Fields, Types
  <2>5. Told(d)'
    <3>1. /\ has_key(d)' <=> has_key(d)
          /\ slot(d)' = slot(d)
          /\ call'[d].answer = call[d].answer /\ call'[d].kind = call[d].kind
      BY Zenon, <1>6 DEF has_key, slot
    <3>2. call'[d].at = "start" => call'[d].answer.entity \in Calls
      BY Zenon, <1>6, <2>1 DEF Told
    <3>3. ASSUME call'[d].answer.entity \in Calls
          PROVE  LET f == call'[d].answer.entity
                 IN  /\ entity'[f] # "none" /\ call'[f].kind = call'[d].kind
                     /\ f # d => has_key(d)' /\ call'[f].key = call'[d].key
                     /\ call'[d].kind = "request" =>
                          fingerprint(call'[f].body) = fingerprint(call'[d].body)
      <4> DEFINE f == call'[d].answer.entity
      <4>1. /\ entity[f] # "none" /\ call[f].kind = call[d].kind
            /\ f # d => has_key(d) /\ call[f].key = call[d].key
            /\ call[d].kind = "request" => fingerprint(call[f].body) = fingerprint(call[d].body)
        BY Zenon, <2>1, <3>1, <3>3 DEF Told
      <4>2. /\ call'[f].kind = call[f].kind /\ call'[f].key = call[f].key
            /\ call'[f].body = call[f].body
        BY Zenon, <1>6, <3>3
      <4>3. call'[d].key = call[d].key /\ call'[d].body = call[d].body
        BY Zenon, <1>6
      <4>4. entity'[f] # "none" /\ call'[f].kind = call'[d].kind
        <5>1. entity'[f] # "none"
          BY <1>3, <3>3, <4>1
        <5>2. call'[f].kind = call'[d].kind
          BY Zenon, <3>1, <4>1, <4>2
        <5> QED
          BY Zenon, <5>1, <5>2
      <4>5. f # d => has_key(d)' /\ call'[f].key = call'[d].key
        BY Zenon, <3>1, <4>1, <4>2, <4>3
      <4>6. call'[d].kind = "request" =>
              fingerprint(call'[f].body) = fingerprint(call'[d].body)
        BY Zenon, <3>1, <4>1, <4>2, <4>3
      <4> QED
        BY Zenon, <4>4, <4>5, <4>6
    <3>4. call'[d].answer.status \in {"conflict", "key_conflict"} =>
            entity'[d] = "none" /\ has_key(d)' /\ record'[slot(d)'] # None
      BY Zenon, <1>2, <1>3, <2>1, <3>1 DEF Told
    <3>5. call'[d].answer.status = "key_conflict" =>
            fingerprint(call'[record'[slot(d)']].body) # fingerprint(call'[d].body)
      BY Zenon, <1>2, <1>6, <2>1, <2>4, <3>1 DEF Told
    <3>6. call'[d].answer.status = "definition_conflict" =>
            call'[d].kind = "workflow" /\ defined' # "absent"
      BY Zenon, <1>2, <2>1, <3>1 DEF Told
    <3> QED
      BY Zenon, <3>2, <3>3, <3>4, <3>5, <3>6 DEF Told
  <2> QED
    BY <2>2, <2>3, <2>5
<1>9. ASSUME NEW s \in Slots PROVE Recorded(s)'
  <2>1. Recorded(s) /\ record[s] \in Calls \union {None}
    BY <1>0, Types DEF IInv
  <2> QED
    BY <1>2, <1>3, <1>6, <2>1 DEF Recorded, slot
<1> QED
  BY <1>7, <1>8, <1>9 DEF IInv

\* Every step keeps the invariant.
LEMMA NextInv == IInv /\ [Next]_vars => IInv'
<1> SUFFICES ASSUME IInv, [Next]_vars PROVE IInv'
  OBVIOUS
<1>1. ASSUME NEW c \in Calls, ReplayAfterRace(c) PROVE IInv'
  <2>1. record[slot(c)] # None
    BY <1>1 DEF ReplayAfterRace, at, IInv, Early
  <2> QED
    BY <1>1, <2>1, ReplayStep DEF ReplayAfterRace, at, recorded
<1>2. ASSUME NEW c \in Calls, Begin(c) \/ Step(c) \/ WorkerAdvances(c) \/ Crash(c) PROVE IInv'
  BY <1>1, <1>2, BeginStep, DefineStep, LookStep, InsertStep, CommitStep, StartStep, CrashStep DEF Step
<1>3. CASE UNCHANGED vars
  <2>1. TypeOK'
    BY <1>3 DEF vars, IInv, TypeOK
  <2>2. ASSUME NEW c \in Calls PROVE Early(c)' /\ Keyed(c)' /\ Told(c)'
    <3>1. Early(c) /\ Keyed(c) /\ Told(c)
      BY DEF IInv
    <3>2. Early(c)'
      BY <1>3, <3>1 DEF vars, Early, has_key, slot
    <3>3. Keyed(c)'
      BY <1>3, <3>1 DEF vars, Keyed, has_key, slot
    <3>4. Told(c)'
      BY Zenon, <1>3, <3>1 DEF vars, Told, has_key, slot
    <3> QED
      BY <3>2, <3>3, <3>4
  <2>3. ASSUME NEW s \in Slots PROVE Recorded(s)'
    BY <1>3 DEF vars, IInv, Recorded, slot
  <2> QED
    BY <2>1, <2>2, <2>3 DEF IInv
<1> QED
  BY <1>2, <1>3 DEF Next

\* The inductive invariant holds in every reachable state.
THEOREM CreationInvariance == Spec => []IInv
  BY InitInv, NextInv, PTL DEF Spec

\* The variables keep their types.
THEOREM CreationTypeCorrect == Spec => []TypeOK
<1>1. IInv => TypeOK
  BY DEF IInv
<1> QED
  BY <1>1, CreationInvariance, PTL

(***************************************************************************)
(* However many calls race with one idempotency key, crash and are         *)
(* repeated, at most one of them creates a request, or an execution        *)
(* (create_request.py, start_execution).                                   *)
(***************************************************************************)
THEOREM KeysCreateOnce == Spec => []OneEntityPerKey
<1>1. IInv => OneEntityPerKey
  <2> SUFFICES ASSUME IInv, NEW c \in Calls, NEW d \in Calls, c # d, has_key(c),
                      call[c].key = call[d].key, call[c].kind = call[d].kind
               PROVE  entity[c] = "none" \/ entity[d] = "none"
    BY DEF OneEntityPerKey
  <2>1. slot(c) = slot(d) /\ has_key(d)
    BY SMTT(20) DEF slot, has_key
  <2> QED
    BY <2>1 DEF IInv, Keyed
<1> QED
  BY <1>1, CreationInvariance, PTL

(***************************************************************************)
(* A client is never told of a request with another key or fingerprint,    *)
(* not after a lost race either (_replay_if_seen, _replay_after_race).     *)
(***************************************************************************)
THEOREM ReplaysAlwaysMatch == Spec => []ReplaysMatch
<1>1. IInv => ReplaysMatch
  <2> SUFFICES ASSUME IInv, NEW c \in Calls, at(c, "answered"), call[c].kind = "request",
                      call[c].answer.entity # None
               PROVE  LET d == call[c].answer.entity
                      IN  /\ call[d].body.provider = call[c].body.provider
                          /\ call[d].body.operation = call[c].body.operation
                          /\ c # d => has_key(c) /\ call[d].key = call[c].key
    BY DEF ReplaysMatch
  <2>1. call[c].answer.entity \in Calls
    BY DEF IInv, TypeOK, NoAnswer, Refused, Created, Replayed
  <2>2. fingerprint(call[call[c].answer.entity].body) = fingerprint(call[c].body)
    BY SMTT(20), <2>1 DEF IInv, Told
  <2>3. /\ call[call[c].answer.entity].body.provider = call[c].body.provider
        /\ call[call[c].answer.entity].body.operation = call[c].body.operation
    BY <2>2 DEF fingerprint
  <2> QED
    BY <2>1, <2>3 DEF IInv, Told
<1> QED
  BY <1>1, CreationInvariance, PTL

(***************************************************************************)
(* A conflict is answered only when another call has used the key, and a   *)
(* key conflict only when it asked for something else: neither a rollback  *)
(* nor a crash burns a key, and respelling a request is no conflict.       *)
(***************************************************************************)
THEOREM NoKeyIsBurnt == Spec => []ConflictsAreReal
<1>1. IInv => ConflictsAreReal
  <2>0. ASSUME IInv, NEW c \in Calls, call[c].answer.status = "definition_conflict"
        PROVE  call[c].kind = "workflow" /\ defined # "absent"
    BY <2>0 DEF IInv, Told
  <2> SUFFICES ASSUME IInv, NEW c \in Calls, call[c].answer.status \in {"conflict", "key_conflict"}
               PROVE  \E d \in Calls \ {c} : /\ call[d].kind = call[c].kind
                                             /\ call[d].key = call[c].key
                                             /\ entity[d] # "none"
                                             /\ call[c].answer.status = "key_conflict" =>
                                                  \/ call[d].body.provider # call[c].body.provider
                                                  \/ call[d].body.operation # call[c].body.operation
    BY <2>0 DEF ConflictsAreReal
  <2> DEFINE d == record[slot(c)]
  <2>1. entity[c] = "none" /\ has_key(c) /\ d # None
    BY DEF IInv, Told
  <2>2. slot(c) \in Slots /\ d \in Calls
    BY <2>1, Fields, Types DEF IInv
  <2>3. slot(d) = slot(c) /\ entity[d] # "none"
    BY <2>1, <2>2 DEF IInv, Recorded
  <2>4. call[c].answer.status = "key_conflict" => fingerprint(call[d].body) # fingerprint(call[c].body)
    BY DEF IInv, Told
  <2>5. call[c].answer.status = "key_conflict" =>
          \/ call[d].body.provider # call[c].body.provider
          \/ call[d].body.operation # call[c].body.operation
    BY <2>4 DEF fingerprint
  <2>6. call[d].kind = call[c].kind /\ call[d].key = call[c].key /\ d # c
    BY <2>1, <2>3 DEF slot
  <2> QED
    BY Zenon, <2>2, <2>3, <2>5, <2>6
<1> QED
  BY <1>1, CreationInvariance, PTL
=============================================================================
