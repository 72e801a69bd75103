--------------------- MODULE WorkflowOrchestrator_proofs ---------------------
(***************************************************************************)
(* WorkflowOrchestrator for any steps, dependencies, tasks and bounds: the *)
(* inductive invariant WInv, what each operation on the aggregate, each    *)
(* move of a task's stack and each action keeps of it, and the theorems.   *)
(***************************************************************************)
EXTENDS WorkflowOrchestrator, FiniteSetTheorems, TLAPS

\* The statuses an execution really takes.
Reached == {"queued", "running", "waiting", "compensating", "compensated", "succeeded",
            "cancelled", "manual_review"}

Live == {"queued", "running", "waiting"}

\* A step that no compensation has touched.
Fresh == {"pending", "ready", "running", "waiting", "retry_scheduled", "succeeded"}

StepRow ==
  [status : WorkflowStepStatus,
   completed_at : Nat,
   compensation_request_id : Requests \union {NoRequest}]

Rows ==
  [status : Reached,
   steps : [Steps -> StepRow],
   cancel_reason : BOOLEAN,
   deadline_processed : BOOLEAN]

Ranked(e) == {s \in Steps : e.steps[s].completed_at > 0}

(***************************************************************************)
(* What every transaction keeps of the execution, whoever runs it.         *)
(***************************************************************************)
StatusFits(e) ==
  /\ e.cancel_reason => e.status \in {"compensating", "cancelled", "manual_review"}
  /\ e.status \in {"cancelled", "compensated"} =>
       \A s \in Steps :
         e.steps[s].status \notin {"succeeded", "running", "waiting", "ready", "retry_scheduled"}
  /\ e.status = "compensated" => \A s \in Steps : e.steps[s].status # "compensating"
  /\ e.status = "succeeded" => \A s \in Steps : e.steps[s].status = "succeeded"
  /\ e.status \in Live =>
       \A s \in Steps : e.steps[s].status = "ready" => dependencies_satisfied(e, s)

\* Steps complete after what they depend on, and the ranks leave no gap.
RanksFit(e) ==
  \A s \in Steps :
    /\ e.steps[s].status = "succeeded" => e.steps[s].completed_at > 0
    /\ e.steps[s].completed_at > 0 =>
         e.steps[s].status \in {"succeeded", "compensating", "compensated", "failed"}
    /\ e.steps[s].status \in {"ready", "running", "waiting", "retry_scheduled"} =>
         \A d \in DependsOn[s] : e.steps[d].completed_at > 0
    /\ e.steps[s].completed_at > 0 =>
         \A d \in DependsOn[s] : /\ e.steps[d].completed_at > 0
                                 /\ e.steps[d].completed_at < e.steps[s].completed_at
    /\ e.steps[s].completed_at <= Cardinality(Ranked(e))

EInv(e) ==
  /\ e \in Rows
  /\ StatusFits(e)
  /\ RanksFit(e)
  /\ \A s \in Steps : e.steps[s].compensation_request_id \in {NoRequest, Forward(s), Undo(s)}

\* How the requests r, created as often as c says, stand to the steps.
RInv(e, r, c) ==
  /\ r \in [Requests -> RequestStatus \union {Absent}]
  /\ c \in [Requests -> 0 .. 1]
  /\ \A s \in Steps :
       /\ e.steps[s].status \in {"pending", "ready"} =>
            r[Forward(s)] = Absent /\ c[Forward(s)] = 0
       /\ e.steps[s].status = "succeeded" => r[Forward(s)] = "succeeded"
       /\ e.steps[s].status \in Fresh => r[Undo(s)] = Absent /\ c[Undo(s)] = 0
       /\ r[Undo(s)] # Absent => r[Forward(s)] = "succeeded"

(***************************************************************************)
(* What a frame relies on when it runs next.                               *)
(***************************************************************************)
Callers == {"run_steps", "forward_outcome", "undo_outcome"}
WithRequest == {"dispatch", "settle", "hook_read", "hook", "forward_outcome", "undo_outcome"}

FrameFits(e, r, c, f) ==
  /\ f \in Frame
  /\ f.at \in WithRequest => f.request \in Requests /\ r[f.request] # Absent
  /\ f.at = "forward_outcome" => f.request = Forward(f.request[1])
  /\ f.at = "undo_outcome" => f.request = Undo(f.request[1])
  /\ f.result = "succeeded" => f.request \in Requests /\ r[f.request] = "succeeded"
  /\ f.at = "run_steps" => e.status # "queued"
  /\ f.at = "compensate_step" =>
       /\ f.request \in Requests
       /\ f.request = Undo(f.request[1])
       /\ r[f.request] = Absent
       /\ c[f.request] = 0
       /\ r[Forward(f.request[1])] = "succeeded"
       /\ e.steps[f.request[1]].status \notin Fresh

FramesFit(e, r, c, frames) ==
  /\ frames \in Seq(Frame)
  /\ \A i \in DOMAIN frames :
       /\ FrameFits(e, r, c, frames[i])
       /\ i # 1 => frames[i].at \in Callers

\* One task at most is about to create the compensating request of a step.
UndoneOnce ==
  \A t, u \in Tasks :
    /\ is_at(t, "compensate_step")
    /\ is_at(u, "compensate_step")
    /\ running(t).request = running(u).request
    => t = u

Stacks ==
  /\ stack \in [Tasks -> Seq(Frame)]
  /\ \A t \in Tasks : FramesFit(execution, request, created, stack[t])
  /\ UndoneOnce

Counters ==
  /\ past_deadline \in BOOLEAN
  /\ webhooks \in 0 .. MaxWebhooks
  /\ interruptions \in 0 .. MaxInterruptions

WInv ==
  /\ EInv(execution)
  /\ RInv(execution, request, created)
  /\ Stacks
  /\ Counters

-----------------------------------------------------------------------------
(***************************************************************************)
(* Facts about numbers and sets.                                           *)
(***************************************************************************)

\* A set of naturals that is not empty has a least element.
LEMMA LeastExists ==
  ASSUME NEW S \in SUBSET Nat, S # {}
  PROVE  /\ Min(S) \in S
         /\ \A y \in S : Min(S) <= y
<1>1. \A x, y \in S : /\ <<y, x>> \in Nat \X Nat
                     /\ <<y, x>>[1] = y
                     /\ <<y, x>>[2] = x
  OBVIOUS
<1>2. \E x \in S : \A y \in S : ~ (y < x)
  <2>1. PICK x \in S : \A y \in S : ~ (<<y, x>> \in OpToRel(<, Nat))
    BY NatLessThanWellFounded, WFMin, Zenon
  <2> QED
    BY <1>1, <2>1, Zenon DEF OpToRel
<1>3. \E x \in S : \A y \in S : x <= y
  BY <1>2
<1> QED
  BY <1>3, Zenon DEF Min

\* A bounded one has a greatest.
LEMMA GreatestExists ==
  ASSUME NEW S \in SUBSET Nat, S # {}, NEW n \in Nat, \A x \in S : x <= n
  PROVE  /\ Max(S) \in S
         /\ \A y \in S : y <= Max(S)
<1> DEFINE R == {m \in Nat : n - m \in S}
<1>1. PICK x \in S : TRUE
  BY Zenon
<1>2. n - x \in R
  BY <1>1
<1>3. Min(R) \in R /\ \A y \in R : Min(R) <= y
  BY <1>2, LeastExists, Zenon
<1>4. \A y \in S : n - y \in R
  OBVIOUS
<1> HIDE DEF R
<1>5. \A y \in S : Min(R) <= n - y
  BY <1>3, <1>4
<1>6. n - Min(R) \in S /\ Min(R) \in Nat
  BY <1>3 DEF R
<1>7. \A y \in S : y <= n - Min(R)
  BY <1>5, <1>6
<1>8. \E z \in S : \A y \in S : z >= y
  BY <1>6, <1>7
<1> QED
  BY <1>8, Zenon DEF Max

-----------------------------------------------------------------------------
(***************************************************************************)
(* The operations on the aggregate.  Moves(e, f, won) is what the requests *)
(* and the frames need to know of a transaction that leaves f: nothing     *)
(* becomes fresh again, and only the steps in won are newly succeeded.     *)
(***************************************************************************)
Moves(e, f, won) ==
  /\ f.status = "queued" => e.status = "queued"
  /\ \A s \in Steps :
       /\ f.steps[s].status \in {"pending", "ready"} => e.steps[s].status \in {"pending", "ready"}
       /\ f.steps[s].status \in Fresh => e.steps[s].status \in Fresh
       /\ f.steps[s].status = "succeeded" => e.steps[s].status = "succeeded" \/ s \in won
       /\ f.steps[s].status = "compensating" => e.steps[s].status = "compensating"

\* Doing nothing moves nothing.
LEMMA MovesRefl == \A e, won : Moves(e, e, won)
BY DEF Moves

\* Moves compose.
LEMMA MovesTrans ==
  \A e, f, g, won : Moves(e, f, won) /\ Moves(f, g, won) => Moves(e, g, won)
BY DEF Moves

\* What transition_steps leaves.
LEMMA Transitioned ==
  ASSUME NEW e \in Rows, NEW S, NEW x \in WorkflowStepStatus, NEW f,
         f = transition_steps(e, S, x)
  PROVE  /\ f \in Rows
         /\ f.status = e.status
         /\ f.cancel_reason = e.cancel_reason
         /\ f.deadline_processed = e.deadline_processed
         /\ \A s \in Steps :
              /\ f.steps[s].status = IF s \in S THEN x ELSE e.steps[s].status
              /\ f.steps[s].completed_at = e.steps[s].completed_at
              /\ f.steps[s].compensation_request_id = e.steps[s].compensation_request_id
BY ZenonT(60) DEF Rows, StepRow, transition_steps

\* When transition_steps may take a step to x.
Allowed(e, s, x) ==
  \/ /\ x = "ready"
     /\ e.steps[s].status = "pending"
     /\ dependencies_satisfied(e, s)
     /\ e.status \notin {"cancelled", "compensated"}
  \/ x = "running" /\ e.steps[s].status = "ready"
  \/ x \in {"waiting", "retry_scheduled"} /\ e.steps[s].status = "running"
  \/ x = "failed" /\ e.steps[s].status \in {"running", "waiting", "retry_scheduled", "compensating"}
  \/ /\ x = "cancelled"
     /\ e.steps[s].status \in {"pending", "ready", "running", "waiting", "retry_scheduled"}
  \/ x = "compensating" /\ e.steps[s].status = "succeeded" /\ e.status = "compensating"
  \/ x = "compensated" /\ e.steps[s].status = "compensating"

\* The aggregate's invariant survives every such transition.
LEMMA TransitionKeeps ==
  ASSUME NEW e, EInv(e), NEW S \in SUBSET Steps, NEW x \in WorkflowStepStatus,
         \A s \in S : Allowed(e, s, x), NEW f, f = transition_steps(e, S, x)
  PROVE  /\ EInv(f)
         /\ x # "compensating" => Moves(e, f, {})
<1>1. /\ e \in Rows
      /\ f \in Rows
      /\ f.status = e.status
      /\ f.cancel_reason = e.cancel_reason
      /\ \A s \in Steps :
           /\ f.steps[s].status = IF s \in S THEN x ELSE e.steps[s].status
           /\ f.steps[s].completed_at = e.steps[s].completed_at
           /\ f.steps[s].compensation_request_id = e.steps[s].compensation_request_id
  BY Transitioned DEF EInv
<1>2. \A s \in Steps : DependsOn[s] \subseteq Steps
  BY DependsOnAssumption
<1>3. StatusFits(f)
  <2>1. f.status \in {"cancelled", "compensated"} =>
          \A s \in Steps :
            f.steps[s].status \notin {"succeeded", "running", "waiting", "ready", "retry_scheduled"}
    BY <1>1 DEF Allowed, EInv, StatusFits
  <2>2. f.status = "succeeded" => \A s \in Steps : f.steps[s].status = "succeeded"
    BY <1>1 DEF Allowed, EInv, StatusFits
  <2>3. ASSUME f.status \in Live, NEW s \in Steps, f.steps[s].status = "ready"
        PROVE  dependencies_satisfied(f, s)
    <3>1. dependencies_satisfied(e, s)
      BY <1>1, <2>3 DEF Allowed, EInv, StatusFits
    <3> QED
      BY <1>1, <1>2, <2>3, <3>1 DEF Allowed, dependencies_satisfied, Live
  <2>4. f.status = "compensated" => \A s \in Steps : f.steps[s].status # "compensating"
    BY <1>1 DEF Allowed, EInv, StatusFits
  <2>5. f.cancel_reason => f.status \in {"compensating", "cancelled", "manual_review"}
    BY <1>1, Zenon DEF EInv, StatusFits
  <2> QED
    BY <2>1, <2>2, <2>3, <2>4, <2>5, Zenon DEF StatusFits
<1>4. RanksFit(f)
  <2>1. Ranked(f) = Ranked(e)
    BY <1>1 DEF Ranked
  <2>2. ASSUME NEW s \in Steps
        PROVE  /\ f.steps[s].status = "succeeded" => f.steps[s].completed_at > 0
               /\ f.steps[s].completed_at > 0 =>
                    f.steps[s].status \in {"succeeded", "compensating", "compensated", "failed"}
    BY <1>1 DEF Allowed, EInv, RanksFit
  <2>3. ASSUME NEW s \in Steps,
               f.steps[s].status \in {"ready", "running", "waiting", "retry_scheduled"},
               NEW d \in DependsOn[s]
        PROVE  f.steps[d].completed_at > 0
    BY <1>1, <1>2, <2>3 DEF Allowed, EInv, RanksFit, dependencies_satisfied
  <2>4. ASSUME NEW s \in Steps, f.steps[s].completed_at > 0, NEW d \in DependsOn[s]
        PROVE  f.steps[d].completed_at > 0 /\ f.steps[d].completed_at < f.steps[s].completed_at
    BY <1>1, <1>2, <2>4 DEF EInv, RanksFit
  <2>5. \A s \in Steps : f.steps[s].completed_at <= Cardinality(Ranked(f))
    BY <1>1, <2>1 DEF EInv, RanksFit
  <2> QED
    BY <2>2, <2>3, <2>4, <2>5 DEF RanksFit
<1>5. x # "compensating" => Moves(e, f, {})
  BY <1>1 DEF Allowed, Moves, Fresh
<1> QED
  BY <1>1, <1>3, <1>4, <1>5 DEF EInv

\* The fields besides the steps may change together, as far as the steps allow.
LEMMA FieldsKeep ==
  ASSUME NEW e, EInv(e), NEW f \in Rows, f.steps = e.steps, StatusFits(f)
  PROVE  EInv(f)
<1>1. Ranked(f) = Ranked(e)
  BY DEF Ranked
<1> QED
  BY <1>1 DEF EInv, RanksFit

\* A new execution status that fits the steps keeps the invariant.
LEMMA WithStatusKeeps ==
  ASSUME NEW e, EInv(e), NEW x \in Reached, NEW f, f = with_status(e, x),
         e.cancel_reason => x \in {"compensating", "cancelled", "manual_review"},
         x \in {"cancelled", "compensated"} =>
           \A s \in Steps :
             e.steps[s].status \notin {"succeeded", "running", "waiting", "ready", "retry_scheduled"},
         x = "compensated" => \A s \in Steps : e.steps[s].status # "compensating",
         x = "succeeded" => \A s \in Steps : e.steps[s].status = "succeeded",
         x \in Live => e.status \in Live,
         x = "queued" => e.status = "queued"
  PROVE  /\ EInv(f)
         /\ f.status = x
         /\ f.steps = e.steps
         /\ f.cancel_reason = e.cancel_reason
         /\ Moves(e, f, {})
<1>1. /\ f \in Rows
      /\ f.status = x
      /\ f.steps = e.steps
      /\ f.cancel_reason = e.cancel_reason
  BY DEF EInv, Rows, with_status
<1>2. StatusFits(f)
  BY <1>1 DEF EInv, StatusFits, dependencies_satisfied
<1>3. Moves(e, f, {})
  BY <1>1 DEF Moves
<1> QED
  BY <1>1, <1>2, <1>3, FieldsKeep

\* _promote_ready_steps readies only steps whose dependencies stand.
LEMMA PromoteKeeps ==
  ASSUME NEW e, EInv(e), e.status \notin {"cancelled", "compensated"},
         NEW f, f = promote_ready_steps(e)
  PROVE  /\ EInv(f)
         /\ f.status = e.status
         /\ f.cancel_reason = e.cancel_reason
         /\ Moves(e, f, {})
<1> DEFINE S == {s \in in_status(e, {"pending"}) : dependencies_satisfied(e, s)}
<1>1. S \in SUBSET Steps /\ \A s \in S : Allowed(e, s, "ready")
  BY DEF in_status, Allowed
<1>2. "ready" \in WorkflowStepStatus /\ "ready" # "compensating"
  BY DEF WorkflowStepStatus
<1>3. f = transition_steps(e, S, "ready")
  BY DEF promote_ready_steps
<1> HIDE DEF S
<1>4. e \in Rows
  BY DEF EInv
<1> QED
  BY <1>1, <1>2, <1>3, <1>4, TransitionKeeps, Transitioned

\* The steps of S complete after everything that has completed.
LEMMA MarkSucceededKeeps ==
  ASSUME NEW e, EInv(e), NEW S \in SUBSET in_status(e, {"running", "waiting"}),
         NEW f, f = mark_succeeded(e, S)
  PROVE  /\ EInv(f)
         /\ f.status = e.status
         /\ f.cancel_reason = e.cancel_reason
         /\ Moves(e, f, S)
<1> DEFINE ranks == {0} \union {e.steps[s].completed_at : s \in Steps}
           now == 1 + Max(ranks)
<1>1. e \in Rows
  BY DEF EInv
<1>2. S \subseteq Steps /\ \A s \in S : e.steps[s].status \in {"running", "waiting"}
  BY DEF in_status
<1>3. IsFiniteSet(Ranked(e)) /\ Cardinality(Ranked(e)) \in Nat
  <2>1. Ranked(e) \in SUBSET Steps
    BY DEF Ranked
  <2> QED
    BY <2>1, StepsAssumption, FS_Subset, FS_CardinalityType, Zenon
<1>4. /\ now \in Nat \ {0}
      /\ \A s \in Steps : e.steps[s].completed_at < now
      /\ now <= Cardinality(Ranked(e)) + 1
  <2>1. 0 \in ranks /\ \A s \in Steps : e.steps[s].completed_at \in ranks
    OBVIOUS
  <2>2. ASSUME NEW x \in ranks PROVE x \in Nat /\ x <= Cardinality(Ranked(e))
    BY <1>1, <1>3 DEF Rows, StepRow, EInv, RanksFit
  <2> HIDE DEF ranks
  <2>3. Max(ranks) \in ranks /\ \A y \in ranks : y <= Max(ranks)
    BY <1>3, <2>1, <2>2, GreatestExists, Zenon
  <2> QED
    BY <1>3, <2>1, <2>2, <2>3
<1>5. f = [transition_steps(e, S, "succeeded") EXCEPT !.steps =
             [s \in Steps |-> IF s \in S THEN [@[s] EXCEPT !.completed_at = now] ELSE @[s]]]
  BY DEF mark_succeeded
<1> HIDE DEF now
<1>6. /\ f \in Rows
      /\ f.status = e.status
      /\ f.cancel_reason = e.cancel_reason
      /\ \A s \in Steps :
           /\ f.steps[s].status = IF s \in S THEN "succeeded" ELSE e.steps[s].status
           /\ f.steps[s].completed_at = IF s \in S THEN now ELSE e.steps[s].completed_at
           /\ f.steps[s].compensation_request_id = e.steps[s].compensation_request_id
  <2> DEFINE g == transition_steps(e, S, "succeeded")
  <2>1. /\ g \in Rows
        /\ g.status = e.status
        /\ g.cancel_reason = e.cancel_reason
        /\ \A s \in Steps :
             /\ g.steps[s].status = IF s \in S THEN "succeeded" ELSE e.steps[s].status
             /\ g.steps[s].completed_at = e.steps[s].completed_at
             /\ g.steps[s].compensation_request_id = e.steps[s].compensation_request_id
    <3>1. "succeeded" \in WorkflowStepStatus
      BY DEF WorkflowStepStatus
    <3> QED
      BY <1>1, <3>1, Transitioned
  <2>2. f = [g EXCEPT !.steps =
               [s \in Steps |-> IF s \in S THEN [@[s] EXCEPT !.completed_at = now] ELSE @[s]]]
    BY <1>5
  <2> HIDE DEF g
  <2> QED
    BY <1>4, <2>1, <2>2 DEF Rows, StepRow
<1>7. \A s \in Steps : DependsOn[s] \subseteq Steps
  BY DependsOnAssumption
<1>8. \A s \in S : e.steps[s].completed_at = 0
  BY <1>1, <1>2 DEF EInv, RanksFit, Rows, StepRow
<1>9. StatusFits(f)
  <2>1. f.status \in {"cancelled", "compensated"} =>
          \A s \in Steps :
            f.steps[s].status \notin {"succeeded", "running", "waiting", "ready", "retry_scheduled"}
    BY <1>2, <1>6 DEF EInv, StatusFits
  <2>2. f.status \in Live =>
          \A s \in Steps : f.steps[s].status = "ready" => dependencies_satisfied(f, s)
    BY <1>2, <1>6, <1>7 DEF EInv, StatusFits, dependencies_satisfied
  <2> QED
    BY <1>2, <1>6, <2>1, <2>2 DEF EInv, StatusFits
<1>10. RanksFit(f)
  <2>1. /\ IsFiniteSet(Ranked(f))
        /\ Ranked(e) \subseteq Ranked(f)
        /\ S \subseteq Ranked(f)
    <3>1. Ranked(f) \in SUBSET Steps
      BY DEF Ranked
    <3> QED
      BY <1>2, <1>4, <1>6, <1>8, <3>1, StepsAssumption, FS_Subset DEF Ranked
  <2>2. Cardinality(Ranked(e)) <= Cardinality(Ranked(f)) /\ Cardinality(Ranked(f)) \in Nat
    BY <2>1, FS_Subset, FS_CardinalityType
  <2>3. ASSUME NEW s \in S PROVE now <= Cardinality(Ranked(f))
    <3>1. s \notin Ranked(e)
      BY <1>8 DEF Ranked
    <3>2. Cardinality(Ranked(e) \union {s}) = Cardinality(Ranked(e)) + 1
      BY <1>3, <3>1, FS_AddElement, Zenon
    <3>3. Ranked(e) \union {s} \in SUBSET Ranked(f)
      BY <2>1
    <3>4. Cardinality(Ranked(e) \union {s}) <= Cardinality(Ranked(f))
      BY <2>1, <3>3, FS_Subset
    <3> QED
      BY <1>3, <1>4, <2>2, <3>2, <3>4
  <2>4. \A s \in Steps : f.steps[s].completed_at <= Cardinality(Ranked(f))
    BY <1>1, <1>3, <1>6, <2>2, <2>3 DEF EInv, RanksFit, Rows, StepRow
  <2>5. ASSUME NEW s \in Steps
        PROVE  /\ f.steps[s].status = "succeeded" => f.steps[s].completed_at > 0
               /\ f.steps[s].completed_at > 0 =>
                    f.steps[s].status \in {"succeeded", "compensating", "compensated", "failed"}
    BY <1>4, <1>6 DEF EInv, RanksFit
  <2>6. ASSUME NEW s \in Steps,
               f.steps[s].status \in {"ready", "running", "waiting", "retry_scheduled"},
               NEW d \in DependsOn[s]
        PROVE  f.steps[d].completed_at > 0
    BY <1>4, <1>6, <1>7, <2>6 DEF EInv, RanksFit
  <2>7. ASSUME NEW s \in Steps, f.steps[s].completed_at > 0, NEW d \in DependsOn[s]
        PROVE  f.steps[d].completed_at > 0 /\ f.steps[d].completed_at < f.steps[s].completed_at
    <3>1. d \in Steps /\ e.steps[d].completed_at > 0
      BY <1>2, <1>6, <1>7, <2>7 DEF EInv, RanksFit
    <3>2. d \notin S
      BY <1>8, <3>1
    <3> QED
      BY <1>4, <1>6, <2>7, <3>1, <3>2 DEF EInv, RanksFit
  <2> QED
    BY <2>4, <2>5, <2>6, <2>7 DEF RanksFit
<1>11. Moves(e, f, S)
  BY <1>2, <1>6 DEF Moves, Fresh
<1> QED
  BY <1>6, <1>9, <1>10, <1>11 DEF EInv

\* A larger set of newly succeeded steps claims less.
LEMMA MovesMono ==
  \A e, f, A, B : Moves(e, f, A) /\ A \subseteq B => Moves(e, f, B)
BY DEF Moves

\* Recording the compensating request of a step touches nothing else.
LEMMA UndoIdKeeps ==
  ASSUME NEW e, EInv(e), NEW s \in Steps, NEW q \in {NoRequest, Forward(s), Undo(s)},
         NEW f, f = [e EXCEPT !.steps[s].compensation_request_id = q]
  PROVE  /\ EInv(f)
         /\ f.status = e.status
         /\ f.cancel_reason = e.cancel_reason
         /\ Moves(e, f, {})
<1>1. q \in Requests \union {NoRequest}
  BY DEF Requests, Forward, Undo
<1>2. /\ f \in Rows
      /\ f.status = e.status
      /\ f.cancel_reason = e.cancel_reason
      /\ \A u \in Steps :
           /\ f.steps[u].status = e.steps[u].status
           /\ f.steps[u].completed_at = e.steps[u].completed_at
           /\ f.steps[u].compensation_request_id =
                IF u = s THEN q ELSE e.steps[u].compensation_request_id
  BY <1>1 DEF EInv, Rows, StepRow
<1>3. \A u \in Steps : DependsOn[u] \subseteq Steps
  BY DependsOnAssumption
<1>4. StatusFits(f)
  BY <1>2, <1>3 DEF EInv, StatusFits, dependencies_satisfied
<1>5. RanksFit(f)
  <2>1. Ranked(f) = Ranked(e)
    BY <1>2 DEF Ranked
  <2> QED
    BY <1>2, <1>3, <2>1 DEF EInv, RanksFit
<1>6. Moves(e, f, {})
  BY <1>2 DEF Moves
<1> QED
  BY <1>2, <1>4, <1>5, <1>6 DEF EInv

\* Marking a step compensated keeps the invariant.
LEMMA MarkCompensatedKeeps ==
  ASSUME NEW e, EInv(e), NEW s \in Steps, e.steps[s].status = "compensating",
         NEW q \in {NoRequest, Forward(s), Undo(s)}, NEW f, f = mark_compensated(e, s, q)
  PROVE  /\ EInv(f)
         /\ f.status = e.status
         /\ Moves(e, f, {})
<1> DEFINE g == transition_steps(e, {s}, "compensated")
<1>1. "compensated" \in WorkflowStepStatus /\ \A u \in {s} : Allowed(e, u, "compensated")
  BY DEF WorkflowStepStatus, Allowed
<1>2. EInv(g) /\ Moves(e, g, {}) /\ g.status = e.status
  <2>1. e \in Rows /\ {s} \in SUBSET Steps /\ "compensated" # "compensating"
    BY DEF EInv
  <2> QED
    BY <1>1, <2>1, TransitionKeeps, Transitioned
<1>3. f = [g EXCEPT !.steps[s].compensation_request_id = q]
  BY DEF mark_compensated
<1> HIDE DEF g
<1> QED
  BY <1>2, <1>3, UndoIdKeeps, MovesTrans

\* One step taken from where it is to x.
LEMMA StepKeeps ==
  ASSUME NEW e, EInv(e), NEW s \in Steps, NEW x \in WorkflowStepStatus \ {"compensating"},
         Allowed(e, s, x), NEW f, f = transition_steps(e, {s}, x)
  PROVE  EInv(f) /\ Moves(e, f, {}) /\ f.status = e.status
<1>1. e \in Rows /\ {s} \in SUBSET Steps /\ \A u \in {s} : Allowed(e, u, x)
  BY DEF EInv
<1> QED
  BY <1>1, TransitionKeeps, Transitioned

\* _refresh_execution_status: what the steps say about the execution.
LEMMA RefreshedKeeps ==
  ASSUME NEW e, EInv(e), NEW f, f = refreshed(e)
  PROVE  EInv(f) /\ Moves(e, f, {})
<1> DEFINE failed == in_status(e, {"failed"})
           begun == with_status(e, "running")
           resumed == IF e.status = "waiting" /\ ~ any_waiting(e) /\ failed = {}
                      THEN promote_ready_steps(begun) ELSE e
<1>1. e.status \in Live => ~ e.cancel_reason
  BY DEF EInv, StatusFits, Live
<1>2. EInv(resumed) /\ Moves(e, resumed, {}) /\ resumed.cancel_reason = e.cancel_reason
  <2>1. CASE e.status = "waiting"
    <3>1. EInv(begun) /\ Moves(e, begun, {}) /\ begun.status = "running"
          /\ begun.cancel_reason = e.cancel_reason
      BY <1>1, <2>1, WithStatusKeeps DEF Live, Reached
    <3> HIDE DEF begun
    <3>2. LET g == promote_ready_steps(begun)
          IN  EInv(g) /\ Moves(begun, g, {}) /\ g.cancel_reason = e.cancel_reason
      BY <3>1, PromoteKeeps
    <3> QED
      BY <3>1, <3>2, MovesTrans, MovesRefl
  <2> QED
    BY <2>1, MovesRefl
<1>3. resumed.status = "running" => e.status \in Live
  BY DEF Live
<1>4. \/ f = e
      \/ /\ e.status \notin {"cancelled", "compensated", "succeeded", "compensating", "manual_review"}
         /\ f = with_status(e, "compensating")
      \/ e.status = "running" /\ f = with_status(e, "waiting")
      \/ /\ all_forward_succeeded(resumed)
         /\ resumed.status = "running"
         /\ f = with_status(resumed, "succeeded")
      \/ f = resumed
  BY DEF refreshed
<1>5. CASE f = with_status(e, "compensating")
  BY <1>5, WithStatusKeeps DEF Live, Reached
<1>6. CASE e.status = "running" /\ f = with_status(e, "waiting")
  BY <1>1, <1>6, WithStatusKeeps DEF Live, Reached
<1>7. CASE /\ all_forward_succeeded(resumed)
           /\ resumed.status = "running"
           /\ f = with_status(resumed, "succeeded")
  <2> HIDE DEF resumed
  <2>1. \A s \in Steps : resumed.steps[s].status = "succeeded"
    BY <1>7 DEF all_forward_succeeded, in_status
  <2>2. EInv(f) /\ Moves(resumed, f, {})
    BY <1>1, <1>2, <1>3, <1>7, <2>1, WithStatusKeeps DEF Live, Reached
  <2> QED
    BY <1>2, <2>2, MovesTrans
<1> QED
  BY <1>2, <1>4, <1>5, <1>6, <1>7, MovesRefl

\* on_request_terminal: the step whose request q ended as result.
LEMMA NotifiedKeeps ==
  ASSUME NEW e, EInv(e), NEW s \in Steps, NEW q \in {Forward(s), Undo(s)}, NEW result, NEW won,
         e.steps[s].status \in {"running", "waiting"} /\ result = "succeeded" => s \in won,
         NEW f, f = notified(e, s, q, result)
  PROVE  EInv(f) /\ Moves(e, f, won)
<1> USE DEF Allowed
<1>1. \/ f = e
      \/ e.steps[s].status \in {"running", "waiting"} /\ s \in won /\ f = mark_succeeded(e, {s})
      \/ e.steps[s].status \in {"running", "waiting"} /\ f = transition_steps(e, {s}, "failed")
      \/ e.steps[s].status \in {"running", "waiting"} /\ f = transition_steps(e, {s}, "cancelled")
      \/ e.steps[s].status = "compensating" /\ f = mark_compensated(e, s, q)
      \/ e.status = "compensating" /\ f = with_status(e, "manual_review")
  BY Zenon DEF notified, mark_failed
<1>2. {"failed", "cancelled"} \subseteq WorkflowStepStatus \ {"compensating"}
  BY DEF WorkflowStepStatus
<1>3. CASE e.steps[s].status \in {"running", "waiting"} /\ s \in won /\ f = mark_succeeded(e, {s})
  <2>1. {s} \in SUBSET in_status(e, {"running", "waiting"})
    BY <1>3 DEF in_status
  <2>2. EInv(f) /\ Moves(e, f, {s})
    BY <1>3, <2>1, MarkSucceededKeeps
  <2> QED
    BY <1>3, <2>2, MovesMono
<1>4. CASE e.steps[s].status \in {"running", "waiting"} /\ f = transition_steps(e, {s}, "failed")
  BY <1>2, <1>4, StepKeeps, MovesMono
<1>5. CASE e.steps[s].status \in {"running", "waiting"} /\ f = transition_steps(e, {s}, "cancelled")
  BY <1>2, <1>5, StepKeeps, MovesMono
<1>6. CASE e.steps[s].status = "compensating" /\ f = mark_compensated(e, s, q)
  BY <1>6, MarkCompensatedKeeps, MovesMono
<1>7. CASE e.status = "compensating" /\ f = with_status(e, "manual_review")
  BY <1>7, WithStatusKeeps, MovesMono DEF Reached, Live
<1> QED
  BY SMTT(30), <1>1, <1>3, <1>4, <1>5, <1>6, <1>7, MovesRefl

\* Several steps stopped at once.
LEMMA StopKeeps ==
  ASSUME NEW e, EInv(e), NEW x \in {"failed", "cancelled"}, NEW S \in SUBSET Steps,
         \A s \in S : Allowed(e, s, x), NEW f, f = transition_steps(e, S, x)
  PROVE  /\ EInv(f)
         /\ Moves(e, f, {})
         /\ f.status = e.status
         /\ \A s \in Steps : f.steps[s].status = IF s \in S THEN x ELSE e.steps[s].status
<1>1. e \in Rows /\ x \in WorkflowStepStatus /\ x # "compensating"
  BY DEF EInv, WorkflowStepStatus
<1> QED
  BY <1>1, TransitionKeeps, Transitioned

\* After a stop an execution without succeeded steps is over, another one unwinds.
LEMMA EndKeeps ==
  ASSUME NEW e, NEW g, EInv(g), Moves(e, g, {}),
         \A s \in Steps : /\ g.steps[s].status \notin {"pending", "ready", "running", "waiting", "retry_scheduled"}
                          /\ g.steps[s].status = "succeeded" => e.steps[s].status = "succeeded",
         NEW f \in Rows, f.steps = g.steps,
         f.status = IF has_succeeded_steps(e) THEN "compensating" ELSE "cancelled"
  PROVE  EInv(f) /\ Moves(e, f, {})
<1>1. f.status = "cancelled" => \A s \in Steps : f.steps[s].status # "succeeded"
  BY DEF has_succeeded_steps, in_status
<1>2. f.status \in {"compensating", "cancelled"}
  OBVIOUS
<1>3. StatusFits(f)
  BY <1>1, <1>2 DEF StatusFits, Live
<1>4. Moves(e, f, {})
  BY <1>2 DEF Moves
<1> QED
  BY <1>3, <1>4, FieldsKeep, Zenon

\* What enforce_deadline makes of the execution keeps the invariant.
LEMMA ExpiredKeeps ==
  ASSUME NEW e, EInv(e), NEW f, f = expired(e)
  PROVE  EInv(f) /\ Moves(e, f, {})
<1> DEFINE A == in_status(e, {"pending", "ready"})
           B == in_status(e, {"waiting", "retry_scheduled", "running"})
           g == transition_steps(e, A, "cancelled")
           h == transition_steps(g, B, "failed")
<1>1. /\ A \in SUBSET Steps
      /\ B \in SUBSET Steps
      /\ \A s \in Steps : s \in A <=> e.steps[s].status \in {"pending", "ready"}
      /\ \A s \in Steps : s \in B <=> e.steps[s].status \in {"waiting", "retry_scheduled", "running"}
  BY DEF in_status
<1>2. f = [h EXCEPT !.deadline_processed = TRUE,
                    !.status = IF has_succeeded_steps(e) THEN "compensating" ELSE "cancelled",
                    !.cancel_reason = @ \/ ~ has_succeeded_steps(e)]
  BY DEF expired
<1> HIDE DEF A, B
<1>3. /\ EInv(g)
      /\ Moves(e, g, {})
      /\ \A s \in Steps : g.steps[s].status = IF s \in A THEN "cancelled" ELSE e.steps[s].status
  <2>1. \A s \in A : Allowed(e, s, "cancelled")
    BY <1>1 DEF Allowed
  <2> QED
    BY <1>1, <2>1, StopKeeps
<1> HIDE DEF g
<1>4. /\ EInv(h)
      /\ Moves(g, h, {})
      /\ \A s \in Steps : h.steps[s].status = IF s \in B THEN "failed" ELSE g.steps[s].status
  <2>1. \A s \in B : Allowed(g, s, "failed")
    BY <1>1, <1>3 DEF Allowed
  <2> QED
    BY <1>1, <1>3, <2>1, StopKeeps
<1> HIDE DEF h
<1>5. Moves(e, h, {})
  BY <1>3, <1>4, MovesTrans
<1>6. \A s \in Steps : /\ h.steps[s].status \notin {"pending", "ready", "running", "waiting", "retry_scheduled"}
                       /\ h.steps[s].status = "succeeded" => e.steps[s].status = "succeeded"
  BY <1>1, <1>3, <1>4
<1>7. /\ f \in Rows
      /\ f.steps = h.steps
      /\ f.status = IF has_succeeded_steps(e) THEN "compensating" ELSE "cancelled"
  BY Zenon, <1>2, <1>4 DEF EInv, Rows, Reached
<1> QED
  BY <1>4, <1>5, <1>6, <1>7, EndKeeps, ZenonT(60)

\* What cancel() makes of the execution keeps the invariant.
LEMMA CancelledKeeps ==
  ASSUME NEW e, EInv(e), NEW f, f = cancelled(e)
  PROVE  EInv(f) /\ Moves(e, f, {})
<1> DEFINE open == in_status(e, {"pending", "ready", "waiting", "retry_scheduled", "running"})
           g == transition_steps(e, open, "cancelled")
<1>1. /\ open \in SUBSET Steps
      /\ \A s \in Steps : s \in open <=>
           e.steps[s].status \in {"pending", "ready", "waiting", "retry_scheduled", "running"}
  BY DEF in_status
<1>2. f = [g EXCEPT !.status = IF has_succeeded_steps(e) THEN "compensating" ELSE "cancelled",
                    !.cancel_reason = TRUE]
  BY DEF cancelled
<1> HIDE DEF open
<1>3. /\ EInv(g)
      /\ Moves(e, g, {})
      /\ \A s \in Steps : g.steps[s].status = IF s \in open THEN "cancelled" ELSE e.steps[s].status
  <2>1. \A s \in open : Allowed(e, s, "cancelled")
    BY <1>1 DEF Allowed
  <2> QED
    BY <1>1, <2>1, StopKeeps
<1> HIDE DEF g
<1>4. \A s \in Steps : /\ g.steps[s].status \notin {"pending", "ready", "running", "waiting", "retry_scheduled"}
                       /\ g.steps[s].status = "succeeded" => e.steps[s].status = "succeeded"
  BY <1>1, <1>3
<1>5. /\ f \in Rows
      /\ f.steps = g.steps
      /\ f.status = IF has_succeeded_steps(e) THEN "compensating" ELSE "cancelled"
  BY ZenonT(40), <1>2, <1>3 DEF EInv, Rows, Reached
<1> QED
  BY <1>3, <1>4, <1>5, EndKeeps, ZenonT(60)

\* start_execution: nothing has run.
LEMMA StartFits ==
  /\ EInv(start_execution)
  /\ start_execution.status = "queued"
  /\ \A s \in Steps : start_execution.steps[s].status \in {"pending", "ready"}
<1> DEFINE e == [status |-> "queued",
                 steps |-> [s \in Steps |-> [status |-> "pending", completed_at |-> 0,
                                             compensation_request_id |-> NoRequest]],
                 cancel_reason |-> FALSE,
                 deadline_processed |-> FALSE]
<1>1. e \in Rows
  BY DEF Rows, StepRow, Reached, WorkflowStepStatus
<1>2. e.status = "queued" /\ ~ e.cancel_reason /\ \A s \in Steps :
        /\ e.steps[s].status = "pending"
        /\ e.steps[s].completed_at = 0
        /\ e.steps[s].compensation_request_id = NoRequest
  OBVIOUS
<1>3. start_execution = promote_ready_steps(e)
  BY DEF start_execution
<1> HIDE DEF e
<1>4. StatusFits(e)
  BY <1>2 DEF StatusFits
<1>5. RanksFit(e)
  <2>1. Ranked(e) \in SUBSET Steps
    BY DEF Ranked
  <2>2. Cardinality(Ranked(e)) \in Nat
    BY <2>1, StepsAssumption, FS_Subset, FS_CardinalityType, ZenonT(60)
  <2> QED
    BY <1>2, <2>2 DEF RanksFit
<1>6. EInv(e)
  BY <1>1, <1>2, <1>4, <1>5 DEF EInv
<1>7. /\ EInv(start_execution)
      /\ start_execution.status = e.status
      /\ Moves(e, start_execution, {})
  BY <1>2, <1>3, <1>6, PromoteKeeps
<1>8. \A s \in Steps : start_execution.steps[s].status \in {"pending", "ready"}
  <2>1. "ready" \in WorkflowStepStatus
    BY DEF WorkflowStepStatus
  <2> QED
    BY <1>1, <1>2, <1>3, <2>1, Transitioned DEF promote_ready_steps
<1> QED
  BY <1>2, <1>7, <1>8

-----------------------------------------------------------------------------
(***************************************************************************)
(* The stacks.  Kept says that what the frames of all tasks rely on is     *)
(* still true, except that the compensating request new may have been      *)
(* created.                                                                *)
(***************************************************************************)
Kept(e, r, c, e2, r2, c2, new) ==
  /\ e2.status = "queued" => e.status = "queued"
  /\ \A s \in Steps : e2.steps[s].status \in Fresh => e.steps[s].status \in Fresh
  /\ \A q \in Requests :
       /\ r2[q] = Absent => r[q] = Absent
       /\ r[q] = "succeeded" => r2[q] = "succeeded"
  /\ \A s \in Steps : r[Undo(s)] = Absent /\ c[Undo(s)] = 0 =>
                       (r2[Undo(s)] = Absent /\ c2[Undo(s)] = 0) \/ Undo(s) = new

\* A frame stays fit across a step that keeps what it relies on.
LEMMA FrameKept ==
  ASSUME NEW e, NEW r, NEW c, NEW e2, NEW r2, NEW c2, NEW new, NEW f,
         FrameFits(e, r, c, f), Kept(e, r, c, e2, r2, c2, new),
         f.at = "compensate_step" => f.request # new
  PROVE  FrameFits(e2, r2, c2, f)
<1>1. \A s \in Steps, x \in {"forward", "compensation"} : <<s, x>>[1] \in Steps
  OBVIOUS
<1>2. f.at = "compensate_step" => f.request[1] \in Steps
  BY <1>1 DEF FrameFits, Requests, Undo
<1> QED
  BY <1>1, <1>2 DEF FrameFits, Kept, Requests, Forward

\* So does a whole stack.
LEMMA FramesKept ==
  ASSUME NEW e, NEW r, NEW c, NEW e2, NEW r2, NEW c2, NEW new, NEW frames,
         FramesFit(e, r, c, frames), Kept(e, r, c, e2, r2, c2, new),
         \A i \in DOMAIN frames : frames[i].at = "compensate_step" => frames[i].request # new
  PROVE  FramesFit(e2, r2, c2, frames)
BY Zenon, FrameKept DEF FramesFit

\* The frames below the running one, whatever replaces it.
LEMMA ReturnFits ==
  ASSUME NEW e, NEW r, NEW c, NEW frames, frames # <<>>, FramesFit(e, r, c, frames)
  PROVE  /\ FramesFit(e, r, c, Tail(frames))
         /\ \A i \in DOMAIN Tail(frames) : Tail(frames)[i].at \in Callers
<1>1. /\ frames \in Seq(Frame)
      /\ Tail(frames) \in Seq(Frame)
      /\ Len(Tail(frames)) = Len(frames) - 1
      /\ \A i \in 1 .. Len(Tail(frames)) : Tail(frames)[i] = frames[i + 1]
      /\ DOMAIN frames = 1 .. Len(frames)
      /\ DOMAIN Tail(frames) = 1 .. Len(Tail(frames))
      /\ Len(frames) \in Nat
  BY DEF FramesFit
<1>2. ASSUME NEW i \in DOMAIN Tail(frames)
      PROVE  FrameFits(e, r, c, Tail(frames)[i]) /\ Tail(frames)[i].at \in Callers
  <2>1. i + 1 \in DOMAIN frames /\ i + 1 # 1 /\ Tail(frames)[i] = frames[i + 1]
    BY <1>1
  <2> QED
    BY <2>1 DEF FramesFit
<1> QED
  BY <1>1, <1>2 DEF FramesFit

\* A fit frame on a fit stack of callers makes a fit stack.
LEMMA PushFits ==
  ASSUME NEW e, NEW r, NEW c, NEW frames, FramesFit(e, r, c, frames),
         \A i \in DOMAIN frames : frames[i].at \in Callers, NEW f, FrameFits(e, r, c, f)
  PROVE  /\ FramesFit(e, r, c, <<f>> \o frames)
         /\ <<f>> \o frames # <<>>
         /\ Head(<<f>> \o frames) = f
         /\ f.at \in Callers => \A i \in DOMAIN (<<f>> \o frames) : (<<f>> \o frames)[i].at \in Callers
<1> DEFINE more == <<f>> \o frames
<1>1. f \in Frame /\ frames \in Seq(Frame) /\ DOMAIN frames = 1 .. Len(frames) /\ Len(frames) \in Nat
  BY DEF FramesFit, FrameFits
<1>2. <<f>> \in Seq(Frame) /\ Len(<<f>>) = 1 /\ <<f>>[1] = f
  BY <1>1
<1>3. /\ more \in Seq(Frame)
      /\ Len(more) = 1 + Len(frames)
      /\ \A i \in 1 .. 1 + Len(frames) : more[i] = IF i <= 1 THEN <<f>>[i] ELSE frames[i - 1]
  BY <1>1, <1>2
<1>4. DOMAIN more = 1 .. 1 + Len(frames)
  BY <1>3
<1>5. more[1] = f /\ more # <<>> /\ Head(more) = more[1]
  BY <1>1, <1>2, <1>3
<1> HIDE DEF more
<1>6. ASSUME NEW i \in DOMAIN more, i # 1
      PROVE  FrameFits(e, r, c, more[i]) /\ more[i].at \in Callers
  <2>1. i - 1 \in DOMAIN frames /\ more[i] = frames[i - 1]
    BY <1>1, <1>3, <1>4, <1>6
  <2> QED
    BY <2>1 DEF FramesFit
<1>7. FramesFit(e, r, c, more)
  BY <1>3, <1>5, <1>6 DEF FramesFit
<1> QED
  BY <1>5, <1>6, <1>7 DEF more

\* An exception leaves frames that wait for a call.
LEMMA UnwoundFits ==
  ASSUME NEW e, NEW r, NEW c, NEW frames, FramesFit(e, r, c, frames)
  PROVE  /\ FramesFit(e, r, c, unwound(frames))
         /\ \A i \in DOMAIN unwound(frames) : unwound(frames)[i].at \in Callers
<1> DEFINE catching == {i \in DOMAIN frames : frames[i].catches}
<1>1. frames \in Seq(Frame) /\ DOMAIN frames = 1 .. Len(frames) /\ Len(frames) \in Nat
  BY DEF FramesFit
<1>2. CASE catching = {}
  <2>1. unwound(frames) = <<>>
    BY <1>2 DEF unwound
  <2> QED
    BY <2>1 DEF FramesFit
<1>3. CASE catching # {}
  <2> DEFINE k == Min(catching) + 1
             n == Len(frames)
             rest == SubSeq(frames, k, n)
  <2>1. catching \in SUBSET Nat
    BY <1>1
  <2>2. Min(catching) \in catching
    BY <1>3, <2>1, LeastExists, Zenon
  <2>3. Min(catching) \in 1 .. n
    BY <1>1, <2>2, Zenon
  <2>4. unwound(frames) = rest
    BY Zenon, <1>3 DEF unwound
  <2>5. k \in Int /\ n \in Nat /\ k >= 2 /\ DOMAIN frames = 1 .. n
    BY <1>1, <2>3
  <2> HIDE DEF k, n
  <2>6. \A i \in k .. n : frames[i] \in Frame /\ i \in DOMAIN frames /\ i # 1
    BY <1>1, <2>5 DEF n
  <2>7. /\ rest \in Seq(Frame)
        /\ Len(rest) = IF k <= n THEN n - k + 1 ELSE 0
        /\ \A i \in 1 .. n - k + 1 : rest[i] = frames[k + i - 1]
    BY <2>5, <2>6
  <2>8. DOMAIN rest = 1 .. Len(rest)
    BY <2>7
  <2> HIDE DEF rest
  <2>9. ASSUME NEW i \in DOMAIN rest
        PROVE  FrameFits(e, r, c, rest[i]) /\ rest[i].at \in Callers
    <3>1. i \in 1 .. n - k + 1
      BY <2>5, <2>7, <2>8
    <3>2. k + i - 1 \in k .. n /\ rest[i] = frames[k + i - 1]
      BY <2>5, <2>7, <3>1
    <3> QED
      BY <2>6, <3>2 DEF FramesFit
  <2> QED
    BY <2>4, <2>7, <2>9 DEF FramesFit
<1> QED
  BY <1>2, <1>3

\* A task replaces its frames while the other tasks keep theirs.
LEMMA StackStep ==
  ASSUME Stacks, NEW t \in Tasks, NEW new, NEW frames,
         Kept(execution, request, created, execution', request', created', new),
         \A u \in Tasks \ {t} : is_at(u, "compensate_step") => running(u).request # new,
         FramesFit(execution', request', created', frames),
         frames # <<>> /\ Head(frames).at = "compensate_step" =>
           \A u \in Tasks \ {t} :
             is_at(u, "compensate_step") => running(u).request # Head(frames).request,
         stack' = [stack EXCEPT ![t] = frames]
  PROVE  Stacks'
<1>1. frames \in Seq(Frame)
  BY DEF FramesFit
<1>2. /\ stack' \in [Tasks -> Seq(Frame)]
      /\ stack'[t] = frames
      /\ \A u \in Tasks \ {t} : stack'[u] = stack[u]
  BY <1>1 DEF Stacks
<1>3. ASSUME NEW u \in Tasks \ {t} PROVE FramesFit(execution', request', created', stack[u])
  <2>1. FramesFit(execution, request, created, stack[u]) /\ stack[u] \in Seq(Frame)
    BY DEF Stacks
  <2>2. ASSUME NEW i \in DOMAIN stack[u], stack[u][i].at = "compensate_step"
        PROVE  stack[u][i].request # new
    <3>1. i = 1
      BY <2>1, <2>2 DEF FramesFit, Callers
    <3>2. stack[u] # <<>> /\ Head(stack[u]) = stack[u][1]
      BY <2>1, <2>2
    <3> QED
      BY Zenon, <2>2, <3>1, <3>2 DEF is_at, running
  <2> QED
    BY <2>1, <2>2, FramesKept, ZenonT(60)
<1>4. \A u \in Tasks : FramesFit(execution', request', created', stack'[u])
  BY Zenon, <1>2, <1>3
<1>5. UndoneOnce'
  BY <1>2 DEF UndoneOnce, Stacks, is_at, running
<1> QED
  BY <1>2, <1>4, <1>5 DEF Stacks

\* The same, when the new frames are not about to create a compensating request.
LEMMA QuietStep ==
  ASSUME Stacks, NEW t \in Tasks, NEW frames,
         Kept(execution, request, created, execution', request', created', NoRequest),
         FramesFit(execution', request', created', frames),
         frames # <<>> => Head(frames).at # "compensate_step",
         stack' = [stack EXCEPT ![t] = frames]
  PROVE  Stacks'
<1>1. NoRequest \notin Requests
  BY DEF NoRequest, Requests
<1>2. ASSUME NEW u \in Tasks, is_at(u, "compensate_step") PROVE running(u).request # NoRequest
  <2>1. stack[u] # <<>> /\ stack[u] \in Seq(Frame)
    BY <1>2 DEF is_at, Stacks
  <2>2. 1 \in DOMAIN stack[u] /\ running(u) = stack[u][1]
    BY <2>1 DEF running
  <2>3. FrameFits(execution, request, created, running(u))
    BY SMTT(30), <2>2 DEF Stacks, FramesFit
  <2> QED
    BY <1>1, <1>2, <2>3 DEF FrameFits, is_at
<1> QED
  BY <1>2, StackStep, Zenon

\* What the running frame of a stack relies on.
LEMMA RunningFits ==
  ASSUME Stacks, NEW t \in Tasks, stack[t] # <<>>
  PROVE  /\ FrameFits(execution, request, created, running(t))
         /\ running(t) \in Frame
<1>1. stack[t] \in Seq(Frame) /\ FramesFit(execution, request, created, stack[t])
  BY DEF Stacks
<1>2. 1 \in DOMAIN stack[t] /\ running(t) = stack[t][1]
  BY <1>1 DEF running
<1> QED
  BY Zenon, <1>1, <1>2 DEF FramesFit, FrameFits

\* What is below the running frame still fits after a step.
LEMMA RestFits ==
  ASSUME Stacks, NEW t \in Tasks, stack[t] # <<>>, NEW new,
         Kept(execution, request, created, execution', request', created', new)
  PROVE  /\ FramesFit(execution', request', created', Tail(stack[t]))
         /\ \A i \in DOMAIN Tail(stack[t]) : Tail(stack[t])[i].at \in Callers
<1>1. /\ FramesFit(execution, request, created, Tail(stack[t]))
      /\ \A i \in DOMAIN Tail(stack[t]) : Tail(stack[t])[i].at \in Callers
  BY Zenon, ReturnFits DEF Stacks
<1>2. \A i \in DOMAIN Tail(stack[t]) : Tail(stack[t])[i].at # "compensate_step"
  BY <1>1 DEF Callers
<1> QED
  BY <1>1, <1>2, FramesKept, Zenon

\* A task that returns to its caller keeps every stack fit.
LEMMA ReturnKeeps ==
  ASSUME Stacks, NEW t \in Tasks, stack[t] # <<>>, Return(t),
         Kept(execution, request, created, execution', request', created', NoRequest)
  PROVE  Stacks'
<1>1. /\ FramesFit(execution', request', created', Tail(stack[t]))
      /\ \A i \in DOMAIN Tail(stack[t]) : Tail(stack[t])[i].at \in Callers
  BY RestFits, Zenon
<1>2. stack' = [stack EXCEPT ![t] = Tail(stack[t])]
  BY DEF Return, Stacks
<1>3. Tail(stack[t]) # <<>> => Head(Tail(stack[t])).at # "compensate_step"
  <2>1. Tail(stack[t]) \in Seq(Frame)
    BY <1>1 DEF FramesFit
  <2>2. Tail(stack[t]) # <<>> =>
          1 \in DOMAIN Tail(stack[t]) /\ Head(Tail(stack[t])) = Tail(stack[t])[1]
    BY <2>1
  <2> QED
    BY ZenonT(60), <1>1, <2>2 DEF Callers
<1> QED
  BY <1>1, <1>2, <1>3, QuietStep, Zenon

\* The running frame goes on as f, with another catches perhaps.
LEMMA ContinueStep ==
  ASSUME Stacks, NEW t \in Tasks, stack[t] # <<>>, NEW new, NEW f, Continue(t, f),
         Kept(execution, request, created, execution', request', created', new),
         FrameFits(execution', request', created', f)
  PROVE  \E frames : /\ stack' = [stack EXCEPT ![t] = frames]
                     /\ FramesFit(execution', request', created', frames)
                     /\ frames # <<>>
                     /\ Head(frames).at = f.at
                     /\ Head(frames).request = f.request
<1> DEFINE g == [f EXCEPT !.catches = running(t).catches]
           rest == Tail(stack[t])
<1>1. /\ FramesFit(execution', request', created', rest)
      /\ \A i \in DOMAIN rest : rest[i].at \in Callers
  BY RestFits, Zenon
<1>2. running(t) \in Frame
  BY RunningFits
<1>3. FrameFits(execution', request', created', g) /\ g.at = f.at /\ g.request = f.request
  BY <1>2 DEF FrameFits, Frame
<1>4. stack' = [stack EXCEPT ![t] = <<g>> \o rest]
  BY Zenon DEF Continue, Stacks
<1> HIDE DEF g, rest
<1>5. /\ FramesFit(execution', request', created', <<g>> \o rest)
      /\ <<g>> \o rest # <<>>
      /\ Head(<<g>> \o rest) = g
  BY <1>1, <1>3, PushFits
<1> QED
  BY Zenon, <1>3, <1>4, <1>5

\* A task that goes on at another point keeps every stack fit.
LEMMA ContinueKeeps ==
  ASSUME Stacks, NEW t \in Tasks, stack[t] # <<>>, NEW f, Continue(t, f),
         Kept(execution, request, created, execution', request', created', NoRequest),
         FrameFits(execution', request', created', f), f.at # "compensate_step"
  PROVE  Stacks'
<1>1. PICK frames : /\ stack' = [stack EXCEPT ![t] = frames]
                    /\ FramesFit(execution', request', created', frames)
                    /\ Head(frames).at = f.at
  BY ContinueStep
<1> QED
  BY ZenonT(60), <1>1, QuietStep

\* A task that calls a method keeps every stack fit.
LEMMA CallKeeps ==
  ASSUME Stacks, NEW t \in Tasks, stack[t] # <<>>, NEW f, NEW callee, Call(t, f, callee),
         Kept(execution, request, created, execution', request', created', NoRequest),
         FrameFits(execution', request', created', f), f.at \in Callers,
         FrameFits(execution', request', created', callee), callee.at # "compensate_step"
  PROVE  Stacks'
<1> DEFINE rest == Tail(stack[t])
           below == <<f>> \o rest
           frames == <<callee>> \o below
<1>1. /\ FramesFit(execution', request', created', rest)
      /\ \A i \in DOMAIN rest : rest[i].at \in Callers
  BY RestFits, Zenon
<1>2. stack' = [stack EXCEPT ![t] = <<callee, f>> \o rest]
  BY DEF Call, Stacks
<1> HIDE DEF rest
<1>3. /\ FramesFit(execution', request', created', below)
      /\ \A i \in DOMAIN below : below[i].at \in Callers
  BY <1>1, PushFits, Zenon
<1>4. <<callee, f>> \o rest = frames
  <2>1. callee \in Frame /\ f \in Frame /\ rest \in Seq(Frame)
    BY Zenon, <1>1 DEF FrameFits, FramesFit
  <2>2. <<callee>> \in Seq(Frame) /\ <<f>> \in Seq(Frame) /\ <<callee, f>> = <<callee>> \o <<f>>
    BY <2>1
  <2>3. \A a, b \in Seq(Frame) : (a \o b) \o rest = a \o (b \o rest)
    BY <2>1
  <2> QED
    BY <2>2, <2>3, ZenonT(60)
<1> HIDE DEF below
<1>5. /\ FramesFit(execution', request', created', frames)
      /\ Head(frames) = callee
  BY <1>3, PushFits
<1> HIDE DEF frames
<1> QED
  BY <1>2, <1>4, <1>5, QuietStep, Zenon

\* A step that changes nothing keeps everything.
LEMMA KeptRefl == \A e, r, c, new : Kept(e, r, c, e, r, c, new)
BY DEF Kept

\* A task that raises keeps every stack fit.
LEMMA RaiseKeeps ==
  ASSUME Stacks, NEW t \in Tasks, Raise(t)
  PROVE  Stacks'
<1>1. FramesFit(execution, request, created, stack[t])
  BY DEF Stacks
<1>2. /\ stack' = [stack EXCEPT ![t] = unwound(stack[t])]
      /\ execution' = execution
      /\ request' = request
      /\ created' = created
  BY DEF Raise, Stacks
<1> DEFINE frames == unwound(stack[t])
<1>3. /\ FramesFit(execution', request', created', frames)
      /\ \A i \in DOMAIN frames : frames[i].at \in Callers
  BY <1>1, <1>2, UnwoundFits
<1>4. Kept(execution, request, created, execution', request', created', NoRequest)
  BY <1>2, KeptRefl
<1>5. stack' = [stack EXCEPT ![t] = frames]
  BY <1>2
<1> HIDE DEF frames
<1>6. frames # <<>> => Head(frames).at # "compensate_step"
  <2>1. frames \in Seq(Frame)
    BY <1>3 DEF FramesFit
  <2>2. frames # <<>> => 1 \in DOMAIN frames /\ Head(frames) = frames[1]
    BY <2>1
  <2> QED
    BY <1>3, <2>2 DEF Callers
<1> QED
  BY <1>3, <1>4, <1>5, <1>6, QuietStep, ZenonT(60)

\* A stack of one frame.
LEMMA SingleFits ==
  ASSUME NEW e, NEW r, NEW c, NEW f, FrameFits(e, r, c, f)
  PROVE  FramesFit(e, r, c, <<f>>) /\ <<f>> \in Seq(Frame) /\ Head(<<f>>) = f
<1>1. f \in Frame
  BY DEF FrameFits
<1>2. <<f>> \in Seq(Frame) /\ Head(<<f>>) = f /\ \A i \in DOMAIN <<f>> : i = 1 /\ <<f>>[i] = f
  BY <1>1
<1> QED
  BY <1>2 DEF FramesFit

\* A task that ends, or starts with frame f.
LEMMA BottomKeeps ==
  ASSUME Stacks, NEW t \in Tasks, NEW f,
         Kept(execution, request, created, execution', request', created', NoRequest),
         \/ stack' = [stack EXCEPT ![t] = <<>>]
         \/ /\ stack' = [stack EXCEPT ![t] = <<f>>]
            /\ FrameFits(execution', request', created', f)
            /\ f.at # "compensate_step"
  PROVE  Stacks'
<1>1. CASE stack' = [stack EXCEPT ![t] = <<>>]
  <2>1. FramesFit(execution', request', created', <<>>)
    BY DEF FramesFit
  <2> QED
    BY <1>1, <2>1, QuietStep, ZenonT(60)
<1>2. CASE /\ stack' = [stack EXCEPT ![t] = <<f>>]
           /\ FrameFits(execution', request', created', f)
           /\ f.at # "compensate_step"
  <2>1. FramesFit(execution', request', created', <<f>>) /\ Head(<<f>>) = f
    BY <1>2, SingleFits
  <2> QED
    BY <1>2, <2>1, QuietStep, ZenonT(60)
<1> QED
  BY <1>1, <1>2

-----------------------------------------------------------------------------
(***************************************************************************)
(* The steps.  Besides the invariant, what a step may never do.            *)
(***************************************************************************)
GoodStart ==
  \A s \in Steps : created'[Forward(s)] > created[Forward(s)] =>
    /\ execution.status \in {"running", "waiting"}
    /\ dependencies_satisfied(execution, s)
    /\ ~ deadline_due

GoodUnwind ==
  \A s \in Steps :
    execution.steps[s].status = "succeeded" /\ execution'.steps[s].status = "compensating" =>
      \A d \in Steps : s \in DependsOn[d] => execution.steps[d].status # "succeeded"

Keeps == WInv' /\ GoodStart /\ GoodUnwind

\* What a step does to the requests and the execution, apart from the stacks.
Sound(new) ==
  /\ EInv(execution')
  /\ RInv(execution', request', created')
  /\ Kept(execution, request, created, execution', request', created', new)
  /\ GoodStart
  /\ GoodUnwind

\* A sound step with fit stacks keeps the invariant.
LEMMA SoundKeeps == ASSUME NEW new, Sound(new), Stacks', Counters' PROVE Keeps
BY DEF Sound, Keeps, WInv

\* Forward and compensating requests have different names.
LEMMA NamesApart ==
  ASSUME NEW s \in Steps, NEW u \in Steps
  PROVE  /\ Forward(s) \in Requests /\ Forward(s)[1] = s
         /\ Undo(s) \in Requests /\ Undo(s)[1] = s
         /\ Forward(s) # Undo(u)
         /\ Forward(s) = Forward(u) => s = u
         /\ Undo(s) = Undo(u) => s = u
BY DEF Forward, Undo, Requests

\* Every request is the forward or the compensating one of a step.
LEMMA TwoKinds ==
  ASSUME NEW q \in Requests
  PROVE  /\ q[1] \in Steps
         /\ q = Forward(q[1]) \/ q = Undo(q[1])
         /\ q # NoRequest
BY DEF Forward, Undo, Requests, NoRequest

\* A transaction on the execution alone.
LEMMA CommitSound ==
  ASSUME WInv, NEW won, EInv(execution'), Moves(execution, execution', won),
         \A s \in won : s \in Steps => request[Forward(s)] = "succeeded",
         UNCHANGED <<request, created>>
  PROVE  Sound(NoRequest)
<1>1. RInv(execution', request', created')
  <2>1. request' = request /\ created' = created /\ RInv(execution, request, created)
    BY DEF WInv
  <2> QED
    BY <2>1 DEF RInv, Moves
<1>2. Kept(execution, request, created, execution', request', created', NoRequest)
  BY DEF Kept, Moves
<1>3. GoodStart
  <2>1. \A s \in Steps : created[Forward(s)] \in 0 .. 1
    BY NamesApart DEF WInv, RInv
  <2> QED
    BY <2>1 DEF GoodStart
<1>4. GoodUnwind
  BY DEF GoodUnwind, Moves
<1> QED
  BY Zenon, <1>1, <1>2, <1>3, <1>4 DEF Sound

\* A step that leaves the execution and the requests alone is sound.
LEMMA NothingSound ==
  ASSUME WInv, UNCHANGED <<execution, request, created>>
  PROVE  Sound(NoRequest)
<1>1. EInv(execution') /\ Moves(execution, execution', {})
  BY MovesRefl DEF WInv
<1> QED
  BY <1>1, CommitSound

\* A request moves; success is for good.
LEMMA RequestSound ==
  ASSUME WInv, NEW q \in Requests, NEW x \in RequestStatus, request' = [request EXCEPT ![q] = x],
         request[q] # Absent, request[q] = "succeeded" => x = "succeeded",
         UNCHANGED <<execution, created>>
  PROVE  /\ Sound(NoRequest)
         /\ request'[q] = x
         /\ x # Absent
<1>1. /\ request' \in [Requests -> RequestStatus \union {Absent}]
      /\ request'[q] = x
      /\ x # Absent
      /\ \A p \in Requests : p # q => request'[p] = request[p]
  BY DEF WInv, RInv, Absent, RequestStatus
<1>2. RInv(execution, request, created)
  BY DEF WInv
<1>3. RInv(execution', request', created')
  BY Zenon, <1>1, <1>2, NamesApart DEF RInv
<1>4. Kept(execution, request, created, execution', request', created', NoRequest)
  BY <1>1, NamesApart DEF Kept
<1>5. GoodStart /\ GoodUnwind
  <2>1. \A s \in Steps : created[Forward(s)] \in 0 .. 1
    BY SMTT(30), <1>2, NamesApart DEF RInv
  <2> QED
    BY <2>1 DEF GoodStart, GoodUnwind
<1> QED
  BY Zenon, <1>1, <1>3, <1>4, <1>5 DEF Sound, WInv

\* A frame without a request fits any state.
LEMMA PlainFits ==
  ASSUME NEW e, NEW r, NEW c, NEW at \in {"advance", "compensate", "enforce_deadline"}
  PROVE  /\ FrameFits(e, r, c, frame(at, NoRequest))
         /\ frame(at, NoRequest).at = at
BY ZenonT(60) DEF FrameFits, frame, Frame, FramePoint, Callers, WithRequest, Absent

\* A frame for the request q, once it exists.
LEMMA RequestFits ==
  ASSUME NEW e, NEW r, NEW c, NEW at \in {"dispatch", "settle", "hook_read", "hook"},
         NEW q \in Requests, r[q] # Absent
  PROVE  /\ FrameFits(e, r, c, frame(at, q))
         /\ frame(at, q).at = at
BY ZenonT(60) DEF FrameFits, frame, Frame, FramePoint, Callers, WithRequest, Absent

\* A commit that then goes on at another point, or returns.
LEMMA CommitThenKeeps ==
  ASSUME Stacks, NEW t \in Tasks, stack[t] # <<>>,
         NEW e, NEW at \in {NoFrame, "advance", "compensate"}, CommitThen(t, e, at, NoRequest),
         Kept(execution, request, created, execution', request', created', NoRequest)
  PROVE  Stacks'
<1>1. CASE at = NoFrame
  BY Zenon, <1>1, ReturnKeeps DEF CommitThen
<1>2. CASE at # NoFrame
  <2>1. Continue(t, frame(at, NoRequest)) /\ at \in {"advance", "compensate", "enforce_deadline"}
    BY Zenon, <1>2 DEF CommitThen
  <2>2. /\ FrameFits(execution', request', created', frame(at, NoRequest))
        /\ frame(at, NoRequest).at # "compensate_step"
    BY Zenon, <2>1, PlainFits
  <2> QED
    BY Zenon, <2>1, <2>2, ContinueKeeps
<1> QED
  BY Zenon, <1>1, <1>2

\* The three ways a transaction of a running frame ends.
LEMMA CommitKeeps ==
  ASSUME WInv, NEW t \in Tasks, stack[t] # <<>>, Counters',
         NEW e, NEW won, EInv(e), Moves(execution, e, won),
         \A s \in won : s \in Steps => request[Forward(s)] = "succeeded",
         NEW at \in {NoFrame, "advance", "compensate"}, CommitThen(t, e, at, NoRequest),
         UNCHANGED <<request, created>>
  PROVE  Keeps
<1>1. execution' = e /\ Stacks
  BY DEF CommitThen, WInv
<1>2. Sound(NoRequest)
  BY Zenon, <1>1, CommitSound
<1>3. Stacks'
  BY <1>1, <1>2, CommitThenKeeps DEF Sound
<1> QED
  BY Zenon, <1>2, <1>3, SoundKeeps

\* The same when no step is won.
LEMMA CommitOnly ==
  ASSUME WInv, NEW t \in Tasks, stack[t] # <<>>, Counters', NEW e, EInv(e),
         Moves(execution, e, {}), UNCHANGED <<request, created>>
  PROVE  \A at : /\ at = NoFrame \/ at = "advance" \/ at = "compensate"
                 /\ CommitThen(t, e, at, NoRequest)
                 => Keeps
<1>1. SUFFICES ASSUME NEW at, at = NoFrame \/ at = "advance" \/ at = "compensate",
                      CommitThen(t, e, at, NoRequest)
               PROVE  Keeps
  OBVIOUS
<1>2. at \in {NoFrame, "advance", "compensate"}
  BY <1>1, Zenon
<1>3. PICK none : none = {}
  OBVIOUS
<1>4. Moves(execution, e, none) /\ \A s \in none : s \in Steps => request[Forward(s)] = "succeeded"
  BY <1>3, Zenon
<1> QED
  BY <1>1, <1>2, <1>4, CommitKeeps, Zenon

\* A step that only raises.
LEMMA RaisedKeeps ==
  ASSUME WInv, NEW t \in Tasks, Raise(t), Counters' PROVE Keeps
<1>1. Sound(NoRequest)
  BY NothingSound DEF Raise
<1>2. Stacks'
  BY RaiseKeeps DEF WInv
<1> QED
  BY <1>1, <1>2, SoundKeeps

\* A step that only returns.
LEMMA ReturnedKeeps ==
  ASSUME WInv, NEW t \in Tasks, stack[t] # <<>>, Return(t),
         UNCHANGED <<execution, request, created>>, Counters'
  PROVE  Keeps
<1>1. Sound(NoRequest)
  BY Zenon, NothingSound
<1>2. Stacks'
  BY <1>1, ReturnKeeps DEF WInv, Sound
<1> QED
  BY <1>1, <1>2, SoundKeeps

\* The frame that goes on after dispatch() returned q as outcome.
LEMMA OutcomeFits ==
  ASSUME NEW e, NEW r, NEW c, NEW q \in Requests, NEW outcome \in RequestStatus,
         r[q] = outcome, NEW f,
         f = [frame(IF q = Forward(q[1]) THEN "forward_outcome" ELSE "undo_outcome", q)
                EXCEPT !.result = outcome]
  PROVE  FrameFits(e, r, c, f) /\ f.at \in Callers
<1>1. outcome # Absent /\ (q = Forward(q[1]) \/ q = Undo(q[1]))
  BY TwoKinds DEF RequestStatus, Absent
<1> QED
  BY Zenon, <1>1 DEF FrameFits, frame, Frame, FramePoint, WithRequest, Callers

\* What the table of step transitions lets end.
LEMMA StepTable ==
  ASSUME NEW a \in WorkflowStepStatus
  PROVE  /\ step_allows(a, "succeeded") => a \in {"running", "waiting"}
         /\ step_allows(a, "failed") => a \in {"running", "waiting", "retry_scheduled", "compensating"}
         /\ step_allows(a, "compensated") => a = "compensating"
<1>1. step_allows(a, "succeeded") => a \in {"running", "waiting"}
  BY DEF WorkflowStepStatus, step_allows, STEP_TRANSITIONS
<1>2. step_allows(a, "failed") => a \in {"running", "waiting", "retry_scheduled", "compensating"}
  BY DEF WorkflowStepStatus, step_allows, STEP_TRANSITIONS
<1>3. step_allows(a, "compensated") => a = "compensating"
  BY DEF WorkflowStepStatus, step_allows, STEP_TRANSITIONS
<1> QED
  BY Zenon, <1>1, <1>2, <1>3

\* _run_forward_step records the outcome of a request on its step.
LEMMA ForwardSettledKeeps ==
  ASSUME NEW e, EInv(e), NEW s \in Steps, NEW result, ~ forward_refused(e, s, result),
         NEW f, f = forward_settled(e, s, result), NEW won, result = "succeeded" => s \in won
  PROVE  EInv(f) /\ Moves(e, f, won)
<1>1. PICK status : status = e.steps[s].status
  OBVIOUS
<1>2. PICK target : target = forward_target(status, result)
  OBVIOUS
<1>3. target # status => can_move(e, s, target)
  BY Zenon, <1>1, <1>2 DEF forward_refused
<1>4. f = IF target = status THEN e
          ELSE IF target = "succeeded" THEN mark_succeeded(e, {s})
               ELSE transition_steps(e, {s}, target)
  BY Zenon, <1>1, <1>2 DEF forward_settled
<1>5. status \in WorkflowStepStatus
  BY <1>1 DEF EInv, Rows, StepRow
<1>6. CASE target = status
  <2>1. f = e
    BY <1>4, <1>6
  <2> QED
    BY <2>1, MovesRefl
<1>7. CASE target # status /\ target = "succeeded"
  <2>1. status \in {"running", "waiting"}
    BY <1>1, <1>3, <1>5, <1>7, StepTable DEF can_move
  <2>2. result = "succeeded"
    BY Zenon, <1>2, <1>7, <2>1 DEF forward_target
  <2>3. {s} \in SUBSET in_status(e, {"running", "waiting"})
    BY <1>1, <2>1 DEF in_status
  <2>4. f = mark_succeeded(e, {s})
    BY <1>4, <1>7
  <2>5. EInv(f) /\ Moves(e, f, {s})
    BY <2>3, <2>4, MarkSucceededKeeps
  <2> QED
    BY <2>2, <2>5, MovesMono
<1>8. CASE target # status /\ target # "succeeded"
  <2>1. \/ target \in {"waiting", "retry_scheduled"} /\ status = "running"
        \/ target = "failed"
    BY Zenon, <1>2, <1>8 DEF forward_target
  <2>2. Allowed(e, s, target)
    BY Zenon, <1>1, <1>3, <1>5, <1>8, <2>1, StepTable DEF can_move, Allowed
  <2>3. f = transition_steps(e, {s}, target)
    BY <1>4, <1>8
  <2>4. target \in WorkflowStepStatus \ {"compensating"}
    BY <2>1 DEF WorkflowStepStatus
  <2>5. EInv(f) /\ Moves(e, f, {})
    BY SMTT(30), <2>2, <2>3, <2>4, StepKeeps
  <2> QED
    BY <2>5, MovesMono
<1> QED
  BY <1>6, <1>7, <1>8

\* Where no task moves, every frame still fits.
LEMMA StillKeeps ==
  ASSUME Stacks, UNCHANGED stack,
         Kept(execution, request, created, execution', request', created', NoRequest)
  PROVE  Stacks'
<1>2. ASSUME NEW t \in Tasks PROVE FramesFit(execution', request', created', stack[t])
  <2>1. FramesFit(execution, request, created, stack[t])
    BY SMTT(30) DEF Stacks
  <2>2. ASSUME NEW i \in DOMAIN stack[t], stack[t][i].at = "compensate_step"
        PROVE  stack[t][i].request # NoRequest
    BY ZenonT(60), <2>1, <2>2, TwoKinds DEF FramesFit, FrameFits
  <2> QED
    BY <2>1, <2>2, FramesKept
<1>3. UndoneOnce'
  BY Zenon DEF Stacks, UndoneOnce, is_at, running
<1> QED
  BY Zenon, <1>2, <1>3 DEF Stacks

\* advance() keeps the invariant.
LEMMA AdvanceKeeps == ASSUME WInv, NEW t \in Tasks, Advance(t) PROVE Keeps
<1> DEFINE begun == IF execution.status = "queued" THEN with_status(execution, "running")
                                                   ELSE execution
           won == succeeded_quietly(begun)
           marked == mark_succeeded(begun, won)
           promoted == promote_ready_steps(marked)
           e == refreshed(promoted)
<1>1. /\ Stacks
      /\ stack[t] # <<>>
      /\ UNCHANGED <<request, created>>
      /\ Counters'
  BY DEF WInv, Advance, is_at, Counters
<1>2. CASE UNCHANGED execution /\ Return(t)
  <2>1. Sound(NoRequest)
    BY <1>1, <1>2, NothingSound
  <2>2. Stacks'
    BY Zenon, <1>1, <1>2, <2>1, ReturnKeeps DEF Sound
  <2> QED
    BY <1>1, <2>1, <2>2, SoundKeeps
<1>3. CASE UNCHANGED execution /\ Continue(t, frame("enforce_deadline", NoRequest))
  <2>1. Sound(NoRequest)
    BY Zenon, <1>1, <1>3, NothingSound
  <2>2. Stacks'
    BY <1>1, <1>3, <2>1, ContinueKeeps, PlainFits DEF Sound
  <2> QED
    BY <1>1, <2>1, <2>2, SoundKeeps
<1>4. ASSUME execution.status \notin WORKFLOW_TERMINAL \union {"manual_review"},
             execution' = e,
             IF e.status \in STOPPED \union WORKFLOW_TERMINAL
             THEN Return(t)
             ELSE Continue(t, [frame("run_steps", NoRequest) EXCEPT !.todo = in_status(e, {"ready"})])
      PROVE  Keeps
  <2>1. EInv(execution) /\ RInv(execution, request, created)
    BY DEF WInv
  <2>2. /\ EInv(begun)
        /\ Moves(execution, begun, won)
        /\ begun.status \notin {"cancelled", "compensated", "queued"}
        /\ begun.steps = execution.steps
    <3>1. CASE execution.status = "queued"
      <4>1. ~ execution.cancel_reason
        BY Zenon, <2>1, <3>1 DEF EInv, StatusFits
      <4>2. /\ EInv(begun)
            /\ Moves(execution, begun, {})
            /\ begun.status = "running"
            /\ begun.steps = execution.steps
        BY <2>1, <3>1, <4>1, WithStatusKeeps DEF Reached, Live
      <4> QED
        BY <4>2, MovesMono
    <3>2. CASE execution.status # "queued"
      BY Zenon, <1>4, <2>1, <3>2, MovesRefl DEF WORKFLOW_TERMINAL
    <3> QED
      BY <3>1, <3>2
  <2> HIDE DEF begun
  <2>3. won \in SUBSET in_status(begun, {"running", "waiting"})
        /\ \A s \in won : s \in Steps /\ request[Forward(s)] = "succeeded"
    BY DEF succeeded_quietly, in_status
  <2> HIDE DEF won
  <2>4. EInv(marked) /\ marked.status = begun.status /\ Moves(begun, marked, won)
    BY <2>2, <2>3, MarkSucceededKeeps
  <2> HIDE DEF marked
  <2>5. EInv(promoted) /\ Moves(marked, promoted, won)
    BY <2>2, <2>4, PromoteKeeps, MovesMono
  <2> HIDE DEF promoted
  <2>6. EInv(e) /\ Moves(promoted, e, won)
    BY <2>5, RefreshedKeeps, MovesMono
  <2> HIDE DEF e
  <2>7. Moves(begun, e, won)
    BY Zenon, <2>4, <2>5, <2>6, MovesTrans
  <2>8. Moves(execution, e, won)
    BY <2>2, <2>7, MovesTrans
  <2>9. Sound(NoRequest)
    BY Zenon, <1>1, <1>4, <2>3, <2>6, <2>8, CommitSound
  <2>10. Kept(execution, request, created, execution', request', created', NoRequest)
    BY Zenon, <2>9 DEF Sound
  <2>11. CASE Return(t)
    <3>1. Stacks'
      BY Zenon, <1>1, <2>10, <2>11, ReturnKeeps
    <3> QED
      BY <1>1, <2>9, <3>1, SoundKeeps
  <2>12. CASE Continue(t, [frame("run_steps", NoRequest) EXCEPT !.todo = in_status(e, {"ready"})])
    <3> DEFINE f == [frame("run_steps", NoRequest) EXCEPT !.todo = in_status(e, {"ready"})]
    <3>1. e.status # "queued"
      BY <2>2, <2>7 DEF Moves
    <3>2. FrameFits(e, request', created', f) /\ f.at = "run_steps"
      BY Zenon, <3>1 DEF FrameFits, frame, Frame, FramePoint, WithRequest, Absent, in_status
    <3> HIDE DEF f
    <3>3. Stacks'
      BY ZenonT(60), <1>1, <1>4, <2>10, <2>12, <3>2, ContinueKeeps DEF f
    <3> QED
      BY <1>1, <2>9, <3>3, SoundKeeps
  <2> QED
    BY <1>4, <2>11, <2>12
<1> QED
  BY <1>2, <1>3, <1>4 DEF Advance

\* _run_forward_step(): only a ready step of a live execution is started, and once.
LEMMA RunForwardStepKeeps ==
  ASSUME WInv, NEW t \in Tasks, NEW s \in Steps, RunForwardStep(t, s) PROVE Keeps
<1> DEFINE rest == [running(t) EXCEPT !.todo = @ \ {s}]
<1>1. /\ Stacks
      /\ stack[t] # <<>>
      /\ Counters'
  BY DEF WInv, RunForwardStep, is_at, Counters
<1>2. /\ FrameFits(execution, request, created, running(t))
      /\ running(t) \in Frame
      /\ running(t).at = "run_steps"
  BY <1>1, RunningFits DEF RunForwardStep, is_at
<1>3. \A e, r, c : e.status # "queued" /\ (\A q \in Requests : request[q] = "succeeded" => r[q] = "succeeded")
        => FrameFits(e, r, c, rest) /\ rest.at = "run_steps"
  BY Zenon, <1>2 DEF FrameFits, Frame, WithRequest
<1>4. execution.status # "queued"
  BY <1>2 DEF FrameFits
<1> HIDE DEF rest
<1>5. CASE Continue(t, rest) /\ UNCHANGED <<execution, request, created>>
  <2>1. Sound(NoRequest)
    BY <1>5, NothingSound
  <2>2. FrameFits(execution', request', created', rest) /\ rest.at # "compensate_step"
    BY Zenon, <1>3, <1>4, <1>5
  <2>3. Stacks'
    BY Zenon, <1>1, <1>5, <2>1, <2>2, ContinueKeeps DEF Sound
  <2> QED
    BY <1>1, <2>1, <2>3, SoundKeeps
<1>6. CASE /\ Call(t, rest, frame("enforce_deadline", NoRequest))
           /\ UNCHANGED <<execution, request, created>>
  <2>1. Sound(NoRequest)
    BY <1>6, NothingSound
  <2>2. FrameFits(execution', request', created', rest) /\ rest.at \in Callers
    BY Zenon, <1>3, <1>4, <1>6 DEF Callers
  <2>3. Stacks'
    BY ZenonT(30), <1>1, <1>6, <2>1, <2>2, CallKeeps, PlainFits DEF Sound
  <2> QED
    BY <1>1, <2>1, <2>3, SoundKeeps
<1>7. ASSUME may_start(s), ~ deadline_due,
             execution' = transition_steps(execution, {s}, "running"),
             request' = [request EXCEPT ![Forward(s)] = "received"],
             created' = [created EXCEPT ![Forward(s)] = @ + 1],
             Call(t, rest, frame("dispatch", Forward(s)))
      PROVE  Keeps
  <2>1. EInv(execution) /\ RInv(execution, request, created)
    BY DEF WInv
  <2>2. /\ execution.steps[s].status = "ready"
        /\ execution.status \in {"running", "waiting"}
    BY Zenon, <1>4, <1>7, <2>1 DEF may_start, EInv, Rows, Reached, STOPPED, WORKFLOW_TERMINAL
  <2>3. dependencies_satisfied(execution, s)
    BY Zenon, <2>1, <2>2 DEF EInv, StatusFits, Live
  <2>4. /\ EInv(execution')
        /\ Moves(execution, execution', {})
        /\ execution'.status = execution.status
        /\ \A u \in Steps : execution'.steps[u].status =
                              IF u = s THEN "running" ELSE execution.steps[u].status
    <3>1. "running" \in WorkflowStepStatus \ {"compensating"} /\ Allowed(execution, s, "running")
      BY <2>2 DEF WorkflowStepStatus, Allowed
    <3>2. execution \in Rows
      BY Zenon, <2>1 DEF EInv
    <3>3. /\ EInv(execution')
          /\ Moves(execution, execution', {})
          /\ execution'.status = execution.status
      BY <1>7, <2>1, <3>1, StepKeeps, ZenonT(30)
    <3>4. \A u \in Steps : execution'.steps[u].status =
                             IF u \in {s} THEN "running" ELSE execution.steps[u].status
      BY <1>7, <3>1, <3>2, Transitioned
    <3>5. \A u : u \in {s} <=> u = s
      OBVIOUS
    <3> QED
      BY <3>3, <3>4, <3>5, Zenon
  <2>5. /\ Forward(s) \in Requests
        /\ request[Forward(s)] = Absent
        /\ created[Forward(s)] = 0
    BY ZenonT(30), <2>1, <2>2, NamesApart DEF RInv
  <2>6. /\ request' \in [Requests -> RequestStatus \union {Absent}]
        /\ created' \in [Requests -> 0 .. 1]
        /\ request'[Forward(s)] = "received"
        /\ \A q \in Requests : q # Forward(s) => request'[q] = request[q] /\ created'[q] = created[q]
    BY <1>7, <2>1, <2>5 DEF RInv, RequestStatus
  <2>7. RInv(execution', request', created')
    <3>1. ASSUME NEW u \in Steps
          PROVE  /\ execution'.steps[u].status \in {"pending", "ready"} =>
                      request'[Forward(u)] = Absent /\ created'[Forward(u)] = 0
                 /\ execution'.steps[u].status = "succeeded" => request'[Forward(u)] = "succeeded"
                 /\ execution'.steps[u].status \in Fresh =>
                      request'[Undo(u)] = Absent /\ created'[Undo(u)] = 0
                 /\ request'[Undo(u)] # Absent => request'[Forward(u)] = "succeeded"
      <4>1. Forward(u) \in Requests /\ Undo(u) \in Requests /\ Undo(u) # Forward(s)
            /\ (u # s => Forward(u) # Forward(s))
        BY Zenon, NamesApart
      <4>2. CASE u = s
        BY Zenon, <2>1, <2>2, <2>4, <2>6, <4>1, <4>2 DEF RInv, Fresh
      <4>3. CASE u # s
        BY ZenonT(30), <2>1, <2>4, <2>6, <4>1, <4>3 DEF RInv
      <4> QED
        BY <4>2, <4>3
    <3> QED
      BY ZenonT(30), <2>6, <3>1 DEF RInv
  <2>8. Kept(execution, request, created, execution', request', created', NoRequest)
    BY <2>4, <2>5, <2>6, NamesApart DEF Kept, Moves, Absent
  <2>9. GoodStart /\ GoodUnwind
    <3>1. \A u \in Steps : created'[Forward(u)] > created[Forward(u)] => u = s
      BY <2>1, <2>6, NamesApart DEF RInv
    <3> QED
      BY ZenonT(60), <1>7, <2>2, <2>3, <2>4, <3>1 DEF GoodStart, GoodUnwind
  <2>10. Stacks'
    <3>1. FrameFits(execution', request', created', rest) /\ rest.at \in Callers
      BY ZenonT(40), <1>3, <1>4, <2>4, <2>5, <2>6 DEF Callers, Absent
    <3>2. /\ FrameFits(execution', request', created', frame("dispatch", Forward(s)))
          /\ frame("dispatch", Forward(s)).at # "compensate_step"
      <4>1. request'[Forward(s)] # Absent
        BY Zenon, <2>6 DEF Absent
      <4> QED
        BY Zenon, <2>5, <4>1, RequestFits
    <3> QED
      BY ZenonT(40), <1>1, <1>7, <2>8, <3>1, <3>2, CallKeeps
  <2>11. Sound(NoRequest)
    BY ZenonT(30), <2>4, <2>7, <2>8, <2>9 DEF Sound
  <2> QED
    BY Zenon, <1>1, <2>10, <2>11, SoundKeeps
<1> QED
  BY <1>5, <1>6, <1>7 DEF RunForwardStep, rest

\* advance() after its last step of the round.
LEMMA FinishAdvanceKeeps == ASSUME WInv, NEW t \in Tasks, FinishAdvance(t) PROVE Keeps
<1>1. /\ stack[t] # <<>>
      /\ UNCHANGED <<request, created>>
      /\ Counters'
      /\ CommitThen(t, refreshed(execution), NoFrame, NoRequest)
  BY Zenon DEF WInv, FinishAdvance, is_at, Counters, CommitThen
<1>2. EInv(refreshed(execution)) /\ Moves(execution, refreshed(execution), {})
  BY RefreshedKeeps DEF WInv
<1> QED
  BY <1>1, <1>2, CommitOnly, Zenon

\* The lifecycle service claims a request, or finds it taken.
LEMMA ClaimRequestKeeps == ASSUME WInv, NEW t \in Tasks, ClaimRequest(t) PROVE Keeps
<1> DEFINE q == running(t).request
<1>1. /\ Stacks
      /\ stack[t] # <<>>
      /\ Counters'
  BY ZenonT(30) DEF WInv, ClaimRequest, is_at, Counters
<1>2. q \in Requests /\ request[q] # Absent
  BY <1>1, RunningFits DEF ClaimRequest, is_at, FrameFits, WithRequest
<1>3. CASE Raise(t)
  BY <1>1, <1>3, RaisedKeeps
<1>4. ASSUME request[q] = "received" \/ can_transition(request[q], "dispatching"),
             request' = [request EXCEPT ![q] = "dispatching"],
             Continue(t, frame("settle", q)), UNCHANGED <<execution, created>>
      PROVE  Keeps
  <2> HIDE DEF q
  <2>1. request[q] # "succeeded"
    BY <1>4 DEF can_transition, TRANSITIONS
  <2>2. "dispatching" \in RequestStatus
    BY DEF RequestStatus
  <2>3. Sound(NoRequest) /\ request'[q] = "dispatching" /\ "dispatching" # Absent
    BY ZenonT(40), <1>2, <1>4, <2>1, <2>2, RequestSound
  <2>4. /\ FrameFits(execution', request', created', frame("settle", q))
        /\ frame("settle", q).at # "compensate_step"
    BY <1>2, <2>3, RequestFits
  <2>5. Stacks'
    BY ZenonT(60), <1>1, <1>4, <2>3, <2>4, ContinueKeeps DEF Sound
  <2> QED
    BY Zenon, <1>1, <2>3, <2>5, SoundKeeps
<1> QED
  BY Zenon, <1>3, <1>4 DEF ClaimRequest

\* The provider has answered and the request is settled.
LEMMA SettleRequestKeeps ==
  ASSUME WInv, NEW t \in Tasks, NEW outcome \in RequestStatus, SettleRequest(t, outcome)
  PROVE  Keeps
<1> DEFINE q == running(t).request
           after == [frame(IF q = Forward(q[1]) THEN "forward_outcome" ELSE "undo_outcome", q)
                       EXCEPT !.result = outcome]
<1>1. /\ Stacks
      /\ stack[t] # <<>>
      /\ Counters'
  BY DEF WInv, SettleRequest, is_at, Counters
<1>2. q \in Requests /\ request[q] # Absent
  BY <1>1, RunningFits DEF SettleRequest, is_at, FrameFits, WithRequest
<1>3. /\ request[q] = "succeeded" => outcome = "succeeded"
      /\ request' = [request EXCEPT ![q] = outcome]
      /\ UNCHANGED <<execution, created>>
      /\ \/ Call(t, after, frame("hook_read", q))
         \/ Continue(t, after)
  BY DEF SettleRequest
<1> HIDE DEF q
<1>4. Sound(NoRequest) /\ request'[q] = outcome /\ outcome # Absent
  BY Zenon, <1>2, <1>3, RequestSound
<1>5. FrameFits(execution', request', created', after) /\ after.at \in Callers
  BY ZenonT(40), <1>2, <1>4, OutcomeFits
<1> HIDE DEF after
<1>6. /\ FrameFits(execution', request', created', frame("hook_read", q))
      /\ frame("hook_read", q).at # "compensate_step"
  BY Zenon, <1>2, <1>4, RequestFits
<1>7. Stacks'
  <2>1. after.at # "compensate_step"
    BY <1>5 DEF Callers
  <2>2. Kept(execution, request, created, execution', request', created', NoRequest)
    BY Zenon, <1>4 DEF Sound
  <2>3. CASE Call(t, after, frame("hook_read", q))
    BY ZenonT(30), <1>1, <1>5, <1>6, <2>2, <2>3, CallKeeps
  <2>4. CASE Continue(t, after)
    BY Zenon, <1>1, <1>5, <2>1, <2>2, <2>4, ContinueKeeps
  <2> QED
    BY <1>3, <2>3, <2>4
<1> QED
  BY <1>1, <1>4, <1>7, SoundKeeps

\* The task reads back the request it dispatched.
LEMMA ReadRequestKeeps == ASSUME WInv, NEW t \in Tasks, ReadRequest(t) PROVE Keeps
<1> DEFINE q == running(t).request
           f == [frame("hook", q) EXCEPT !.result = request[q]]
<1>1. /\ Stacks
      /\ stack[t] # <<>>
      /\ UNCHANGED <<execution, request, created>>
      /\ Counters'
  BY DEF WInv, ReadRequest, is_at, Counters
<1>2. q \in Requests /\ request[q] # Absent
  BY <1>1, RunningFits DEF ReadRequest, is_at, FrameFits, WithRequest
<1>3. Return(t) \/ Continue(t, f)
  BY Zenon DEF ReadRequest
<1>4. request[q] \in RequestStatus \union {Absent}
  BY <1>2 DEF WInv, RInv
<1> HIDE DEF q
<1>5. FrameFits(execution', request', created', f) /\ f.at # "compensate_step"
  BY ZenonT(40), <1>1, <1>2, <1>4 DEF FrameFits, frame, Frame, FramePoint, WithRequest
<1> HIDE DEF f
<1>6. Sound(NoRequest)
  BY <1>1, NothingSound
<1>7. CASE Continue(t, f)
  <2>1. Stacks'
    BY Zenon, <1>1, <1>5, <1>6, <1>7, ContinueKeeps DEF Sound
  <2> QED
    BY Zenon, <1>1, <1>6, <2>1, SoundKeeps
<1>8. CASE Return(t)
  BY <1>1, <1>8, ReturnedKeeps
<1> QED
  BY <1>3, <1>7, <1>8

\* on_request_terminal(), after it read the request.
LEMMA OnRequestTerminalKeeps == ASSUME WInv, NEW t \in Tasks, OnRequestTerminal(t) PROVE Keeps
<1> DEFINE q == running(t).request
           result == running(t).result
<1>1. stack[t] # <<>> /\ Counters'
  BY DEF WInv, OnRequestTerminal, is_at, Counters
<1>2. /\ q \in Requests
      /\ request[q] # Absent
      /\ result = "succeeded" => request[q] = "succeeded"
  BY <1>1, RunningFits DEF WInv, OnRequestTerminal, is_at, FrameFits, WithRequest
<1>3. CASE Return(t) /\ UNCHANGED <<execution, request, created>>
  BY <1>1, <1>3, ReturnedKeeps
<1>4. ASSUME NEW s \in step_for_request(execution, q), Raise(t) PROVE Keeps
  BY <1>1, <1>4, RaisedKeeps
<1>5. ASSUME NEW s \in step_for_request(execution, q),
             LET e == refreshed(notified(execution, s, q, result))
             IN  CommitThen(t, e, CASE e.status = "running" -> "advance"
                                    [] e.status = "compensating" -> "compensate"
                                    [] OTHER -> NoFrame, NoRequest),
             UNCHANGED <<request, created>>
      PROVE  Keeps
  <2> DEFINE told == notified(execution, s, q, result)
             e == refreshed(told)
             won == {u \in {s} : /\ execution.steps[u].status \in {"running", "waiting"}
                                 /\ result = "succeeded"}
             at == CASE e.status = "running" -> "advance"
                     [] e.status = "compensating" -> "compensate"
                     [] OTHER -> NoFrame
  <2>1. CommitThen(t, e, at, NoRequest) /\ at \in {NoFrame, "advance", "compensate"}
    BY <1>5
  <2> HIDE DEF q, result, at
  <2>2. EInv(execution) /\ RInv(execution, request, created)
    BY DEF WInv
  <2>3. s \in Steps /\ q \in {Forward(s), Undo(s)}
    BY Zenon, <1>2, <2>2, TwoKinds DEF step_for_request, EInv
  <2>4. \A u \in won : u \in Steps => request[Forward(u)] = "succeeded"
    BY ZenonT(30), <1>2, <2>2, <2>3 DEF RInv, Fresh
  <2>5. EInv(told) /\ Moves(execution, told, won)
    BY <2>2, <2>3, NotifiedKeeps
  <2> HIDE DEF told, won
  <2>6. EInv(e) /\ Moves(told, e, won)
    BY <2>5, RefreshedKeeps, MovesMono
  <2> HIDE DEF e
  <2>7. Moves(execution, e, won)
    BY Zenon, <2>5, <2>6, MovesTrans
  <2> QED
    BY Zenon, <1>1, <1>5, <2>1, <2>4, <2>6, <2>7, CommitKeeps
<1> QED
  BY <1>3, <1>4, <1>5 DEF OnRequestTerminal

\* _run_forward_step(), after dispatch().
LEMMA SettleForwardStepKeeps == ASSUME WInv, NEW t \in Tasks, SettleForwardStep(t) PROVE Keeps
<1>1. stack[t] # <<>> /\ Counters'
  BY DEF WInv, SettleForwardStep, is_at, Counters
<1>2. PICK q, s, result : q = running(t).request /\ s = q[1] /\ result = running(t).result
  BY Zenon
<1>3. /\ q \in Requests
      /\ q = Forward(s)
      /\ result = "succeeded" => request[q] = "succeeded"
  BY Zenon, <1>1, <1>2, RunningFits DEF WInv, SettleForwardStep, is_at, FrameFits, WithRequest
<1>4. PICK settled : settled = forward_settled(execution, s, result)
  OBVIOUS
<1>5. PICK e : e = refreshed(settled)
  OBVIOUS
<1>6. CASE Raise(t)
  BY Zenon, <1>1, <1>6, RaisedKeeps
<1>7. ASSUME ~ forward_refused(execution, s, result), UNCHANGED <<request, created>>,
             CommitThen(t, e, IF e.status = "compensating" THEN "compensate" ELSE NoFrame, NoRequest)
      PROVE  Keeps
  <2> DEFINE won == IF result = "succeeded" THEN {s} ELSE {}
             at == IF e.status = "compensating" THEN "compensate" ELSE NoFrame
  <2>1. EInv(execution) /\ s \in Steps
    BY <1>2, <1>3, TwoKinds DEF WInv
  <2>2. /\ \A u \in won : u \in Steps => request[Forward(u)] = "succeeded"
        /\ result = "succeeded" => s \in won
        /\ at \in {NoFrame, "advance", "compensate"}
        /\ CommitThen(t, e, at, NoRequest)
    BY Zenon, <1>3, <1>7
  <2> HIDE DEF won, at
  <2>3. EInv(settled) /\ Moves(execution, settled, won)
    BY Zenon, <1>4, <1>7, <2>1, <2>2, ForwardSettledKeeps
  <2>4. EInv(e) /\ Moves(settled, e, won)
    BY <1>5, <2>3, RefreshedKeeps, MovesMono
  <2>5. Moves(execution, e, won)
    BY <2>3, <2>4, MovesTrans
  <2> QED
    BY Zenon, <1>1, <1>7, <2>2, <2>4, <2>5, CommitKeeps
<1> QED
  BY ZenonT(30), <1>2, <1>4, <1>5, <1>6, <1>7 DEF SettleForwardStep

\* _continue_compensation(): the step completed last is undone first.
LEMMA ContinueCompensationKeeps ==
  ASSUME WInv, NEW t \in Tasks, ContinueCompensation(t) PROVE Keeps
<1>1. Stacks /\ stack[t] # <<>> /\ Counters' /\ UNCHANGED <<request, created>>
  BY DEF WInv, ContinueCompensation, is_at, Counters
<1>2. EInv(execution) /\ RInv(execution, request, created)
  BY DEF WInv
<1>3. CASE Return(t) /\ UNCHANGED execution
  BY Zenon, <1>1, <1>3, ReturnedKeeps
<1>4. ASSUME execution.status = "compensating", last_completed(execution) = {}, Return(t),
             unwinding_done(execution), execution' = with_status(execution, unwound_as(execution))
      PROVE  Keeps
  <2>1. /\ unwound_as(execution) \in {"cancelled", "compensated"}
        /\ execution.cancel_reason => unwound_as(execution) = "cancelled"
    BY DEF unwound_as
  <2>2. \A s \in Steps :
          execution.steps[s].status \notin
            {"succeeded", "running", "waiting", "ready", "retry_scheduled", "compensating"}
    BY Zenon, <1>4 DEF unwinding_done
  <2>3. EInv(execution') /\ Moves(execution, execution', {})
    BY <1>2, <1>4, <2>1, <2>2, WithStatusKeeps DEF Reached, Live
  <2>4. CommitThen(t, execution', NoFrame, NoRequest)
    BY Zenon, <1>4 DEF CommitThen
  <2> QED
    BY <1>1, <2>3, <2>4, CommitOnly, Zenon
<1>5. ASSUME execution.status = "compensating", NEW s \in last_completed(execution),
             CommitThen(t, transition_steps(execution, {s}, "compensating"),
                        "compensate_step", Undo(s))
      PROVE  Keeps
  <2> DEFINE f == frame("compensate_step", Undo(s))
  <2>1. /\ s \in Steps
        /\ execution.steps[s].status = "succeeded"
        /\ \A d \in Steps : execution.steps[d].status = "succeeded" =>
             execution.steps[d].completed_at <= execution.steps[s].completed_at
    BY DEF last_completed, in_status
  <2>2. execution' = transition_steps(execution, {s}, "compensating") /\ Continue(t, f)
    BY Zenon, <1>5 DEF CommitThen, NoFrame
  <2>3. /\ EInv(execution')
        /\ execution'.status = execution.status
        /\ \A u \in Steps : execution'.steps[u].status =
                              IF u = s THEN "compensating" ELSE execution.steps[u].status
    <3>1. execution \in Rows /\ "compensating" \in WorkflowStepStatus /\ {s} \in SUBSET Steps
      BY Zenon, <1>2, <2>1 DEF EInv, WorkflowStepStatus
    <3>2. \A u \in {s} : Allowed(execution, u, "compensating")
      BY Zenon, <1>5, <2>1 DEF Allowed
    <3>3. EInv(execution')
      BY <1>2, <2>2, <3>1, <3>2, TransitionKeeps, ZenonT(30)
    <3>4. /\ execution'.status = execution.status
          /\ \A u \in Steps : execution'.steps[u].status =
                                IF u \in {s} THEN "compensating" ELSE execution.steps[u].status
      BY <2>2, <3>1, Transitioned
    <3>5. \A u : u \in {s} <=> u = s
      OBVIOUS
    <3> QED
      BY <3>3, <3>4, <3>5, Zenon
  <2>4. RInv(execution', request', created')
    BY ZenonT(30), <1>1, <1>2, <2>3 DEF RInv, Fresh
  <2>5. Kept(execution, request, created, execution', request', created', NoRequest)
    BY Zenon, <1>1, <2>3 DEF Kept, Fresh
  <2>6. GoodStart
    <3>1. \A u \in Steps : created[Forward(u)] \in 0 .. 1
      BY <1>2, NamesApart, Zenon DEF RInv
    <3>2. \A n \in 0 .. 1 : ~ (n > n)
      OBVIOUS
    <3>3. \A u \in Steps : ~ (created'[Forward(u)] > created[Forward(u)])
      BY <1>1, <3>1, <3>2, Zenon
    <3> QED
      BY <3>3, Zenon DEF GoodStart
  <2>7. GoodUnwind
    <3>1. ASSUME NEW d \in Steps, s \in DependsOn[d] PROVE execution.steps[d].status # "succeeded"
      BY SMTT(30), <1>2, <2>1, <3>1 DEF EInv, RanksFit, Rows, StepRow
    <3> QED
      BY Zenon, <2>3, <3>1 DEF GoodUnwind
  <2>8. /\ f.at = "compensate_step"
        /\ f.request = Undo(s)
        /\ FrameFits(execution', request', created', f)
    <3>1. Undo(s) \in Requests /\ Undo(s)[1] = s
      BY Zenon, <2>1, NamesApart
    <3>2. /\ request'[Undo(s)] = Absent
          /\ created'[Undo(s)] = 0
          /\ request'[Forward(s)] = "succeeded"
      BY Zenon, <1>1, <1>2, <2>1 DEF RInv, Fresh
    <3>3. execution'.steps[s].status \notin Fresh
      BY <2>1, <2>3 DEF Fresh
    <3> QED
      BY ZenonT(60), <3>1, <3>2, <3>3 DEF f, FrameFits, frame, Frame, FramePoint, WithRequest, Absent
  <2> HIDE DEF f
  <2>9. PICK frames : /\ stack' = [stack EXCEPT ![t] = frames]
                      /\ FramesFit(execution', request', created', frames)
                      /\ Head(frames).request = f.request
    <3>1. FrameFits(execution', request', created', f)
      BY <2>8
    <3>2. Continue(t, f)
      BY <2>2
    <3>3. \E frames : /\ stack' = [stack EXCEPT ![t] = frames]
                      /\ FramesFit(execution', request', created', frames)
                      /\ frames # <<>>
                      /\ Head(frames).at = f.at
                      /\ Head(frames).request = f.request
      BY <1>1, <2>5, <3>1, <3>2, ContinueStep, ZenonT(60)
    <3> QED
      BY <3>3, Zenon
  <2>10. ASSUME NEW u \in Tasks, is_at(u, "compensate_step")
         PROVE  running(u).request # Undo(s) /\ running(u).request # NoRequest
    <3>1. /\ running(u).request \in Requests
          /\ execution.steps[running(u).request[1]].status \notin Fresh
      BY Zenon, <1>1, <2>10, RunningFits DEF is_at, FrameFits
    <3>2. Undo(s)[1] = s
      BY Zenon, <2>1, NamesApart
    <3>3. running(u).request # NoRequest
      BY <3>1, TwoKinds
    <3> QED
      BY Zenon, <2>1, <3>1, <3>2, <3>3 DEF Fresh
  <2>11. Stacks'
    BY <1>1, <2>5, <2>8, <2>9, <2>10, StackStep, ZenonT(60)
  <2>12. Sound(NoRequest)
    BY Zenon, <2>3, <2>4, <2>5, <2>6, <2>7 DEF Sound
  <2> QED
    BY Zenon, <1>1, <2>11, <2>12, SoundKeeps
<1> QED
  BY <1>3, <1>4, <1>5, ZenonT(60) DEF ContinueCompensation

\* _compensate_step(), up to its commit: the request is created once.
LEMMA CompensateStepKeeps == ASSUME WInv, NEW t \in Tasks, CompensateStep(t) PROVE Keeps
<1>1. Stacks /\ stack[t] # <<>> /\ Counters'
  BY DEF WInv, CompensateStep, is_at, Counters
<1>2. PICK q, s : q = running(t).request /\ s = q[1]
  BY Zenon
<1>3. /\ q \in Requests
      /\ s \in Steps
      /\ q = Undo(s)
      /\ request[q] = Absent
      /\ created[q] = 0
      /\ request[Forward(s)] = "succeeded"
      /\ execution.steps[s].status \notin Fresh
  BY <1>1, <1>2, RunningFits, TwoKinds DEF CompensateStep, is_at, FrameFits
<1>4. EInv(execution) /\ RInv(execution, request, created)
  BY DEF WInv
<1>5. CASE Raise(t)
  BY ZenonT(30), <1>1, <1>5, RaisedKeeps
<1>6. ASSUME can_move(execution, s, "compensated"), UNCHANGED <<request, created>>,
             CommitThen(t, mark_compensated(execution, s, NoRequest), "compensate", NoRequest)
      PROVE  Keeps
  <2>1. execution.steps[s].status = "compensating"
    <3>1. execution.steps[s].status \in WorkflowStepStatus
      BY Zenon, <1>3, <1>4 DEF EInv, Rows, StepRow
    <3> QED
      BY Zenon, <1>6, <3>1, StepTable DEF can_move
  <2> DEFINE e == mark_compensated(execution, s, NoRequest)
  <2>2. EInv(e) /\ Moves(execution, e, {})
    BY Zenon, <1>3, <1>4, <2>1, MarkCompensatedKeeps
  <2> HIDE DEF e
  <2>3. CommitThen(t, e, "compensate", NoRequest)
    BY Zenon, <1>6 DEF e
  <2> QED
    BY <1>1, <1>6, <2>2, <2>3, CommitOnly, Zenon
<1>7. ASSUME request' = [request EXCEPT ![q] = "received"],
             created' = [created EXCEPT ![q] = @ + 1],
             CommitThen(t, [execution EXCEPT !.steps[s].compensation_request_id = q], "dispatch", q)
      PROVE  Keeps
  <2>1. /\ execution' = [execution EXCEPT !.steps[s].compensation_request_id = q]
        /\ Continue(t, frame("dispatch", q))
    BY <1>7 DEF CommitThen, NoFrame
  <2>2. EInv(execution') /\ Moves(execution, execution', {})
    BY Zenon, <1>3, <1>4, <2>1, UndoIdKeeps
  <2>3. /\ request' \in [Requests -> RequestStatus \union {Absent}]
        /\ created' \in [Requests -> 0 .. 1]
        /\ request'[q] = "received"
        /\ \A p \in Requests : p # q => request'[p] = request[p] /\ created'[p] = created[p]
    BY <1>3, <1>4, <1>7 DEF RInv, RequestStatus
  <2>4. \A u \in Steps : /\ Forward(u) \in Requests /\ Undo(u) \in Requests
                         /\ Forward(u) # q
                         /\ Undo(u) = q => u = s
    BY Zenon, <1>3, NamesApart
  <2>5. RInv(execution', request', created')
    BY ZenonT(30), <1>3, <1>4, <2>2, <2>3, <2>4 DEF RInv, Moves
  <2>6. Kept(execution, request, created, execution', request', created', q)
    BY Zenon, <1>3, <2>2, <2>3, <2>4 DEF Kept, Moves, Absent
  <2>7. GoodStart /\ GoodUnwind
    <3>1. \A u \in Steps : created'[Forward(u)] = created[Forward(u)] /\ created[Forward(u)] \in 0 .. 1
      BY <1>4, <2>3, <2>4 DEF RInv
    <3>2. \A n \in 0 .. 1 : ~ (n > n)
      OBVIOUS
    <3>3. \A u \in Steps : ~ (created'[Forward(u)] > created[Forward(u)])
      BY <3>1, <3>2, Zenon
    <3>4. GoodStart
      BY <3>3, Zenon DEF GoodStart
    <3>5. GoodUnwind
      BY <2>2, Zenon DEF GoodUnwind, Moves
    <3> QED
      BY <3>4, <3>5, Zenon
  <2>8. Sound(q)
    BY Zenon, <2>2, <2>5, <2>6, <2>7 DEF Sound
  <2>9. FrameFits(execution', request', created', frame("dispatch", q)) /\ frame("dispatch", q).at = "dispatch"
    <3>1. request'[q] # Absent
      BY <2>3 DEF Absent
    <3> QED
      BY Zenon, <1>3, <3>1, RequestFits
  <2>10. PICK frames : /\ stack' = [stack EXCEPT ![t] = frames]
                       /\ FramesFit(execution', request', created', frames)
                       /\ Head(frames).at = "dispatch"
    BY <1>1, <2>1, <2>6, <2>9, ContinueStep
  <2>11. ASSUME NEW u \in Tasks \ {t}, is_at(u, "compensate_step") PROVE running(u).request # q
    BY <1>1, <1>2, <2>11 DEF Stacks, UndoneOnce, CompensateStep
  <2>12. Stacks'
    BY <1>1, <2>6, <2>10, <2>11, StackStep, ZenonT(60)
  <2> QED
    BY Zenon, <1>1, <2>8, <2>12, SoundKeeps
<1> QED
  BY Zenon, <1>2, <1>5, <1>6, <1>7 DEF CompensateStep

\* _compensate_step(), after dispatch().
LEMMA SettleCompensationKeeps ==
  ASSUME WInv, NEW t \in Tasks, SettleCompensation(t) PROVE Keeps
<1>1. stack[t] # <<>> /\ Counters'
  BY DEF WInv, SettleCompensation, is_at, Counters
<1>2. PICK q, s, result : q = running(t).request /\ s = q[1] /\ result = running(t).result
  OBVIOUS
<1>3. PICK e : e = CASE result = "succeeded" -> mark_compensated(execution, s, q)
                     [] result = "pending" -> execution
                     [] OTHER -> with_status(mark_failed(execution, s), "manual_review")
  OBVIOUS
<1>4. PICK at : at = IF e.status = "compensating" THEN "compensate" ELSE NoFrame
  BY Zenon
<1>5. CASE Raise(t)
  BY <1>1, <1>5, RaisedKeeps, Zenon
<1>6. ASSUME result = "succeeded" => can_move(execution, s, "compensated"),
             result \notin {"succeeded", "pending"} => can_move(execution, s, "failed"),
             UNCHANGED <<request, created>>, CommitThen(t, e, at, NoRequest)
      PROVE  Keeps
  <2>1. EInv(execution) /\ s \in Steps /\ q = Undo(s)
    BY Zenon, <1>1, <1>2, RunningFits, TwoKinds DEF WInv, SettleCompensation, is_at, FrameFits, WithRequest
  <2>2. execution.steps[s].status \in WorkflowStepStatus
    BY <2>1 DEF EInv, Rows, StepRow
  <2>3. EInv(e) /\ Moves(execution, e, {})
    <3>1. CASE result = "succeeded"
      <4>1. e = mark_compensated(execution, s, q)
        BY Zenon, <1>3, <3>1
      <4>2. execution.steps[s].status = "compensating"
        BY Zenon, <1>6, <2>2, <3>1, StepTable DEF can_move
      <4> QED
        BY <2>1, <4>1, <4>2, MarkCompensatedKeeps
    <3>2. CASE result = "pending"
      <4>1. e = execution
        BY <1>3, <3>2
      <4> QED
        BY <2>1, <4>1, MovesRefl
    <3>3. CASE result \notin {"succeeded", "pending"}
      <4>1. PICK f : f = transition_steps(execution, {s}, "failed")
        OBVIOUS
      <4>2. e = with_status(f, "manual_review")
        BY Zenon, <1>3, <3>3, <4>1 DEF mark_failed
      <4>3. "failed" \in WorkflowStepStatus \ {"compensating"} /\ Allowed(execution, s, "failed")
        BY Zenon, <1>6, <2>2, <3>3, StepTable DEF can_move, Allowed, WorkflowStepStatus
      <4>4. EInv(f) /\ Moves(execution, f, {})
        BY Zenon, <2>1, <4>1, <4>3, StepKeeps
      <4>5. EInv(e) /\ Moves(f, e, {})
        BY <4>2, <4>4, WithStatusKeeps DEF Reached, Live
      <4> QED
        BY <4>4, <4>5, MovesTrans
    <3> QED
      BY Zenon, <3>1, <3>2, <3>3
  <2>4. at \in {NoFrame, "advance", "compensate"}
    BY <1>4
  <2> QED
    BY <1>1, <1>6, <2>3, <2>4, CommitOnly, Zenon
<1> QED
  BY Zenon, <1>2, <1>3, <1>4, <1>5, <1>6 DEF SettleCompensation

\* enforce_deadline().
LEMMA EnforceDeadlineKeeps == ASSUME WInv, NEW t \in Tasks, EnforceDeadline(t) PROVE Keeps
<1>1. stack[t] # <<>> /\ Counters'
  BY Zenon DEF WInv, EnforceDeadline, is_at, Counters
<1>2. PICK e, at : /\ e = expired(execution)
                   /\ at = IF has_succeeded_steps(execution) THEN "compensate" ELSE NoFrame
  OBVIOUS
<1>3. EInv(e) /\ Moves(execution, e, {}) /\ at \in {NoFrame, "advance", "compensate"}
  BY Zenon, <1>2, ExpiredKeeps DEF WInv
<1>4. CASE Raise(t)
  BY Zenon, <1>1, <1>4, RaisedKeeps
<1>5. CASE Return(t) /\ UNCHANGED <<execution, request, created>>
  BY <1>1, <1>5, ReturnedKeeps
<1>6. CASE CommitThen(t, e, at, NoRequest) /\ UNCHANGED <<request, created>>
  BY <1>1, <1>3, <1>6, CommitOnly, Zenon
<1> QED
  BY ZenonT(30), <1>2, <1>4, <1>5, <1>6 DEF EnforceDeadline

\* cancel().
LEMMA CancelKeeps == ASSUME WInv, NEW t \in Tasks, Cancel(t) PROVE Keeps
<1>1. Stacks /\ EInv(execution) /\ Counters' /\ UNCHANGED <<request, created>>
  BY BoundsAssumption DEF WInv, Cancel, Counters
<1>2. EInv(execution') /\ Moves(execution, execution', {})
  <2>1. CASE execution.status = "compensating" /\ execution' = [execution EXCEPT !.cancel_reason = TRUE]
    <3>1. /\ execution' \in Rows
          /\ execution'.status = "compensating"
          /\ execution'.steps = execution.steps
      BY <1>1, <2>1, ZenonT(30) DEF EInv, Rows
    <3>2. StatusFits(execution')
      BY <3>1 DEF StatusFits, Live
    <3>3. EInv(execution')
      BY Zenon, <1>1, <3>1, <3>2, FieldsKeep
    <3> QED
      BY <3>1, <3>3 DEF Moves
  <2>2. CASE execution' = cancelled(execution)
    BY <1>1, <2>2, CancelledKeeps
  <2> QED
    BY Zenon, <2>1, <2>2 DEF Cancel
<1>3. Sound(NoRequest)
  BY <1>1, <1>2, CommitSound
<1>4. Kept(execution, request, created, execution', request', created', NoRequest)
  BY <1>3 DEF Sound
<1>5. PICK f : f = frame("compensate", NoRequest)
  OBVIOUS
<1>6. FrameFits(execution', request', created', f) /\ f.at = "compensate"
  BY <1>5, PlainFits
<1>7. CASE UNCHANGED stack
  BY Zenon, <1>1, <1>3, <1>4, <1>7, StillKeeps, SoundKeeps
<1>8. CASE stack' = [stack EXCEPT ![t] = <<f>>]
  <2>1. Stacks'
    BY <1>1, <1>4, <1>6, <1>8, BottomKeeps, ZenonT(30)
  <2> QED
    BY <1>1, <1>3, <2>1, SoundKeeps
<1> QED
  BY <1>5, <1>7, <1>8 DEF Cancel

\* WorkflowWorker.run_once().
LEMMA ClaimRunnableKeeps == ASSUME WInv, NEW t \in Tasks, ClaimRunnable(t) PROVE Keeps
<1>1. Stacks /\ Counters' /\ UNCHANGED <<execution, request, created>>
  BY DEF WInv, ClaimRunnable, Counters
<1>2. PICK at : at = IF execution.status = "compensating" THEN "compensate" ELSE "advance"
  OBVIOUS
<1>3. PICK f : f = frame(at, NoRequest)
  OBVIOUS
<1>4. FrameFits(execution', request', created', f) /\ f.at # "compensate_step"
  BY Zenon, <1>2, <1>3, PlainFits
<1>5. stack' = [stack EXCEPT ![t] = <<f>>]
  BY <1>2, <1>3 DEF ClaimRunnable
<1>6. Sound(NoRequest)
  BY <1>1, NothingSound
<1>7. Stacks'
  BY <1>1, <1>4, <1>5, <1>6, BottomKeeps, ZenonT(30) DEF Sound
<1> QED
  BY Zenon, <1>1, <1>6, <1>7, SoundKeeps

\* A webhook settles a request and runs the hook.
LEMMA ApplyWebhookKeeps ==
  ASSUME WInv, NEW t \in Tasks, NEW q \in Requests, NEW outcome \in RequestStatus,
         ApplyWebhook(t, q, outcome)
  PROVE  Keeps
<1>1. Stacks /\ Counters' /\ UNCHANGED <<execution, created>>
  BY BoundsAssumption DEF WInv, ApplyWebhook, Counters
<1>2. /\ request' = [request EXCEPT ![q] = outcome]
      /\ request[q] # Absent
      /\ request[q] = "succeeded" => outcome = "succeeded"
      /\ stack' = [stack EXCEPT ![t] = <<frame("hook_read", q)>>]
  BY DEF ApplyWebhook, is_forward_progress, Terminal
<1>3. Sound(NoRequest) /\ request'[q] # Absent
  BY <1>1, <1>2, RequestSound, ZenonT(30)
<1>4. PICK f : f = frame("hook_read", q)
  OBVIOUS
<1>5. FrameFits(execution', request', created', f) /\ f.at # "compensate_step"
  BY <1>3, <1>4, RequestFits
<1>6. Stacks'
  BY <1>1, <1>2, <1>3, <1>4, <1>5, BottomKeeps, ZenonT(30) DEF Sound
<1> QED
  BY Zenon, <1>1, <1>3, <1>6, SoundKeeps

\* The retry worker, reconciliation and the request API.
LEMMA QuietlyKeeps ==
  ASSUME WInv, NEW q \in Requests, NEW outcome \in RequestStatus,
         SettleQuietly(q, outcome) \/ OperateOnRequest(q, outcome)
  PROVE  Keeps
<1>1. Stacks /\ Counters' /\ UNCHANGED <<execution, created, stack>>
  <2>1. Stacks /\ Counters
    BY Zenon DEF WInv
  <2>2. /\ UNCHANGED <<execution, created, stack, past_deadline, webhooks>>
        /\ \/ interruptions' = interruptions
           \/ interruptions < MaxInterruptions /\ interruptions' = interruptions + 1
    BY Zenon DEF SettleQuietly, OperateOnRequest
  <2>3. interruptions' \in 0 .. MaxInterruptions
    BY <2>1, <2>2, BoundsAssumption DEF Counters
  <2> QED
    BY <2>1, <2>2, <2>3, Zenon DEF Counters
<1>2. /\ request' = [request EXCEPT ![q] = outcome]
      /\ request[q] # Absent
      /\ request[q] # "succeeded"
  BY DEF SettleQuietly, SettledQuietly, OperateOnRequest, MANUALLY_RETRYABLE_STATUSES, Absent
<1>3. Sound(NoRequest)
  BY <1>1, <1>2, RequestSound, ZenonT(30)
<1>4. Stacks'
  BY <1>1, <1>3, StillKeeps DEF Sound
<1> QED
  BY Zenon, <1>1, <1>3, <1>4, SoundKeeps

\* The deadline passes; no row changes.
LEMMA DeadlinePassesKeeps == ASSUME WInv, DeadlinePasses PROVE Keeps
<1>1. Stacks /\ Counters' /\ UNCHANGED <<execution, request, created, stack>>
  BY BoundsAssumption DEF WInv, DeadlinePasses, Counters
<1>2. Sound(NoRequest)
  BY <1>1, NothingSound
<1>3. Stacks'
  BY <1>1, <1>2, StillKeeps DEF Sound
<1> QED
  BY Zenon, <1>1, <1>2, <1>3, SoundKeeps

\* A task stops where it is; what it committed stands.
LEMMA CrashKeeps == ASSUME WInv, NEW t \in Tasks, Crash(t) PROVE Keeps
<1>1. /\ Stacks /\ Counters' /\ UNCHANGED <<execution, request, created>>
      /\ stack' = [stack EXCEPT ![t] = <<>>]
  BY BoundsAssumption DEF WInv, Crash, Counters
<1>2. Sound(NoRequest)
  BY <1>1, NothingSound
<1>3. Stacks'
  BY <1>1, <1>2, BottomKeeps, ZenonT(30) DEF Sound
<1> QED
  BY Zenon, <1>1, <1>2, <1>3, SoundKeeps

\* A stuttering step.
LEMMA StutterKeeps == ASSUME WInv, UNCHANGED vars PROVE Keeps
<1>1. Stacks /\ Counters' /\ UNCHANGED <<execution, request, created, stack>>
  BY DEF WInv, vars, Counters
<1>2. Sound(NoRequest)
  BY <1>1, NothingSound
<1>3. Stacks'
  BY Zenon, <1>1, <1>2, StillKeeps DEF Sound
<1> QED
  BY Zenon, <1>1, <1>2, <1>3, SoundKeeps

-----------------------------------------------------------------------------
(***************************************************************************)
(* The invariant, and what follows from it.                                *)
(***************************************************************************)
LEMMA InitInvariant == Init => WInv
<1> SUFFICES ASSUME Init PROVE WInv
  OBVIOUS
<1>1. EInv(execution) /\ \A s \in Steps : execution.steps[s].status \in {"pending", "ready"}
  BY ZenonT(30), StartFits DEF Init
<1>2. RInv(execution, request, created)
  <2>1. /\ request \in [Requests -> RequestStatus \union {Absent}]
        /\ created \in [Requests -> 0 .. 1]
        /\ \A q \in Requests : request[q] = Absent /\ created[q] = 0
    BY DEF Init
  <2> QED
    BY Zenon, <1>1, <2>1, NamesApart DEF RInv
<1>3. Stacks
  <2>1. PICK t \in Tasks :
          stack = [u \in Tasks |-> IF u = t THEN <<frame("advance", NoRequest)>> ELSE <<>>]
    BY DEF Init
  <2>2. PICK f : f = frame("advance", NoRequest)
    BY Zenon
  <2>3. FrameFits(execution, request, created, f) /\ f.at = "advance" /\ f \in Frame
    BY Zenon, <2>2, PlainFits DEF FrameFits
  <2>4. \A u \in Tasks : stack[u] = IF u = t THEN <<f>> ELSE <<>>
    BY <2>1, <2>2
  <2>5. FramesFit(execution, request, created, <<>>) /\ <<>> \in Seq(Frame)
    BY DEF FramesFit
  <2>6. FramesFit(execution, request, created, <<f>>) /\ <<f>> \in Seq(Frame) /\ Head(<<f>>) = f
    BY <2>3, SingleFits
  <2>7. stack \in [Tasks -> Seq(Frame)]
    BY <2>1, <2>2, <2>5, <2>6
  <2>8. \A u \in Tasks : FramesFit(execution, request, created, stack[u])
    BY ZenonT(30), <2>4, <2>5, <2>6
  <2>9. UndoneOnce
    BY <2>3, <2>4, <2>6 DEF UndoneOnce, is_at, running
  <2> QED
    BY Zenon, <2>7, <2>8, <2>9 DEF Stacks
<1>4. Counters
  <2>1. 0 \in 0 .. MaxWebhooks /\ 0 \in 0 .. MaxInterruptions
    BY BoundsAssumption
  <2> QED
    BY <2>1, Zenon DEF Init, Counters
<1> QED
  BY Zenon, <1>1, <1>2, <1>3, <1>4 DEF WInv

\* Whatever a running task does next.
LEMMA SteppingKeeps == ASSUME WInv, NEW t \in Tasks, Stepping(t) PROVE Keeps
BY AdvanceKeeps, RunForwardStepKeeps, FinishAdvanceKeeps, ClaimRequestKeeps, SettleRequestKeeps,
   ReadRequestKeeps, OnRequestTerminalKeeps, SettleForwardStepKeeps, ContinueCompensationKeeps,
   CompensateStepKeeps, SettleCompensationKeeps, EnforceDeadlineKeeps, ZenonT(60)
   DEF Stepping

\* Every step of the orchestrator.
LEMMA NextKeeps == ASSUME WInv, [Next]_vars PROVE Keeps
<1>1. CASE \E t \in Tasks : Stepping(t)
  BY <1>1, SteppingKeeps, Zenon
<1>2. CASE \E t \in Tasks : Starting(t)
  BY <1>2, CancelKeeps, ClaimRunnableKeeps, ApplyWebhookKeeps, ZenonT(60) DEF Starting
<1>3. CASE \E t \in Tasks : Crash(t)
  BY <1>3, CrashKeeps, Zenon
<1>4. CASE Surroundings
  BY <1>4, QuietlyKeeps, DeadlinePassesKeeps, Zenon DEF Surroundings
<1>5. CASE UNCHANGED vars
  BY <1>5, StutterKeeps, Zenon
<1> QED
  BY <1>1, <1>2, <1>3, <1>4, <1>5, Zenon DEF Next

(***************************************************************************)
(* Whatever the tasks, the providers, the deadline and crashes do, the     *)
(* execution, its requests and the frames of the tasks fit together.       *)
(***************************************************************************)
THEOREM WorkflowInvariant == Spec => []WInv
<1>1. WInv /\ [Next]_vars => WInv'
  BY NextKeeps, Zenon DEF Keeps
<1> QED
  BY InitInvariant, <1>1, PTL DEF Spec

\* Every variable of the orchestrator keeps its type.
THEOREM WorkflowTypeCorrect == Spec => []TypeOK
<1>1. WInv => TypeOK
  <2> SUFFICES ASSUME WInv PROVE TypeOK
    OBVIOUS
  <2>1. execution \in Execution
    <3>1. execution \in Rows
      BY DEF WInv, EInv
    <3>2. \A s \in Steps : execution.steps[s].completed_at \in 0 .. Cardinality(Steps)
      <4>1. /\ Cardinality(Ranked(execution)) \in Nat
            /\ Cardinality(Steps) \in Nat
            /\ Cardinality(Ranked(execution)) <= Cardinality(Steps)
        <5>1. Ranked(execution) \in SUBSET Steps
          BY DEF Ranked
        <5>2. IsFiniteSet(Ranked(execution))
          BY <5>1, StepsAssumption, FS_Subset
        <5> QED
          BY Zenon, <5>1, <5>2, StepsAssumption, FS_Subset, FS_CardinalityType
      <4>2. \A s \in Steps : execution.steps[s].completed_at \in Nat
        BY ZenonT(30), <3>1 DEF Rows, StepRow
      <4>3. \A s \in Steps : execution.steps[s].completed_at <= Cardinality(Ranked(execution))
        BY DEF WInv, EInv, RanksFit
      <4> QED
        BY <4>1, <4>2, <4>3
    <3>3. \A s \in Steps : execution.steps[s] \in StepExecution
      BY <3>1, <3>2 DEF Rows, StepRow, StepExecution
    <3>4. execution.steps \in [Steps -> StepExecution]
      BY <3>1, <3>3 DEF Rows
    <3>5. Reached \subseteq WorkflowStatus
      BY Zenon DEF Reached, WorkflowStatus
    <3> QED
      BY <3>1, <3>4, <3>5 DEF Rows, Execution
  <2>2. created \in [Requests -> Nat] /\ request \in [Requests -> RequestStatus \union {Absent}]
    BY DEF WInv, RInv
  <2>3. \A t \in Tasks : \A i \in DOMAIN stack[t] : stack[t][i] \in Frame
    BY Zenon DEF WInv, Stacks, FramesFit, FrameFits
  <2> QED
    BY <2>1, <2>2, <2>3 DEF WInv, Counters, TypeOK
<1> QED
  BY <1>1, WorkflowInvariant, PTL

(***************************************************************************)
(* A step calls its provider through one request and is compensated        *)
(* through one, whatever leases lapse, retries and crashes.                *)
(***************************************************************************)
THEOREM WorkflowCreatesOnce == Spec => []OneRequestPerStep
<1>1. WInv => OneRequestPerStep
  <2>1. WInv => created \in [Requests -> 0 .. 1]
    BY Zenon DEF WInv, RInv
  <2> QED
    BY <2>1 DEF OneRequestPerStep
<1> QED
  BY <1>1, WorkflowInvariant, PTL

\* _refresh_execution_status reports success only over steps that all stand.
THEOREM WorkflowSuccessIsWhole == Spec => []SuccessIsWhole
<1>1. WInv => SuccessIsWhole
  <2> SUFFICES ASSUME WInv, execution.status = "succeeded", NEW s \in Steps
               PROVE  request[Forward(s)] = "succeeded" /\ request[Undo(s)] = Absent
    BY Zenon DEF SuccessIsWhole
  <2>1. execution.steps[s].status = "succeeded"
    BY Zenon DEF WInv, EInv, StatusFits
  <2> QED
    BY <2>1 DEF WInv, RInv, Fresh
<1> QED
  BY <1>1, WorkflowInvariant, PTL

\* _compensate_step sends an undo only for what its provider confirmed as done.
THEOREM WorkflowUndoesWhatWasDone == Spec => []OnlyDoneIsUndone
<1>1. WInv => OnlyDoneIsUndone
  BY Zenon DEF WInv, RInv, OnlyDoneIsUndone
<1> QED
  BY <1>1, WorkflowInvariant, PTL

\* cancel() records an intent that no later transition forgets.
THEOREM WorkflowHonoursCancellation == Spec => []CancellationIsHonoured
<1>1. WInv => CancellationIsHonoured
  BY Zenon DEF WInv, EInv, StatusFits, CancellationIsHonoured, WORKFLOW_TERMINAL
<1> QED
  BY <1>1, WorkflowInvariant, PTL

(***************************************************************************)
(* A cancelled or compensated execution has no step left that stands, runs *)
(* or is about to, and a compensated one none still being undone.          *)
(***************************************************************************)
THEOREM WorkflowEndsUnwound == Spec => []EndedMeansUnwound
<1>1. WInv => EndedMeansUnwound
  BY DEF WInv, EInv, StatusFits, EndedMeansUnwound, in_status
<1> QED
  BY <1>1, WorkflowInvariant, PTL

\* _run_forward_step creates a request only where the dependencies stand.
THEOREM WorkflowStartsOnSolidGround == Spec => StepsStartOnSolidGround
<1>1. WInv /\ [Next]_vars => GoodStart
  BY NextKeeps, Zenon DEF Keeps
<1>2. Spec => [][GoodStart]_vars
  BY <1>1, WorkflowInvariant, PTL DEF Spec
<1> QED
  BY <1>2 DEF StepsStartOnSolidGround, GoodStart

\* _continue_compensation undoes no step while one built on it still counts as succeeded.
THEOREM WorkflowUnwindsInReverse == Spec => UnwindsInReverse
<1>1. WInv /\ [Next]_vars => GoodUnwind
  BY NextKeeps, Zenon DEF Keeps
<1>2. Spec => [][GoodUnwind]_vars
  BY <1>1, WorkflowInvariant, PTL DEF Spec
<1> QED
  BY <1>2 DEF UnwindsInReverse, GoodUnwind

=============================================================================
