--------------------------- MODULE OutboxPublisher ---------------------------
(***************************************************************************)
(* The transactional outbox: publisher replicas                            *)
(* (workers/outbox_publisher.py) claim batches of rows under a lease       *)
(* (SqlOutboxRepository in infrastructure/db/repositories.py), hand them   *)
(* to Kafka outside any transaction (infrastructure/messaging/kafka.py)    *)
(* and record the outcome in a second transaction.                         *)
(*                                                                         *)
(* Events are numbered by created_at; they may commit in another order.    *)
(* Of next_attempt_at the model keeps whether it has passed; a publisher   *)
(* may be slower than its lease.                                           *)
(* Each transaction is one step, so SKIP LOCKED has no locked row to skip. *)
(***************************************************************************)
EXTENDS Integers, FiniteSets

CONSTANTS
  Events,      \* numbers of the events, by created_at
  Publishers,  \* publisher replicas
  BatchSize,   \* outbox_batch_size
  MaxAttempts, \* outbox_max_attempts
  Unsendable,  \* events for which producer.send itself raises, every time
  MaxFaults    \* bound: crashes, transient exceptions of a batch and redrives, together

ASSUME EventsAssumption == Events \subseteq Nat /\ Unsendable \subseteq Events
ASSUME SettingsAssumption == BatchSize \in Nat \ {0} /\ MaxAttempts \in Nat \ {0}
ASSUME BoundsAssumption == MaxFaults \in Nat

VARIABLES
  outbox,    \* the rows of outbox_events
  worker,    \* each publisher's run_once: its phase and its local variables
  delivered, \* the events the broker has stored, as consumers see them
  faults,    \* faults and redrives so far
  overrun    \* history: some lease ran out while its publisher was at work

vars == <<outbox, worker, delivered, faults, overrun>>

\* due: next_attempt_at is null or has passed; kept only while a claim can read it.
OutboxEvent == [stored : {"not_yet", "stored", "purged"}, published : BOOLEAN,
                dead_lettered : BOOLEAN, attempt_count : Nat, due : BOOLEAN]

absent(stored) == [stored |-> stored, published |-> FALSE, dead_lettered |-> FALSE,
                   attempt_count |-> 0, due |-> TRUE]

(***************************************************************************)
(* events: the claimed batch; seen: the attempt counts read with it; todo: *)
(* those still to be published one by one; published: acknowledged ones.   *)
(***************************************************************************)
Phase == {"idle", "claimed", "one_by_one", "settling"}

Worker == [phase : Phase, events : SUBSET Events, seen : [Events -> Nat],
           todo : SUBSET Events, published : SUBSET Events]

idle == [phase |-> "idle", events |-> {}, seen |-> [e \in Events |-> 0],
         todo |-> {}, published |-> {}]

Init ==
  /\ outbox = [e \in Events |-> absent("not_yet")]
  /\ worker = [p \in Publishers |-> idle]
  /\ delivered = {}
  /\ faults = 0
  /\ overrun = FALSE

-----------------------------------------------------------------------------
(***************************************************************************)
(* The rows.  An UPDATE of a row that was purged changes nothing.          *)
(***************************************************************************)

\* The transaction of a state change commits with its event.
Stage(e) ==
  /\ outbox[e].stored = "not_yet"
  /\ outbox' = [outbox EXCEPT ![e].stored = "stored"]
  /\ UNCHANGED <<worker, delivered, faults, overrun>>

claimable ==
  {e \in Events : /\ outbox[e].stored = "stored"
                  /\ ~ outbox[e].published
                  /\ ~ outbox[e].dead_lettered
                  /\ outbox[e].due}

oldest(S) == {e \in S : Cardinality({f \in S : f < e}) < BatchSize}

\* Fault: the claim does not lease its rows.
leased_unmarked(E) == outbox

leased(E) == [e \in Events |-> IF e \in E THEN [outbox[e] EXCEPT !.due = FALSE] ELSE outbox[e]]

\* The code only asks whether a count has reached MaxAttempts: larger ones are not told apart.
counted(attempt_count) == IF attempt_count < MaxAttempts THEN attempt_count + 1 ELSE attempt_count

mark_published(r) == [r EXCEPT !.published = TRUE, !.due = TRUE]

\* Fault: the failure is not counted.
mark_failed_uncounted(r) == [r EXCEPT !.due = r.published \/ r.dead_lettered]

mark_failed(r) ==
  [r EXCEPT !.attempt_count = counted(@), !.due = r.published \/ r.dead_lettered]

mark_dead_lettered(r) ==
  [r EXCEPT !.attempt_count = counted(@), !.due = TRUE, !.dead_lettered = TRUE]

\* Fault: one attempt too few.
exhausted_early(attempt_count) == attempt_count + 2 >= MaxAttempts

exhausted(attempt_count) == attempt_count + 1 >= MaxAttempts

\* The second transaction of run_once, with the attempt counts of the first.
settled(p, e) ==
  LET r == outbox[e]
      held == r.stored = "stored" /\ e \in worker[p].events
      acknowledged == e \in worker[p].published
      last == exhausted(worker[p].seen[e])
  IN  CASE ~ held                              -> r
        [] held /\ acknowledged                -> mark_published(r)
        [] held /\ ~ acknowledged /\ last     -> mark_dead_lettered(r)
        [] held /\ ~ acknowledged /\ ~ last   -> mark_failed(r)

-----------------------------------------------------------------------------
(***************************************************************************)
(* run_once.                                                               *)
(***************************************************************************)
Claim(p) ==
  LET batch == oldest(claimable) IN
  /\ worker[p].phase = "idle"
  /\ batch # {}
  /\ worker' = [worker EXCEPT ![p] =
       [idle EXCEPT !.phase = "claimed", !.events = batch,
                    !.seen = [e \in Events |-> IF e \in batch THEN outbox[e].attempt_count ELSE 0]]]
  /\ outbox' = leased(batch)
  /\ UNCHANGED <<delivered, faults, overrun>>

purgeable == {e \in Events : outbox[e].stored = "stored" /\ outbox[e].published}

(***************************************************************************)
(* An empty poll, then _maybe_purge: any of the published rows may be      *)
(* older than the retention.  The first transaction changes nothing and    *)
(* the second depends on published rows only, so the two are one step.     *)
(***************************************************************************)
PollEmpty(p) ==
  /\ worker[p].phase = "idle"
  /\ claimable = {}
  /\ \E old \in SUBSET purgeable :
       outbox' = [e \in Events |-> IF e \in old THEN absent("purged") ELSE outbox[e]]
  /\ UNCHANGED <<worker, delivered, faults, overrun>>

\* Every event of the batch is acknowledged.
PublishBatch(p) ==
  /\ worker[p].phase = "claimed"
  /\ worker[p].events \intersect Unsendable = {}
  /\ delivered' = delivered \union worker[p].events
  /\ worker' = [worker EXCEPT ![p].phase = "settling", ![p].published = worker[p].events]
  /\ UNCHANGED <<outbox, faults, overrun>>

\* An acknowledgement failed (EventPublicationError); other events may be stored all the same.
BatchFails(p) ==
  /\ worker[p].phase = "claimed"
  /\ worker[p].events \intersect Unsendable = {}
  /\ \E kept \in SUBSET worker[p].events : delivered' = delivered \union kept
  /\ worker' = [worker EXCEPT ![p].phase = "one_by_one", ![p].todo = worker[p].events]
  /\ UNCHANGED <<outbox, faults, overrun>>

(***************************************************************************)
(* producer.send raises for an event of the batch: outside the try of      *)
(* publish_batch, so not an EventPublicationError.  run_once ends, the     *)
(* worker loop logs the exception, the events sent before may be stored.   *)
(***************************************************************************)
SendRaises(p) ==
  /\ worker[p].phase = "claimed"
  /\ \E e \in worker[p].events :
       LET before == {f \in worker[p].events : f < e} IN
       /\ before \intersect Unsendable = {}
       /\ e \in Unsendable \/ faults < MaxFaults
       /\ faults' = IF e \in Unsendable THEN faults ELSE faults + 1
       /\ \E kept \in SUBSET before : delivered' = delivered \union kept
  /\ worker' = [worker EXCEPT ![p] = idle]
  /\ UNCHANGED <<outbox, overrun>>

after_one(p, e) ==
  LET todo == worker[p].todo \ {e}
  IN  [worker[p] EXCEPT !.todo = todo,
                        !.phase = IF todo = {} THEN "settling" ELSE "one_by_one"]

next_of(p) == {e \in worker[p].todo : \A f \in worker[p].todo : e <= f}

PublishOne(p) ==
  /\ worker[p].phase = "one_by_one"
  /\ \E e \in next_of(p) :
       /\ delivered' = delivered \union {e}
       /\ worker' = [worker EXCEPT ![p] = [after_one(p, e) EXCEPT !.published = @ \union {e}]]
  /\ UNCHANGED <<outbox, faults, overrun>>

\* Fault: a failed event is counted as published.
OneFails_swallowed(p) ==
  /\ worker[p].phase = "one_by_one"
  /\ \E e \in next_of(p) :
       worker' = [worker EXCEPT ![p] = [after_one(p, e) EXCEPT !.published = @ \union {e}]]
  /\ UNCHANGED <<outbox, delivered, faults, overrun>>

\* EventPublicationError; the broker may have stored the event before the answer was lost.
OneFails(p) ==
  /\ worker[p].phase = "one_by_one"
  /\ \E e \in next_of(p) :
       /\ delivered' \in {delivered, delivered \union {e}}
       /\ worker' = [worker EXCEPT ![p] = after_one(p, e)]
  /\ UNCHANGED <<outbox, faults, overrun>>

Settle(p) ==
  /\ worker[p].phase = "settling"
  /\ outbox' = [e \in Events |-> settled(p, e)]
  /\ worker' = [worker EXCEPT ![p] = idle]
  /\ UNCHANGED <<delivered, faults, overrun>>

\* The process dies, or the second transaction fails and rolls back.
Crash(p) ==
  /\ worker[p].phase # "idle"
  /\ faults < MaxFaults
  /\ faults' = faults + 1
  /\ worker' = [worker EXCEPT ![p] = idle]
  /\ UNCHANGED <<outbox, delivered, overrun>>

\* next_attempt_at passes: the end of a lease or of a backoff.
Lapse(e) ==
  /\ ~ outbox[e].due
  /\ outbox' = [outbox EXCEPT ![e].due = TRUE]
  /\ overrun' = (overrun \/ \E p \in Publishers : e \in worker[p].events)
  /\ UNCHANGED <<worker, delivered, faults>>

\* The operator's outbox-redrive command.
redrive_dead_lettered(e) ==
  /\ outbox[e].stored = "stored" /\ outbox[e].dead_lettered /\ ~ outbox[e].published
  /\ faults < MaxFaults
  /\ faults' = faults + 1
  /\ outbox' = [outbox EXCEPT ![e].dead_lettered = FALSE, ![e].due = TRUE]
  /\ UNCHANGED <<worker, delivered, overrun>>

run_once(p) ==
  \/ Claim(p) \/ PollEmpty(p)
  \/ PublishBatch(p) \/ BatchFails(p) \/ SendRaises(p)
  \/ PublishOne(p) \/ OneFails(p) \/ Settle(p)

Next ==
  \/ \E p \in Publishers : run_once(p) \/ Crash(p)
  \/ \E e \in Events : Stage(e) \/ Lapse(e) \/ redrive_dead_lettered(e)

Spec == Init /\ [][Next]_vars

\* The worker loop polls for ever, after an exception too, and time passes.
FairSpec ==
  /\ Spec
  /\ \A p \in Publishers : WF_vars(run_once(p))
  /\ \A e \in Events : WF_vars(Lapse(e))

-----------------------------------------------------------------------------
(***************************************************************************)
(* Properties.                                                             *)
(***************************************************************************)

\* Every variable keeps its type.
TypeOK ==
  /\ outbox \in [Events -> OutboxEvent]
  /\ worker \in [Publishers -> Worker]
  /\ delivered \subseteq Events
  /\ faults \in 0 .. MaxFaults
  /\ overrun \in BOOLEAN

(***************************************************************************)
(* ADR 0002: downstream systems "never permanently miss" a change that     *)
(* committed, and "never observe a state change that did not commit".  An  *)
(* event is marked published, or purged, only once the broker stored it,   *)
(* and only committed events are delivered.                                *)
(***************************************************************************)
NothingIsLost ==
  \A e \in Events :
    /\ outbox[e].published \/ outbox[e].stored = "purged" => e \in delivered
    /\ e \in delivered => outbox[e].stored # "not_yet"

(***************************************************************************)
(* An event is given up only after outbox_max_attempts counted failures,   *)
(* although the decision uses the count read at the claim and replicas     *)
(* that outlived their leases count failures of the same event.            *)
(***************************************************************************)
DeadLettersAreExhausted ==
  \A e \in Events : outbox[e].dead_lettered => outbox[e].attempt_count >= MaxAttempts

(***************************************************************************)
(* outbox_publisher.py: "Claimed rows carry a short lease so concurrent    *)
(* publisher replicas do not both publish the same unpublished batch under *)
(* normal concurrency".  While no publisher outlives a lease, no event is  *)
(* in two batches, and none is both published and dead-lettered.           *)
(***************************************************************************)
LeasesExclude ==
  ~ overrun =>
    /\ \A p, q \in Publishers : p # q => worker[p].events \intersect worker[q].events = {}
    /\ \A e \in Events : ~ (outbox[e].published /\ outbox[e].dead_lettered)

(***************************************************************************)
(* test_workers.py: "One poisoned event must not stall every other event   *)
(* in the batch."  Every committed event is published or dead-lettered in  *)
(* the end, also when the broker refuses the acknowledgement of another    *)
(* event of its batch every time, and whatever crashes, lost answers and   *)
(* overruns.  Excepted are the events for which producer.send itself       *)
(* raises: no attempt of theirs is counted.                                *)
(***************************************************************************)
EventsSettle ==
  \A e \in Events \ Unsendable :
    outbox[e].stored = "stored" ~> (outbox[e].published \/ outbox[e].dead_lettered)
=============================================================================
