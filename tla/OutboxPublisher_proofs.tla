------------------------ MODULE OutboxPublisher_proofs ------------------------
(***************************************************************************)
(* Proofs about OutboxPublisher, for any events, replicas, batch size and  *)
(* number of attempts.                                                     *)
(***************************************************************************)
EXTENDS OutboxPublisher, TLAPS

\* What a row says is true of the broker and of the failures counted.
RowOK(e) ==
  /\ outbox[e].published \/ outbox[e].dead_lettered => outbox[e].stored = "stored"
  /\ outbox[e].published \/ outbox[e].stored = "purged" => e \in delivered
  /\ e \in delivered => outbox[e].stored # "not_yet"
  /\ outbox[e].dead_lettered => outbox[e].attempt_count >= MaxAttempts

\* A batch holds committed events; its acknowledged ones reached the broker; its counts are old.
BatchOK(p) ==
  /\ worker[p].phase = "idle" => worker[p].events = {}
  /\ worker[p].todo \subseteq worker[p].events
  /\ worker[p].published \subseteq delivered
  /\ \A e \in worker[p].events :
       /\ outbox[e].stored # "not_yet"
       /\ outbox[e].stored = "stored" => worker[p].seen[e] <= outbox[e].attempt_count

\* Under unexpired leases a claimed row is live, leased and in one batch.
LeaseOK ==
  /\ \A p \in Publishers, e \in Events : e \in worker[p].events =>
       /\ outbox[e].stored = "stored"
       /\ ~ outbox[e].due
       /\ ~ outbox[e].published
       /\ ~ outbox[e].dead_lettered
  /\ \A p, q \in Publishers : p # q => worker[p].events \intersect worker[q].events = {}
  /\ \A e \in Events : ~ (outbox[e].published /\ outbox[e].dead_lettered)

OInv ==
  /\ TypeOK
  /\ \A e \in Events : RowOK(e)
  /\ \A p \in Publishers : BatchOK(p)

LInv == ~ overrun => LeaseOK

-----------------------------------------------------------------------------
\* The record a worker has between two batches.
LEMMA IdleType ==
  /\ idle \in Worker
  /\ idle.phase = "idle" /\ idle.events = {} /\ idle.todo = {} /\ idle.published = {}
  BY DEF idle, Worker, Phase

\* A row that is not there.
LEMMA AbsentType ==
  ASSUME NEW s \in {"not_yet", "purged"}
  PROVE  /\ absent(s) \in OutboxEvent
         /\ absent(s).stored = s
         /\ absent(s).published = FALSE
         /\ absent(s).dead_lettered = FALSE
         /\ absent(s).attempt_count = 0
         /\ absent(s).due = TRUE
  BY DEF absent, OutboxEvent

\* A claim takes claimable rows only.
LEMMA OldestClaimable == oldest(claimable) \subseteq claimable /\ claimable \subseteq Events
  BY DEF oldest, claimable

\* What the three updates of the second transaction do to a row.
LEMMA Marks ==
  ASSUME NEW r \in OutboxEvent
  PROVE  /\ LET x == mark_published(r) IN
            /\ x \in OutboxEvent /\ x.published = TRUE /\ x.stored = r.stored
            /\ x.dead_lettered = r.dead_lettered /\ x.attempt_count = r.attempt_count
         /\ LET x == mark_failed(r) IN
            /\ x \in OutboxEvent /\ x.published = r.published /\ x.stored = r.stored
            /\ x.dead_lettered = r.dead_lettered /\ x.attempt_count = counted(r.attempt_count)
         /\ LET x == mark_dead_lettered(r) IN
            /\ x \in OutboxEvent /\ x.published = r.published /\ x.stored = r.stored
            /\ x.dead_lettered = TRUE /\ x.attempt_count = counted(r.attempt_count)
<1>1. r.attempt_count \in Nat /\ counted(r.attempt_count) \in Nat
  BY DEF OutboxEvent, counted
<1>2. (r.published \/ r.dead_lettered) \in BOOLEAN
  OBVIOUS
<1>3. LET x == mark_published(r) IN
        /\ x \in OutboxEvent /\ x.published = TRUE /\ x.stored = r.stored
        /\ x.dead_lettered = r.dead_lettered /\ x.attempt_count = r.attempt_count
  BY Zenon DEF OutboxEvent, mark_published
<1>4. LET x == mark_failed(r) IN
        /\ x \in OutboxEvent /\ x.published = r.published /\ x.stored = r.stored
        /\ x.dead_lettered = r.dead_lettered /\ x.attempt_count = counted(r.attempt_count)
  BY Zenon, <1>1, <1>2 DEF OutboxEvent, mark_failed
<1>5. LET x == mark_dead_lettered(r) IN
        /\ x \in OutboxEvent /\ x.published = r.published /\ x.stored = r.stored
        /\ x.dead_lettered = TRUE /\ x.attempt_count = counted(r.attempt_count)
  BY Zenon, <1>1 DEF OutboxEvent, mark_dead_lettered
<1> QED
  BY <1>3, <1>4, <1>5

(***************************************************************************)
(* The second transaction, row by row: rows outside the batch stay, a row  *)
(* gets published only if it was acknowledged, and dead-lettered only with *)
(* enough failures.                                                        *)
(***************************************************************************)
LEMMA SettledRow ==
  ASSUME OInv, NEW p \in Publishers, NEW e \in Events
  PROVE  LET x == settled(p, e) IN
         /\ x \in OutboxEvent
         /\ x.stored = outbox[e].stored
         /\ x.attempt_count >= outbox[e].attempt_count
         /\ e \notin worker[p].events => x = outbox[e]
         /\ outbox[e].stored # "stored" => x = outbox[e]
         /\ x.published => outbox[e].published \/ (e \in worker[p].published /\ e \in worker[p].events)
         /\ x.dead_lettered => x.attempt_count >= MaxAttempts
         /\ x.published /\ x.dead_lettered => outbox[e].published \/ outbox[e].dead_lettered
<1> DEFINE r == outbox[e]
           x == settled(p, e)
           w == worker[p]
<1> SUFFICES /\ x \in OutboxEvent
             /\ x.stored = r.stored
             /\ x.attempt_count >= r.attempt_count
             /\ e \notin w.events => x = r
             /\ r.stored # "stored" => x = r
             /\ x.published => r.published \/ (e \in w.published /\ e \in w.events)
             /\ x.dead_lettered => x.attempt_count >= MaxAttempts
             /\ x.published /\ x.dead_lettered => r.published \/ r.dead_lettered
  OBVIOUS
<1>1. r \in OutboxEvent /\ r.attempt_count \in Nat /\ w.seen[e] \in Nat
  BY DEF OInv, TypeOK, OutboxEvent, Worker
<1>2. r.dead_lettered => r.attempt_count >= MaxAttempts
  BY DEF OInv, RowOK
<1>3. r.stored = "stored" /\ e \in w.events => w.seen[e] <= r.attempt_count
  BY DEF OInv, BatchOK
<1>4. r.stored # "stored" \/ e \notin w.events => x = r
  BY DEF settled
<1>5. r.stored = "stored" /\ e \in w.events /\ e \in w.published => x = mark_published(r)
  BY DEF settled
<1>6. r.stored = "stored" /\ e \in w.events /\ e \notin w.published =>
        x = IF exhausted(w.seen[e]) THEN mark_dead_lettered(r) ELSE mark_failed(r)
  BY DEF settled
<1> HIDE DEF r, x, w
<1>7. CASE r.stored # "stored" \/ e \notin w.events
  BY <1>1, <1>2, <1>4, <1>7
<1>8. CASE r.stored = "stored" /\ e \in w.events /\ e \in w.published
  <2>1. /\ x \in OutboxEvent /\ x.published = TRUE /\ x.stored = r.stored
        /\ x.dead_lettered = r.dead_lettered /\ x.attempt_count = r.attempt_count
    BY ZenonT(40), <1>1, <1>5, <1>8, Marks
  <2> QED
    BY <1>1, <1>2, <1>8, <2>1
<1>9. CASE r.stored = "stored" /\ e \in w.events /\ e \notin w.published
  <2>1. /\ x \in OutboxEvent /\ x.published = r.published /\ x.stored = r.stored
        /\ x.attempt_count = counted(r.attempt_count)
        /\ x.dead_lettered => r.dead_lettered \/ exhausted(w.seen[e])
    BY ZenonT(40), <1>1, <1>6, <1>9, Marks
  <2>2. /\ x.attempt_count >= r.attempt_count
        /\ x.dead_lettered => x.attempt_count >= MaxAttempts
    BY <1>1, <1>2, <1>3, <1>9, <2>1, SettingsAssumption DEF exhausted, counted
  <2> QED
    BY <1>9, <2>1, <2>2
<1> QED
  BY <1>7, <1>8, <1>9

-----------------------------------------------------------------------------
\* The initial state satisfies both invariants.
LEMMA InitOInv == Init => OInv /\ LInv
<1> SUFFICES ASSUME Init PROVE OInv /\ LInv
  OBVIOUS
<1>1. \A e \in Events : outbox[e] = absent("not_yet")
  BY DEF Init
<1>2. \A p \in Publishers : worker[p] = idle
  BY DEF Init
<1>3. TypeOK
  <2>1. outbox \in [Events -> OutboxEvent]
    BY AbsentType DEF Init
  <2>2. worker \in [Publishers -> Worker]
    BY IdleType DEF Init
  <2>3. faults \in 0 .. MaxFaults
    BY BoundsAssumption DEF Init
  <2> QED
    BY Zenon, <2>1, <2>2, <2>3 DEF Init, TypeOK
<1>4. \A e \in Events : RowOK(e) /\ ~ outbox[e].published
  BY Zenon, <1>1, AbsentType DEF RowOK, Init
<1>5. \A p \in Publishers : BatchOK(p) /\ worker[p].events = {}
  BY <1>2, IdleType DEF BatchOK
<1> QED
  BY <1>3, <1>4, <1>5 DEF OInv, LInv, LeaseOK

\* A step that leaves the rows alone and grows delivered by committed events.
LEMMA WorkerStep ==
  ASSUME OInv, NEW p \in Publishers, NEW w \in Worker,
         outbox' = outbox, worker' = [worker EXCEPT ![p] = w],
         overrun' = overrun, faults' \in 0 .. MaxFaults,
         NEW kept \in SUBSET worker[p].events, delivered' = delivered \union kept,
         w.phase = "idle" => w.events = {},
         w.events = {} \/ w.events = worker[p].events,
         w.seen = worker[p].seen \/ w.events = {},
         w.todo \subseteq w.events,
         w.published \subseteq delivered \union kept
  PROVE  OInv' /\ (LInv => LInv')
<1>1. worker \in [Publishers -> Worker] /\ worker[p].events \subseteq Events
  BY DEF OInv, TypeOK, Worker
<1>2. /\ worker'[p] = w
      /\ \A q \in Publishers \ {p} : worker'[q] = worker[q]
  BY <1>1
<1>3. TypeOK'
  BY <1>1 DEF OInv, TypeOK
<1>4. ASSUME NEW e \in Events
      PROVE  RowOK(e)'
  BY DEF OInv, RowOK, BatchOK
<1>5. ASSUME NEW q \in Publishers
      PROVE  BatchOK(q)'
  <2>1. CASE q = p
    BY <1>2, <2>1 DEF OInv, BatchOK
  <2>2. CASE q # p
    BY <1>2, <2>2 DEF OInv, BatchOK
  <2> QED
    BY <2>1, <2>2
<1>6. ASSUME LInv
      PROVE  LInv'
  <2>1. \A q \in Publishers : worker'[q].events \subseteq worker[q].events
    BY <1>2
  <2> QED
    BY <1>6, <2>1 DEF LInv, LeaseOK
<1> QED
  BY <1>3, <1>4, <1>5, <1>6 DEF OInv

\* Every step of run_once that talks to the broker, and a crash, is such a step.
LEMMA BrokerStep ==
  ASSUME OInv, NEW p \in Publishers,
         \/ PublishBatch(p) \/ BatchFails(p) \/ SendRaises(p)
         \/ PublishOne(p) \/ OneFails(p) \/ Crash(p)
  PROVE  OInv' /\ (LInv => LInv')
<1>0. /\ worker \in [Publishers -> Worker]
      /\ worker[p] \in Worker
      /\ worker[p].events \subseteq Events
      /\ worker[p].todo \subseteq worker[p].events
      /\ worker[p].published \subseteq delivered
      /\ faults \in 0 .. MaxFaults
      /\ MaxFaults \in Nat
  BY BoundsAssumption DEF OInv, TypeOK, BatchOK, Worker
<1>1. CASE PublishBatch(p)
  <2> DEFINE w == [worker[p] EXCEPT !.phase = "settling", !.published = worker[p].events]
  <2>1. worker' = [worker EXCEPT ![p] = w]
    BY Zenon, <1>0, <1>1 DEF PublishBatch
  <2>2. /\ w \in Worker /\ w.phase = "settling" /\ w.events = worker[p].events
        /\ w.seen = worker[p].seen /\ w.todo = worker[p].todo
        /\ w.published = worker[p].events
    BY Zenon, <1>0 DEF Worker, Phase
  <2>3. /\ delivered' = delivered \union worker[p].events
        /\ UNCHANGED <<outbox, faults, overrun>>
    BY <1>1 DEF PublishBatch
  <2> HIDE DEF w
  <2> QED
    BY Zenon, <1>0, <2>1, <2>2, <2>3, WorkerStep
<1>2. CASE BatchFails(p)
  <2> DEFINE w == [worker[p] EXCEPT !.phase = "one_by_one", !.todo = worker[p].events]
  <2>1. worker' = [worker EXCEPT ![p] = w]
    BY Zenon, <1>0, <1>2 DEF BatchFails
  <2>2. /\ w \in Worker /\ w.phase = "one_by_one" /\ w.events = worker[p].events
        /\ w.seen = worker[p].seen /\ w.todo = worker[p].events
        /\ w.published = worker[p].published
    BY Zenon, <1>0 DEF Worker, Phase
  <2>3. /\ \E kept \in SUBSET worker[p].events : delivered' = delivered \union kept
        /\ UNCHANGED <<outbox, faults, overrun>>
    BY <1>2 DEF BatchFails
  <2> HIDE DEF w
  <2> QED
    BY Zenon, <1>0, <2>1, <2>2, <2>3, WorkerStep
<1>3. CASE SendRaises(p)
  <2>1. /\ \E kept \in SUBSET worker[p].events : delivered' = delivered \union kept
        /\ faults' \in 0 .. MaxFaults
    <3>1. PICK e \in worker[p].events :
            /\ e \in Unsendable \/ faults < MaxFaults
            /\ faults' = IF e \in Unsendable THEN faults ELSE faults + 1
            /\ \E kept \in SUBSET {f \in worker[p].events : f < e} :
                 delivered' = delivered \union kept
      BY <1>3, Zenon DEF SendRaises
    <3>2. \E kept \in SUBSET worker[p].events : delivered' = delivered \union kept
      BY <3>1, Zenon
    <3>3. faults' \in 0 .. MaxFaults
      BY <1>0, <3>1
    <3> QED
      BY <3>2, <3>3, Zenon
  <2>2. worker' = [worker EXCEPT ![p] = idle] /\ UNCHANGED <<outbox, overrun>>
    BY <1>3 DEF SendRaises
  <2> QED
    BY Zenon, <2>1, <2>2, IdleType, WorkerStep
<1>4. CASE PublishOne(p) \/ OneFails(p)
  <2>1. PICK e \in worker[p].todo :
          /\ delivered' \in {delivered, delivered \union {e}}
          /\ \/ worker' = [worker EXCEPT ![p] = after_one(p, e)]
             \/ /\ delivered' = delivered \union {e}
                /\ worker' = [worker EXCEPT ![p] =
                                [after_one(p, e) EXCEPT !.published = @ \union {e}]]
    BY <1>4 DEF PublishOne, OneFails, next_of
  <2>2. UNCHANGED <<outbox, faults, overrun>>
    BY <1>4 DEF PublishOne, OneFails
  <2> DEFINE w == after_one(p, e)
             v == [w EXCEPT !.published = @ \union {e}]
  <2>3. /\ w \in Worker /\ w.phase # "idle" /\ w.events = worker[p].events
        /\ w.seen = worker[p].seen /\ w.todo \subseteq worker[p].events
        /\ w.published = worker[p].published
    BY Zenon, <1>0 DEF after_one, Worker, Phase
  <2>4. w.published \union {e} \in SUBSET Events
    BY <1>0, <2>1, <2>3 DEF Worker
  <2>5. /\ v \in Worker /\ v.phase # "idle" /\ v.events = worker[p].events
        /\ v.seen = worker[p].seen /\ v.todo \subseteq worker[p].events
        /\ v.published = worker[p].published \union {e}
    <3> HIDE DEF w
    <3> QED
      BY <2>3, <2>4 DEF Worker
  <2>6. e \in worker[p].events
    BY <1>0, <2>1
  <2>7. PICK kept \in SUBSET worker[p].events :
          /\ delivered' = delivered \union kept
          /\ kept = {e} \/ delivered' = delivered
    <3>1. CASE delivered' = delivered
      BY Zenon, <3>1, {} \in SUBSET worker[p].events
    <3>2. CASE delivered' = delivered \union {e}
      BY Zenon, <3>2, <2>6
    <3> QED
      BY <2>1, <3>1, <3>2
  <2>8. CASE worker' = [worker EXCEPT ![p] = w]
    <3> HIDE DEF w
    <3> QED
      BY Zenon, <1>0, <2>2, <2>3, <2>7, <2>8, WorkerStep
  <2>9. CASE /\ delivered' = delivered \union {e}
             /\ worker' = [worker EXCEPT ![p] = v]
    <3> HIDE DEF v
    <3>1. v.published \subseteq delivered \union {e}
      BY <1>0, <2>5
    <3> QED
      BY Zenon, <1>0, <2>2, <2>5, <2>6, <2>9, <3>1, WorkerStep
  <2> QED
    BY <2>1, <2>8, <2>9
<1>5. CASE Crash(p)
  <2>1. /\ worker' = [worker EXCEPT ![p] = idle]
        /\ UNCHANGED <<outbox, delivered, overrun>>
        /\ faults' \in 0 .. MaxFaults
    BY <1>0, <1>5 DEF Crash
  <2>2. delivered' = delivered \union {} /\ {} \in SUBSET worker[p].events
    BY <2>1
  <2> QED
    BY Zenon, <2>1, <2>2, IdleType, WorkerStep
<1> QED
  BY <1>1, <1>2, <1>3, <1>4, <1>5

\* A claim leases live rows and copies their attempt counts.
LEMMA ClaimStep ==
  ASSUME OInv, NEW p \in Publishers, Claim(p)
  PROVE  OInv' /\ (LInv => LInv')
<1> DEFINE batch == oldest(claimable)
           counts == [e \in Events |-> IF e \in batch THEN outbox[e].attempt_count ELSE 0]
           w == [idle EXCEPT !.phase = "claimed", !.events = batch, !.seen = counts]
<1>0. /\ worker \in [Publishers -> Worker]
      /\ outbox \in [Events -> OutboxEvent]
      /\ worker[p].phase = "idle" /\ worker[p].events = {}
  BY DEF OInv, TypeOK, Claim, BatchOK
<1>1. batch \subseteq claimable /\ batch \subseteq Events
  BY OldestClaimable
<1>2. counts \in [Events -> Nat]
  BY <1>0 DEF OutboxEvent
<1>3. /\ w \in Worker /\ w.phase = "claimed" /\ w.events = batch /\ w.seen = counts
      /\ w.todo = {} /\ w.published = {}
  <2> HIDE DEF batch, counts
  <2> QED
    BY Zenon, <1>1, <1>2 DEF idle, Worker, Phase
<1>4. worker' = [worker EXCEPT ![p] = w] /\ outbox' = leased(batch)
  BY DEF Claim
<1>5. UNCHANGED <<delivered, faults, overrun>>
  BY DEF Claim
<1>6. ASSUME NEW e \in Events
      PROVE  /\ outbox'[e] \in OutboxEvent
             /\ outbox'[e].stored = outbox[e].stored
             /\ outbox'[e].published = outbox[e].published
             /\ outbox'[e].dead_lettered = outbox[e].dead_lettered
             /\ outbox'[e].attempt_count = outbox[e].attempt_count
             /\ e \in batch => outbox'[e].due = FALSE
             /\ e \notin batch => outbox'[e] = outbox[e]
  <2> HIDE DEF batch
  <2> QED
    BY Zenon, <1>0, <1>4 DEF leased, OutboxEvent
<1>7. \A e \in batch : /\ outbox[e].stored = "stored" /\ ~ outbox[e].published
                       /\ ~ outbox[e].dead_lettered /\ outbox[e].due
                       /\ counts[e] = outbox[e].attempt_count
                       /\ outbox[e].attempt_count \in Nat
  BY <1>0, <1>1 DEF claimable, OutboxEvent
<1> HIDE DEF batch, counts, w
<1>8. /\ worker' \in [Publishers -> Worker]
      /\ worker'[p] = w
      /\ \A q \in Publishers \ {p} : worker'[q] = worker[q]
  BY <1>0, <1>3, <1>4
<1>9. outbox' \in [Events -> OutboxEvent]
  <2>1. outbox' = [e \in Events |-> outbox'[e]]
    BY <1>4 DEF leased
  <2> QED
    BY Zenon, <1>6, <2>1
<1>10. TypeOK'
  BY <1>5, <1>8, <1>9 DEF OInv, TypeOK
<1>11. ASSUME NEW e \in Events PROVE RowOK(e)'
  BY Zenon, <1>5, <1>6 DEF OInv, RowOK
<1>12. ASSUME NEW q \in Publishers PROVE BatchOK(q)'
  <2>1. CASE q = p
    <3>1. ASSUME NEW e \in batch
          PROVE  counts[e] <= outbox'[e].attempt_count /\ outbox'[e].stored = "stored"
      <4>1. e \in Events
        BY <1>1
      <4>2. outbox'[e].attempt_count = outbox[e].attempt_count /\ outbox'[e].stored = "stored"
        BY Zenon, <1>6, <1>7, <4>1
      <4> QED
        BY <1>7, <4>2
    <3> QED
      BY <1>3, <1>8, <2>1, <3>1 DEF BatchOK
  <2>2. CASE q # p
    <3>1. worker'[q] = worker[q] /\ worker[q].events \subseteq Events
      BY <1>0, <1>8, <2>2 DEF Worker
    <3> QED
      BY ZenonT(40), <1>5, <1>6, <3>1 DEF OInv, BatchOK
  <2> QED
    BY <2>1, <2>2
<1>13. ASSUME LInv PROVE LInv'
  <2> SUFFICES ASSUME ~ overrun PROVE LeaseOK'
    BY <1>5 DEF LInv
  <2>1. LeaseOK
    BY <1>13 DEF LInv
  <2>2. \A q \in Publishers : worker[q].events \intersect batch = {}
    BY <1>1, <1>7, <2>1 DEF LeaseOK
  <2>3. ASSUME NEW q \in Publishers, NEW e \in Events, e \in worker'[q].events
        PROVE  /\ outbox'[e].stored = "stored"
               /\ ~ outbox'[e].due
               /\ ~ outbox'[e].published
               /\ ~ outbox'[e].dead_lettered
    <3>1. CASE e \in batch
      BY Zenon, <1>6, <1>7, <3>1
    <3>2. CASE e \notin batch
      <4>1. e \in worker[q].events
        BY <1>3, <1>8, <2>3, <3>2
      <4> QED
        BY Zenon, <1>6, <2>1, <3>2, <4>1 DEF LeaseOK
    <3> QED
      BY <3>1, <3>2
  <2>4. ASSUME NEW q \in Publishers, NEW s \in Publishers, q # s
        PROVE  worker'[q].events \intersect worker'[s].events = {}
    BY <1>3, <1>8, <2>1, <2>2, <2>4 DEF LeaseOK
  <2>5. ASSUME NEW e \in Events PROVE ~ (outbox'[e].published /\ outbox'[e].dead_lettered)
    BY Zenon, <1>6, <2>1 DEF LeaseOK
  <2> QED
    BY <2>3, <2>4, <2>5 DEF LeaseOK
<1> QED
  BY <1>10, <1>11, <1>12, <1>13 DEF OInv

\* The second transaction: acknowledged events get published, the others counted.
LEMMA SettleStep ==
  ASSUME OInv, NEW p \in Publishers, Settle(p)
  PROVE  OInv' /\ (LInv => LInv')
<1>0. /\ worker \in [Publishers -> Worker]
      /\ outbox \in [Events -> OutboxEvent]
      /\ worker[p].published \subseteq delivered
      /\ \A e \in Events : outbox[e].attempt_count \in Nat
  BY DEF OInv, TypeOK, BatchOK, OutboxEvent
<1>1. /\ worker' = [worker EXCEPT ![p] = idle]
      /\ outbox' = [e \in Events |-> settled(p, e)]
      /\ UNCHANGED <<delivered, faults, overrun>>
  BY DEF Settle
<1>2. /\ worker' \in [Publishers -> Worker]
      /\ worker'[p] = idle
      /\ \A q \in Publishers \ {p} : worker'[q] = worker[q]
  BY <1>0, <1>1, IdleType
<1>3. ASSUME NEW e \in Events
      PROVE  /\ outbox'[e] \in OutboxEvent
             /\ outbox'[e].stored = outbox[e].stored
             /\ outbox'[e].attempt_count >= outbox[e].attempt_count
             /\ outbox'[e].attempt_count \in Nat
             /\ e \notin worker[p].events => outbox'[e] = outbox[e]
             /\ outbox[e].stored # "stored" => outbox'[e] = outbox[e]
             /\ outbox'[e].published => outbox[e].published \/ e \in delivered
             /\ outbox'[e].dead_lettered => outbox'[e].attempt_count >= MaxAttempts
             /\ outbox'[e].published /\ outbox'[e].dead_lettered =>
                  outbox[e].published \/ outbox[e].dead_lettered
  <2>1. outbox'[e] = settled(p, e)
    BY <1>1
  <2>2. outbox'[e] \in OutboxEvent
    BY <2>1, SettledRow
  <2> QED
    BY <1>0, <2>1, <2>2, SettledRow DEF OutboxEvent
<1>4. TypeOK'
  <2>1. outbox' \in [Events -> OutboxEvent]
    BY <1>1, SettledRow
  <2> QED
    BY <1>1, <1>2, <2>1 DEF OInv, TypeOK
<1>5. ASSUME NEW e \in Events PROVE RowOK(e)'
  <2>1. RowOK(e)
    BY DEF OInv
  <2>2. outbox'[e].published \/ outbox'[e].dead_lettered => outbox'[e].stored = "stored"
    BY <1>3, <2>1 DEF RowOK
  <2> QED
    BY <1>1, <1>3, <2>1, <2>2 DEF RowOK
<1>6. ASSUME NEW q \in Publishers PROVE BatchOK(q)'
  <2>1. CASE q = p
    BY <1>2, <2>1, IdleType DEF BatchOK
  <2>2. CASE q # p
    <3>1. worker'[q] = worker[q] /\ worker[q].events \subseteq Events /\ BatchOK(q)
      BY <1>0, <1>2, <2>2 DEF Worker, OInv
    <3>2. \A e \in worker[q].events : worker[q].seen[e] \in Nat
      BY <1>0, <3>1 DEF Worker
    <3>3. ASSUME NEW e \in worker[q].events, outbox[e].stored = "stored"
          PROVE  worker[q].seen[e] <= outbox'[e].attempt_count
      <4>1. worker[q].seen[e] <= outbox[e].attempt_count
        BY <3>1, <3>3 DEF BatchOK
      <4>2. e \in Events
        BY <3>1
      <4> QED
        BY <1>0, <1>3, <3>2, <4>1, <4>2
    <3> QED
      BY <1>1, <1>3, <3>1, <3>3 DEF BatchOK
  <2> QED
    BY <2>1, <2>2
<1>7. ASSUME LInv PROVE LInv'
  <2> SUFFICES ASSUME ~ overrun PROVE LeaseOK'
    BY <1>1 DEF LInv
  <2>1. LeaseOK
    BY <1>7 DEF LInv
  <2>2. \A q \in Publishers : worker'[q].events = {} \/ (q # p /\ worker'[q] = worker[q])
    BY <1>2, IdleType
  <2>3. ASSUME NEW q \in Publishers, NEW e \in Events, e \in worker'[q].events
        PROVE  e \in worker[q].events /\ outbox'[e] = outbox[e]
    BY <1>3, <2>1, <2>2, <2>3 DEF LeaseOK
  <2>4. ASSUME NEW e \in Events PROVE ~ (outbox'[e].published /\ outbox'[e].dead_lettered)
    <3>1. CASE e \in worker[p].events
      BY <1>3, <2>1, <3>1 DEF LeaseOK
    <3>2. CASE e \notin worker[p].events
      BY <1>3, <2>1, <3>2 DEF LeaseOK
    <3> QED
      BY <3>1, <3>2
  <2>5. ASSUME NEW q \in Publishers, NEW s \in Publishers, q # s
        PROVE  worker'[q].events \intersect worker'[s].events = {}
    BY <2>1, <2>2, <2>5 DEF LeaseOK
  <2> QED
    BY <2>1, <2>3, <2>4, <2>5 DEF LeaseOK
<1> QED
  BY <1>4, <1>5, <1>6, <1>7 DEF OInv

\* What passing time and a redrive leave of a row.
Kept(x, y) ==
  /\ y.stored = x.stored
  /\ y.published = x.published
  /\ y.attempt_count = x.attempt_count
  /\ y.dead_lettered => x.dead_lettered

\* The steps that change rows and no batch: commit, purge, passing time, redrive.
LEMMA RowStep ==
  ASSUME OInv, UNCHANGED <<worker, delivered>>,
         faults' \in 0 .. MaxFaults, overrun' \in BOOLEAN,
         NEW r \in [Events -> OutboxEvent], outbox' = r,
         \A e \in Events :
           \/ Kept(outbox[e], r[e])
           \/ outbox[e].published /\ r[e] = absent("purged")
           \/ /\ outbox[e].stored = "not_yet" /\ r[e].stored = "stored"
              /\ ~ r[e].published /\ ~ r[e].dead_lettered
  PROVE  OInv'
<1>0. /\ outbox \in [Events -> OutboxEvent]
      /\ worker \in [Publishers -> Worker]
  BY DEF OInv, TypeOK
<1>1. TypeOK'
  BY DEF OInv, TypeOK
<1>2. ASSUME NEW e \in Events PROVE RowOK(e)'
  BY Zenon, AbsentType DEF OInv, RowOK, Kept
<1>3. ASSUME NEW q \in Publishers PROVE BatchOK(q)'
  <2>1. worker[q].events \subseteq Events
    BY <1>0 DEF Worker
  <2>2. \A e \in worker[q].events :
          /\ r[e].stored # "not_yet"
          /\ r[e].stored = "stored" => worker[q].seen[e] <= r[e].attempt_count
    BY <2>1, AbsentType DEF OInv, BatchOK, Kept
  <2> QED
    BY <2>2 DEF OInv, BatchOK
<1> QED
  BY <1>1, <1>2, <1>3 DEF OInv

\* Commit of an event.
LEMMA StageStep ==
  ASSUME OInv, NEW e \in Events, Stage(e)
  PROVE  OInv' /\ (LInv => LInv')
<1> DEFINE r == [outbox EXCEPT ![e].stored = "stored"]
<1>0. outbox \in [Events -> OutboxEvent] /\ faults \in 0 .. MaxFaults /\ overrun \in BOOLEAN
  BY DEF OInv, TypeOK
<1>1. /\ outbox[e].stored = "not_yet" /\ outbox' = r
      /\ UNCHANGED <<worker, delivered, faults, overrun>>
  BY DEF Stage
<1>2. /\ r \in [Events -> OutboxEvent]
      /\ \A f \in Events \ {e} : r[f] = outbox[f]
      /\ r[e].stored = "stored" /\ r[e].published = outbox[e].published
      /\ r[e].dead_lettered = outbox[e].dead_lettered
      /\ r[e].attempt_count = outbox[e].attempt_count
  BY <1>0 DEF OutboxEvent
<1>3. ~ outbox[e].published /\ ~ outbox[e].dead_lettered
  BY <1>1 DEF OInv, RowOK
<1>4. \A f \in Events \ {e} : Kept(outbox[f], r[f])
  BY <1>2 DEF Kept
<1> HIDE DEF r
<1>5. OInv'
  BY <1>0, <1>1, <1>2, <1>3, <1>4, RowStep
<1>6. ASSUME LInv PROVE LInv'
  <2> SUFFICES ASSUME ~ overrun PROVE LeaseOK'
    BY <1>1 DEF LInv
  <2>1. LeaseOK
    BY <1>6 DEF LInv
  <2>2. \A p \in Publishers : e \notin worker[p].events
    BY <1>1, <2>1 DEF LeaseOK
  <2>3. \A f \in Events : f # e => outbox'[f] = outbox[f]
    BY <1>1, <1>2
  <2> QED
    BY <1>1, <1>2, <1>3, <2>1, <2>2, <2>3 DEF LeaseOK
<1> QED
  BY <1>5, <1>6

\* Passing time.
LEMMA LapseStep ==
  ASSUME OInv, NEW e \in Events, Lapse(e)
  PROVE  OInv' /\ (LInv => LInv')
<1> DEFINE r == [outbox EXCEPT ![e].due = TRUE]
<1>0. outbox \in [Events -> OutboxEvent] /\ faults \in 0 .. MaxFaults
  BY DEF OInv, TypeOK
<1>1. /\ outbox' = r
      /\ UNCHANGED <<worker, delivered, faults>>
      /\ overrun' = (overrun \/ \E p \in Publishers : e \in worker[p].events)
  BY DEF Lapse
<1>2. /\ r \in [Events -> OutboxEvent]
      /\ \A f \in Events \ {e} : r[f] = outbox[f]
      /\ r[e].stored = outbox[e].stored /\ r[e].published = outbox[e].published
      /\ r[e].dead_lettered = outbox[e].dead_lettered
      /\ r[e].attempt_count = outbox[e].attempt_count
  BY Zenon, <1>0 DEF OutboxEvent
<1>3. \A f \in Events : Kept(outbox[f], r[f])
  BY <1>2 DEF Kept
<1> HIDE DEF r
<1>4. OInv'
  BY <1>0, <1>1, <1>2, <1>3, RowStep
<1>5. ASSUME LInv PROVE LInv'
  <2> SUFFICES ASSUME ~ overrun' PROVE LeaseOK'
    BY DEF LInv
  <2>1. LeaseOK /\ \A p \in Publishers : e \notin worker[p].events
    BY Zenon, <1>1, <1>5 DEF LInv
  <2>2. \A f \in Events : f # e => outbox'[f] = outbox[f]
    BY <1>1, <1>2
  <2>3. ASSUME NEW p \in Publishers, NEW f \in Events, f \in worker'[p].events
        PROVE  /\ outbox'[f].stored = "stored"
               /\ ~ outbox'[f].due
               /\ ~ outbox'[f].published
               /\ ~ outbox'[f].dead_lettered
    <3>1. f \in worker[p].events /\ f # e
      BY <1>1, <2>1, <2>3
    <3>2. outbox'[f] = outbox[f]
      BY <2>2, <3>1
    <3> QED
      BY Zenon, <2>1, <3>1, <3>2 DEF LeaseOK
  <2>4. \A p, q \in Publishers : p # q => worker'[p].events \intersect worker'[q].events = {}
    BY <1>1, <2>1 DEF LeaseOK
  <2>5. ASSUME NEW f \in Events PROVE ~ (outbox'[f].published /\ outbox'[f].dead_lettered)
    <3>1. CASE f = e
      BY Zenon, <1>1, <1>2, <2>1, <3>1 DEF LeaseOK
    <3>2. CASE f # e
      BY Zenon, <2>1, <2>2, <3>2 DEF LeaseOK
    <3> QED
      BY <3>1, <3>2
  <2> QED
    BY <2>3, <2>4, <2>5 DEF LeaseOK
<1> QED
  BY <1>4, <1>5

\* The operator's redrive.
LEMMA RedriveStep ==
  ASSUME OInv, NEW e \in Events, redrive_dead_lettered(e)
  PROVE  OInv' /\ (LInv => LInv')
<1> DEFINE r == [outbox EXCEPT ![e].dead_lettered = FALSE, ![e].due = TRUE]
<1>0. /\ outbox \in [Events -> OutboxEvent]
      /\ overrun \in BOOLEAN
      /\ faults \in 0 .. MaxFaults
  BY DEF OInv, TypeOK
<1>1. /\ outbox' = r /\ outbox[e].dead_lettered
      /\ UNCHANGED <<worker, delivered, overrun>>
      /\ faults' \in 0 .. MaxFaults
  BY <1>0, BoundsAssumption DEF redrive_dead_lettered
<1>2. /\ r \in [Events -> OutboxEvent]
      /\ \A f \in Events \ {e} : r[f] = outbox[f]
      /\ r[e].stored = outbox[e].stored /\ r[e].published = outbox[e].published
      /\ r[e].dead_lettered = FALSE
      /\ r[e].attempt_count = outbox[e].attempt_count
  BY Zenon, <1>0 DEF OutboxEvent
<1>3. \A f \in Events : Kept(outbox[f], r[f])
  BY <1>2 DEF Kept
<1> HIDE DEF r
<1>4. OInv'
  BY <1>0, <1>1, <1>2, <1>3, RowStep
<1>5. ASSUME LInv PROVE LInv'
  <2> SUFFICES ASSUME ~ overrun PROVE LeaseOK'
    BY <1>1 DEF LInv
  <2>1. LeaseOK
    BY <1>5 DEF LInv
  <2>2. \A p \in Publishers : e \notin worker[p].events
    BY <1>1, <2>1 DEF LeaseOK
  <2>3. \A f \in Events : f # e => outbox'[f] = outbox[f]
    BY <1>1, <1>2
  <2> QED
    BY <1>1, <1>2, <2>1, <2>2, <2>3 DEF LeaseOK
<1> QED
  BY <1>4, <1>5

\* The purge of published rows.
LEMMA PurgeStep ==
  ASSUME OInv, NEW p \in Publishers, PollEmpty(p)
  PROVE  OInv' /\ (LInv => LInv')
<1>1. PICK old \in SUBSET purgeable :
        outbox' = [e \in Events |-> IF e \in old THEN absent("purged") ELSE outbox[e]]
  BY DEF PollEmpty
<1> DEFINE r == [e \in Events |-> IF e \in old THEN absent("purged") ELSE outbox[e]]
<1>2. /\ outbox \in [Events -> OutboxEvent]
      /\ faults' \in 0 .. MaxFaults
      /\ overrun' \in BOOLEAN
      /\ UNCHANGED <<worker, delivered, faults, overrun>>
  BY DEF OInv, TypeOK, PollEmpty
<1>3. r \in [Events -> OutboxEvent]
  BY <1>2, AbsentType
<1>4. \A e \in Events : \/ r[e] = outbox[e]
                        \/ outbox[e].published /\ r[e] = absent("purged")
  BY DEF purgeable
<1> HIDE DEF r
<1>5. \A e \in Events : Kept(outbox[e], outbox[e])
  BY DEF Kept
<1>6. outbox' = r
  BY <1>1 DEF r
<1>7. OInv'
  BY <1>2, <1>3, <1>4, <1>5, <1>6, RowStep
<1>8. ASSUME LInv PROVE LInv'
  <2> SUFFICES ASSUME ~ overrun PROVE LeaseOK'
    BY <1>2 DEF LInv
  <2>1. LeaseOK
    BY <1>8 DEF LInv
  <2>2. \A q \in Publishers, e \in Events : e \in worker[q].events => r[e] = outbox[e]
    BY <1>4, <2>1 DEF LeaseOK
  <2>3. \A e \in Events : ~ (r[e].published /\ r[e].dead_lettered)
    BY Zenon, <1>4, <2>1, AbsentType DEF LeaseOK
  <2> QED
    BY <1>2, <1>6, <2>1, <2>2, <2>3 DEF LeaseOK
<1> QED
  BY <1>7, <1>8

\* Every step keeps both invariants.
LEMMA NextOInv ==
  ASSUME OInv, [Next]_vars
  PROVE  OInv' /\ (LInv => LInv')
<1>1. ASSUME NEW p \in Publishers, run_once(p) \/ Crash(p)
      PROVE  OInv' /\ (LInv => LInv')
  BY <1>1, ClaimStep, PurgeStep, BrokerStep, SettleStep DEF run_once
<1>2. ASSUME NEW e \in Events, Stage(e) \/ Lapse(e) \/ redrive_dead_lettered(e)
      PROVE  OInv' /\ (LInv => LInv')
  BY <1>2, StageStep, LapseStep, RedriveStep
<1>3. CASE UNCHANGED vars
  <2>1. /\ outbox' = outbox /\ worker' = worker /\ delivered' = delivered
        /\ faults' = faults /\ overrun' = overrun
    BY <1>3 DEF vars
  <2>2. OInv'
    BY <2>1 DEF OInv, TypeOK, RowOK, BatchOK
  <2>3. LInv => LInv'
    BY <2>1 DEF LInv, LeaseOK
  <2> QED
    BY <2>2, <2>3
<1> QED
  BY <1>1, <1>2, <1>3 DEF Next

\* Both invariants hold of every behaviour.
THEOREM OutboxInvariance == Spec => [](OInv /\ LInv)
<1>1. OInv /\ LInv /\ [Next]_vars => (OInv /\ LInv)'
  BY NextOInv
<1> QED
  BY InitOInv, <1>1, PTL DEF Spec

\* Every variable of the outbox model keeps its type.
THEOREM OutboxTypeCorrect == Spec => []TypeOK
<1>1. OInv => TypeOK
  BY DEF OInv
<1> QED
  BY <1>1, OutboxInvariance, PTL

\* No event is marked published or purged before the broker stored it (mark_published, purge).
THEOREM OutboxLosesNothing == Spec => []NothingIsLost
<1>1. OInv => NothingIsLost
  BY DEF OInv, RowOK, NothingIsLost
<1> QED
  BY <1>1, OutboxInvariance, PTL

\* An event is dead-lettered only with max_attempts counted failures (run_once).
THEOREM DeadLettersStayExhausted == Spec => []DeadLettersAreExhausted
<1>1. OInv => DeadLettersAreExhausted
  BY DEF OInv, RowOK, DeadLettersAreExhausted
<1> QED
  BY <1>1, OutboxInvariance, PTL

\* Without an overrun lease no two replicas hold the same event (claim_unpublished).
THEOREM LeasesKeepExcluding == Spec => []LeasesExclude
<1>1. LInv => LeasesExclude
  BY DEF LInv, LeaseOK, LeasesExclude
<1> QED
  BY <1>1, OutboxInvariance, PTL
=============================================================================
