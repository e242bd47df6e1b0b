---------------------------- MODULE DispatchProofs ----------------------------
(***************************************************************************)
(* Theorems about Dispatch, for every set of replicas and deliveries, each *)
(* of the three stores and every value of the other constants.             *)
(***************************************************************************)
EXTENDS Dispatch, PolicyProofs, TLAPS

-------------------------------------------------------------------------------
(* The rows: what every store does with one, in terms of status, lease,    *)
(* attempts and due time.                                                  *)
LEMMA EmptyRow == NoRow \in Row
<1>1. <<>> \in Seq(Nat)
  OBVIOUS
<1> QED
  BY <1>1 DEF NoRow, NoLease, Row, Status

LEMMA EnqueuedRow ==
  ASSUME NEW row \in Row, NEW now \in Nat
  PROVE  /\ Enqueued(row, now) =
              IF row.status = "absent" THEN [NoRow EXCEPT !.status = "pending", !.fireAt = now] ELSE row
         /\ Enqueued(row, now) \in Row
<1>1. Enqueued(row, now) =
        IF row.status = "absent" THEN [NoRow EXCEPT !.status = "pending", !.fireAt = now] ELSE row
  BY StoreAssumption DEF Enqueued, PgEnqueued, MongoEnqueued, MemoryEnqueued, Fresh
<1>2. [NoRow EXCEPT !.status = "pending", !.fireAt = now] \in Row
  BY EmptyRow DEF Row, Status
<1> QED
  BY <1>1, <1>2

LEMMA ClaimedRow ==
  ASSUME NEW row \in Row, NEW now \in Nat
  PROVE  /\ Claimed(row, now) = [row EXCEPT !.status = "in_flight", !.lease = now + LeaseTtl]
         /\ Claimed(row, now) \in Row
<1>1. Claimed(row, now) = [row EXCEPT !.status = "in_flight", !.lease = now + LeaseTtl]
  BY StoreAssumption DEF Claimed, PgClaimed, MongoClaimed, MemoryClaimed
<1>2. now + LeaseTtl \in Nat
  BY StoreAssumption
<1> QED
  BY <1>1, <1>2 DEF Row, Status

LEMMA ReclaimedRow ==
  ASSUME NEW row \in Row, NEW now \in Nat
  PROVE  /\ Reclaimed(row, now) =
              IF Stale(row, now) THEN [row EXCEPT !.status = "pending", !.lease = NoLease] ELSE row
         /\ Reclaimed(row, now) \in Row
<1>1. Reclaimed(row, now) =
        IF Stale(row, now) THEN [row EXCEPT !.status = "pending", !.lease = NoLease] ELSE row
  BY StoreAssumption DEF Reclaimed, PgReclaimed, MongoReclaimed, MemoryReclaimed
<1>2. [row EXCEPT !.status = "pending", !.lease = NoLease] \in Row
  BY DEF Row, Status, NoLease
<1> QED
  BY <1>1, <1>2

LEMMA LoggedRow ==
  ASSUME NEW row \in Row, NEW n \in Nat
  PROVE  /\ Logged(row, n) \in Row
         /\ Logged(row, n).status = row.status
         /\ Logged(row, n).lease = row.lease
         /\ Logged(row, n).fireAt = row.fireAt
         /\ Logged(row, n).attempts = row.attempts
<1>1. Append(row.log, n) \in Seq(Nat)
  BY DEF Row
<1>2. Logged(row, n) = [row EXCEPT !.log = Append(row.log, n)]
  BY DEF Logged
<1> QED
  BY <1>1, <1>2 DEF Row

LEMMA SettledRow ==
  ASSUME NEW row \in Row, NEW n \in Nat, NEW fireAt \in Nat,
         NEW status \in {"sent", "failed_retry", "dead_lettered"}
  PROVE  /\ Settled(row, status, n, fireAt) \in Row
         /\ Settled(row, status, n, fireAt).status = status
<1>1. Logged(row, n) \in Row
  BY LoggedRow
<1>2. \A s \in Status, attempts, due \in Nat :
        /\ [Logged(row, n) EXCEPT !.status = s, !.lease = NoLease] \in Row
        /\ [Logged(row, n) EXCEPT !.status = s, !.attempts = attempts, !.lease = NoLease] \in Row
        /\ [Logged(row, n) EXCEPT !.status = s, !.fireAt = due, !.attempts = attempts,
                                  !.lease = NoLease] \in Row
  BY <1>1 DEF Row, NoLease
<1>3. CASE status = "sent"
  BY <1>1, <1>2, <1>3, StoreAssumption
     DEF Settled, PgSent, MongoSent, MemorySent, Status, Terminal, Row
<1>4. CASE status = "failed_retry"
  <2>1. PICK attempts \in {n, Logged(row, n).attempts + 1} :
          Settled(row, status, n, fireAt) =
            [Logged(row, n) EXCEPT !.status = "failed_retry", !.fireAt = fireAt,
                                   !.attempts = attempts, !.lease = NoLease]
    BY <1>4, StoreAssumption DEF Settled, PgRetried, MongoRetried, MemoryRetried
  <2>2. attempts \in Nat
    BY <1>1, <2>1 DEF Row
  <2>3. [Logged(row, n) EXCEPT !.status = "failed_retry", !.fireAt = fireAt,
                               !.attempts = attempts, !.lease = NoLease] \in Row
    BY <1>1, <2>2 DEF Row, Status, NoLease
  <2>4. [Logged(row, n) EXCEPT !.status = "failed_retry", !.fireAt = fireAt,
                               !.attempts = attempts, !.lease = NoLease].status = "failed_retry"
    BY <1>1 DEF Row
  <2> QED
    BY <1>4, <2>1, <2>3, <2>4
<1>5. CASE status = "dead_lettered"
  BY <1>1, <1>2, <1>5, StoreAssumption
     DEF Settled, PgDead, MongoDead, MemoryDead, Status, Terminal, Row
<1> QED
  BY <1>3, <1>4, <1>5

LEMMA AppendedRow ==
  ASSUME NEW row \in Row, NEW n \in Nat
  PROVE  /\ Appended(row, n) \in Row
         /\ Appended(row, n).status = row.status
         /\ Appended(row, n).lease = row.lease
         /\ Appended(row, n).fireAt = row.fireAt
<1>1. \/ Appended(row, n) = Logged(row, n)
      \/ Appended(row, n) = [Logged(row, n) EXCEPT !.attempts = n]
  BY StoreAssumption DEF Appended, PgAppended, MongoAppended, MemoryAppended
<1> QED
  BY <1>1, LoggedRow DEF Row

-------------------------------------------------------------------------------
(* Type correctness.  A task that settles knows its verdict: without it,   *)
(* Settled is applied to a status no store call moves a row to.            *)
VerdictKnown ==
  \A r \in Replicas, d \in Deliveries : Stage(r, d) = "settling" => tasks[r][d].verdict # "none"

Typed == TypeOK /\ VerdictKnown

LEMMA TaskTypes ==
  /\ NoTask \in Task
  /\ \A row \in Row, now \in Nat : NewTask(row, now) \in Task
<1>1. NoTask \in Task
  BY DEF NoTask, Task, Stages, Verdicts
<1>2. ASSUME NEW row \in Row, NEW now \in Nat
      PROVE  NewTask(row, now) \in Task
  <2>1. row.attempts + 1 \in Nat
    BY DEF Row
  <2> QED
    BY <2>1 DEF NewTask, NoTask, Task, Stages, Holding, Verdicts
<1> QED
  BY <1>1, <1>2

(* What becomes of the tasks when one of them is replaced.                 *)
LEMMA OneTask ==
  ASSUME TypeOK, NEW r \in Replicas, NEW d \in Deliveries, NEW t, Becomes(r, d, t)
  PROVE  /\ t \in Task => tasks' \in [Replicas -> [Deliveries -> Task]]
         /\ tasks'[r][d] = t
         /\ \A q \in Replicas, e \in Deliveries :
              q # r \/ e # d => tasks'[q][e] = tasks[q][e]
BY DEF TypeOK, Becomes

LEMMA StageMoved ==
  ASSUME TypeOK, NEW r \in Replicas, NEW d \in Deliveries, NEW stage \in Stages, To(r, d, stage)
  PROVE  /\ [tasks[r][d] EXCEPT !.stage = stage] \in Task
         /\ Becomes(r, d, [tasks[r][d] EXCEPT !.stage = stage])
<1>1. tasks[r][d] \in Task
  BY DEF TypeOK
<1> QED
  BY <1>1 DEF To, Task

LEMMA TypedInit == Init => Typed
BY EmptyRow, TaskTypes DEF Init, Typed, TypeOK, VerdictKnown, Stage, NoTask

LEMMA TypedTick ==
  ASSUME Typed, NEW r \in Replicas, TickStep(r)
  PROVE  Typed'
<1> USE DEF Typed, Stage
<1>1. CASE BeginTick(r) \/ EndTick(r) \/ Start(r)
  <2>1. /\ pc' \in [Replicas -> {"idle", "reclaim", "claim", "gather", "down"}]
        /\ nowRead' \in [Replicas -> Nat]
    BY <1>1 DEF BeginTick, EndTick, Start, TypeOK
  <2>2. UNCHANGED <<clock, rows, tasks, faults, stops, posts, acked, raised, asked>>
    BY <1>1 DEF BeginTick, EndTick, Start, history
  <2> QED
    BY <2>1, <2>2 DEF TypeOK, VerdictKnown
<1>2. CASE ReclaimStale(r) \/ ReclaimFails(r)
  <2>1. ASSUME NEW d \in Deliveries
        PROVE  Reclaimed(rows[d], nowRead[r]) \in Row
    <3>1. rows[d] \in Row /\ nowRead[r] \in Nat
      BY DEF TypeOK
    <3> QED
      BY <3>1, ReclaimedRow
  <2>2. rows' \in [Deliveries -> Row]
    BY <1>2, <2>1 DEF ReclaimStale, ReclaimFails, TypeOK
  <2>3. faults' \in Nat
    BY <1>2 DEF ReclaimStale, ReclaimFails, Fault, TypeOK
  <2>4. /\ pc' \in [Replicas -> {"idle", "reclaim", "claim", "gather", "down"}]
        /\ nowRead' \in [Replicas -> Nat]
    BY <1>2 DEF ReclaimStale, ReclaimFails, ThenClaim, TypeOK
  <2>5. UNCHANGED <<clock, tasks, stops, posts, acked, raised, asked>>
    BY <1>2 DEF ReclaimStale, ReclaimFails, ThenClaim, history
  <2> QED
    BY <2>2, <2>3, <2>4, <2>5 DEF TypeOK, VerdictKnown
<1>3. ASSUME NEW batch, Lease(batch, nowRead[r])
      PROVE  rows' \in [Deliveries -> Row]
  <2>1. ASSUME NEW d \in Deliveries
        PROVE  rows[d] \in Row /\ Claimed(rows[d], nowRead[r]) \in Row
    <3>1. rows[d] \in Row /\ nowRead[r] \in Nat
      BY DEF TypeOK
    <3> QED
      BY <3>1, ClaimedRow
  <2> QED
    BY <1>3, <2>1 DEF Lease
<1>4. CASE ClaimBatch(r)
  <2>1. PICK batch \in Batches(nowRead[r]) :
          /\ Lease(batch, nowRead[r])
          /\ tasks' = [tasks EXCEPT ![r] = [d \in Deliveries |->
               IF d \in batch THEN NewTask(rows[d], nowRead[r]) ELSE @[d]]]
          /\ pc' = [pc EXCEPT ![r] = IF batch = {} THEN "idle" ELSE "gather"]
    BY <1>4 DEF ClaimBatch
  <2>2. rows' \in [Deliveries -> Row]
    BY <1>3, <2>1
  <2>3. /\ tasks' \in [Replicas -> [Deliveries -> Task]]
        /\ VerdictKnown'
    BY <2>1, TaskTypes DEF TypeOK, VerdictKnown, NewTask, NoTask
  <2> QED
    BY <1>4, <2>1, <2>2, <2>3 DEF ClaimBatch, TypeOK, history
<1>5. CASE ClaimFails(r)
  <2>1. rows' \in [Deliveries -> Row]
    BY <1>3, <1>5 DEF ClaimFails
  <2> QED
    BY <1>5, <2>1 DEF ClaimFails, Fault, TypeOK, VerdictKnown, history
<1> QED
  BY <1>1, <1>2, <1>4, <1>5 DEF TickStep

(* The answer to an attempt, in the task it belongs to.                    *)
LEMMA ConcludedTask ==
  ASSUME Typed, NEW r \in Replicas, NEW d \in Deliveries, Conclude(r, d)
  PROVE  \E reason \in RetryReason \cup {NoReason}, retryAt \in Nat :
           /\ Becomes(r, d, [tasks[r][d] EXCEPT !.stage = "settling",
                !.verdict = OutcomeStatus(reason, RetryOn(reason, tasks[r][d].attempt)),
                !.retryAt = retryAt])
           /\ acked' = [acked EXCEPT ![d] = @ \/ reason = NoReason]
<1> DEFINE t == tasks[r][d]
<1>1. t.attempt \in Nat /\ t.sentAt \in Nat
  BY DEF Typed, TypeOK, Task
<1> DEFINE verdict(answer) == OutcomeStatus(Reason(answer), RetryOn(Reason(answer), t.attempt))
           retryAts(answer) ==
             IF verdict(answer) = "failed_retry"
             THEN {t.sentAt + delay : delay \in NextDelays(t.attempt, Waited(answer, t.sentAt))}
             ELSE {0}
           Concluded(reason, retryAt) ==
             /\ Becomes(r, d, [t EXCEPT !.stage = "settling",
                  !.verdict = OutcomeStatus(reason, RetryOn(reason, t.attempt)),
                  !.retryAt = retryAt])
             /\ acked' = [acked EXCEPT ![d] = @ \/ reason = NoReason]
<1>2. PICK answer \in Answers : \E retryAt \in retryAts(answer) : Concluded(Reason(answer), retryAt)
  BY DEF Conclude
<1>3. /\ Reason(answer) \in RetryReason \cup {NoReason}
      /\ Waited(answer, t.sentAt) \in Nat \cup {NoRetryAfter}
  BY <1>1, ReasonOfAnswer, WaitsAreTimes, DispatchAssumption
<1> HIDE DEF verdict
<1>4. retryAts(answer) \subseteq Nat
  <2>1. NextDelays(t.attempt, Waited(answer, t.sentAt)) \subseteq Nat
    BY <1>1, <1>3, DelaysAreTimes
  <2> QED
    BY <1>1, <2>1
<1> HIDE DEF Concluded, retryAts
<1>5. \E reason \in RetryReason \cup {NoReason}, retryAt \in Nat : Concluded(reason, retryAt)
  BY <1>2, <1>3, <1>4
<1> QED
  BY <1>5 DEF Concluded

LEMMA AskedIsTime ==
  ASSUME Typed, NEW r \in Replicas, NEW d \in Deliveries, Conclude(r, d)
  PROVE  asked' \in [Deliveries -> Nat]
<1>1. PICK answer \in Answers : asked' = [asked EXCEPT ![d] = AskedUntil(answer.header, clock)]
  BY DEF Conclude
<1>2. answer.header \in Header /\ clock \in Nat
  BY DispatchAssumption DEF Answer, Typed, TypeOK
<1>3. AskedUntil(answer.header, clock) \in Nat
  BY <1>2, PolicyAssumption DEF AskedUntil, Least, Header
<1> QED
  BY <1>1, <1>3 DEF Typed, TypeOK

LEMMA TypedTask ==
  ASSUME Typed, NEW r \in Replicas, NEW d \in Deliveries, TaskStep(r, d)
  PROVE  Typed'
<1> DEFINE n == tasks[r][d].attempt
           OneRow(row) == rows' = [rows EXCEPT ![d] = row]
<1> USE DEF Typed
<1>1. /\ tasks[r][d] \in Task /\ n \in Nat /\ rows[d] \in Row /\ clock \in Nat
      /\ tasks[r][d].retryAt \in Nat /\ tasks[r][d].sentAt \in Nat
  BY DEF TypeOK, Task
<1>2. ASSUME NEW t \in Task, Becomes(r, d, t), t.stage = "settling" => t.verdict # "none"
      PROVE  tasks' \in [Replicas -> [Deliveries -> Task]] /\ VerdictKnown'
  <2>1. /\ tasks' \in [Replicas -> [Deliveries -> Task]]
        /\ tasks'[r][d] = t
        /\ \A q \in Replicas, e \in Deliveries :
             q # r \/ e # d => tasks'[q][e] = tasks[q][e]
    BY <1>2, OneTask
  <2>2. VerdictKnown'
    <3> SUFFICES ASSUME NEW q \in Replicas, NEW e \in Deliveries, tasks'[q][e].stage = "settling"
                 PROVE  tasks'[q][e].verdict # "none"
      BY DEF VerdictKnown, Stage
    <3> QED
      BY <1>2, <2>1 DEF VerdictKnown, Stage
  <2> QED
    BY <2>1, <2>2
<1>3. ASSUME NEW stage \in Stages \ {"settling"}, To(r, d, stage)
      PROVE  tasks' \in [Replicas -> [Deliveries -> Task]] /\ VerdictKnown'
  <2>1. [tasks[r][d] EXCEPT !.stage = stage].stage = stage
    BY <1>1 DEF Task
  <2> QED
    BY <1>2, <1>3, <2>1, StageMoved
<1>4. ASSUME Ends(r, d)
      PROVE  tasks' \in [Replicas -> [Deliveries -> Task]] /\ VerdictKnown'
  BY <1>2, <1>4, TaskTypes DEF Ends, NoTask
<1>5. ASSUME NEW row \in Row, OneRow(row)
      PROVE  rows' \in [Deliveries -> Row]
  BY <1>5 DEF TypeOK
<1>6. CASE Prepare(r, d) \/ Reject(r, d)
  <2>1. PICK t \in Task : Becomes(r, d, t) /\ (t.stage = "settling" => t.verdict # "none")
    <3>1. CASE Prepare(r, d)
      <4>1. [tasks[r][d] EXCEPT !.stage = "waiting", !.sentAt = clock] \in Task
        BY <1>1 DEF Task, Stages, Holding
      <4> QED
        BY <3>1, <4>1, <1>1 DEF Prepare, Task
    <3>2. CASE Reject(r, d)
      <4>1. [tasks[r][d] EXCEPT !.stage = "settling", !.sentAt = clock,
                                !.verdict = "dead_lettered"] \in Task
        BY <1>1 DEF Task, Stages, Holding, Verdicts
      <4> QED
        BY <3>2, <4>1, <1>1 DEF Reject, Task
    <3> QED
      BY <1>6, <3>1, <3>2
  <2> QED
    BY <1>2, <1>6, <2>1 DEF Prepare, Reject, TypeOK, history
<1>7. CASE Raise(r, d) \/ Post(r, d) \/ Notify(r, d)
  <2>1. tasks' \in [Replicas -> [Deliveries -> Task]] /\ VerdictKnown'
    <3>1. To(r, d, "unhandled") \/ To(r, d, "posting") \/ Ends(r, d)
      BY <1>7 DEF Raise, Post, Notify
    <3> QED
      BY <1>3, <1>4, <3>1 DEF Stages, Holding, Salvage
  <2>2. faults' \in Nat
    BY <1>7 DEF Raise, Post, Notify, Fault, TypeOK
  <2>4. posts' \in [Deliveries -> Nat]
    BY <1>7 DEF Raise, Post, Notify, TypeOK, history
  <2>3. UNCHANGED <<clock, rows, pc, nowRead, stops, acked, raised, asked>>
    BY <1>7 DEF Raise, Post, Notify, history
  <2> QED
    BY <2>1, <2>2, <2>3, <2>4 DEF TypeOK
<1>8. CASE Conclude(r, d)
  <2>1. PICK reason \in RetryReason \cup {NoReason}, retryAt \in Nat :
          /\ Becomes(r, d, [tasks[r][d] EXCEPT !.stage = "settling",
                !.verdict = OutcomeStatus(reason, RetryOn(reason, n)), !.retryAt = retryAt])
          /\ acked' = [acked EXCEPT ![d] = @ \/ reason = NoReason]
    BY <1>8, ConcludedTask
  <2> DEFINE verdict == OutcomeStatus(reason, RetryOn(reason, n))
             t == [tasks[r][d] EXCEPT !.stage = "settling", !.verdict = verdict,
                                      !.retryAt = retryAt]
  <2>2. verdict \in {"sent", "failed_retry", "dead_lettered"}
    BY OutcomeIsVerdict DEF RetryOn
  <2> HIDE DEF verdict
  <2>3. t \in Task /\ t.verdict # "none"
    BY <1>1, <2>2 DEF Task, Stages, Holding, Verdicts
  <2>4. Becomes(r, d, t)
    BY <2>1 DEF verdict
  <2>5. acked' \in [Deliveries -> BOOLEAN]
    BY <2>1 DEF TypeOK
  <2> QED
    BY <1>2, <1>8, <2>3, <2>4, <2>5, AskedIsTime DEF Conclude, TypeOK
<1>9. ASSUME Stage(r, d) = "settling", SettledBy(r, d)
      PROVE  rows' \in [Deliveries -> Row]
  <2>1. tasks[r][d].verdict \in {"sent", "failed_retry", "dead_lettered"}
    BY <1>1, <1>9 DEF VerdictKnown, Task, Verdicts
  <2>2. Settled(rows[d], tasks[r][d].verdict, n, tasks[r][d].retryAt) \in Row
    BY <1>1, <2>1, SettledRow
  <2> QED
    BY <1>5, <1>9, <2>2 DEF SettledBy
<1>10. CASE Settle(r, d) \/ SettleFails(r, d)
  <2>1. rows' \in [Deliveries -> Row]
    BY <1>9, <1>10 DEF Settle, SettleFails, TypeOK
  <2> QED
    BY <1>3, <1>10, <2>1 DEF Settle, SettleFails, Fault, TypeOK, Stages, Salvage, history
<1>11. ASSUME AppendedBy(r, d)
       PROVE  rows' \in [Deliveries -> Row]
  BY <1>1, <1>5, <1>11, AppendedRow DEF AppendedBy
<1>12. ASSUME BuriedBy(r, d)
       PROVE  rows' \in [Deliveries -> Row]
  BY <1>1, <1>5, <1>12, SettledRow DEF BuriedBy
<1>13. CASE QuarantineAppend(r, d)
  BY <1>3, <1>4, <1>11, <1>13 DEF QuarantineAppend, TypeOK, Stages, Salvage
<1>14. CASE QuarantineAppendFails(r, d) \/ Bury(r, d) \/ BuryFails(r, d)
  <2>1. rows' \in [Deliveries -> Row]
    BY <1>11, <1>12, <1>14 DEF QuarantineAppendFails, Bury, BuryFails, TypeOK
  <2> QED
    BY <1>4, <1>14, <2>1 DEF QuarantineAppendFails, Bury, BuryFails, Fault, TypeOK, history
<1> QED
  BY <1>6, <1>7, <1>8, <1>10, <1>13, <1>14 DEF TaskStep

LEMMA TypedStep == Typed /\ [Next]_vars => Typed'
<1> SUFFICES ASSUME Typed, [Next]_vars PROVE Typed'
  OBVIOUS
<1>1. ASSUME NEW d \in Deliveries, Enqueue(d) PROVE Typed'
  <2>1. clock \in Nat /\ rows[d] \in Row
    BY DEF Typed, TypeOK
  <2>2. Enqueued(rows[d], clock) \in Row
    BY <2>1, EnqueuedRow
  <2>3. rows' \in [Deliveries -> Row]
    BY <1>1, <2>2 DEF Enqueue, Typed, TypeOK
  <2>4. UNCHANGED <<clock, pc, nowRead, tasks, faults, stops, posts, acked, raised, asked>>
    BY <1>1 DEF Enqueue, history
  <2> QED
    BY <2>3, <2>4 DEF Typed, TypeOK, VerdictKnown, Stage
<1>2. ASSUME NEW r \in Replicas, Stop(r) PROVE Typed'
  <2>1. tasks' \in [Replicas -> [Deliveries -> Task]]
    BY <1>2, TaskTypes DEF Stop, Typed, TypeOK
  <2>2. VerdictKnown'
    BY <1>2 DEF Stop, Typed, TypeOK, VerdictKnown, Stage, NoTask
  <2>3. stops' \in Nat
    BY <1>2 DEF Stop, Typed, TypeOK
  <2> QED
    BY <1>2, <2>1, <2>2, <2>3 DEF Stop, Typed, TypeOK, history
<1>3. CASE Advance
  BY <1>3 DEF Advance, Typed, TypeOK, VerdictKnown, Stage, history
<1>4. CASE UNCHANGED vars
  BY <1>4 DEF vars, Typed, TypeOK, VerdictKnown, Stage
<1> QED
  BY <1>1, <1>2, <1>3, <1>4, TypedTick, TypedTask DEF Next, ReplicaStep

(* Every variable keeps its type in every deployment: no store call leaves *)
(* a row, and no step of send a task, the next one could not work on.      *)
THEOREM TypeCorrect == Spec => []TypeOK
<1>1. Spec => []Typed
  BY TypedInit, TypedStep, PTL DEF Spec
<1>2. Typed => TypeOK
  BY DEF Typed
<1> QED
  BY <1>1, <1>2, PTL

-------------------------------------------------------------------------------
(* Exclusive leases.  In a safe deployment the row of a task is in flight  *)
(* and leased to it for as long as the task may still settle it: up to the *)
(* settling call, and through _quarantine when no reply is lost (a failed  *)
(* call then changed nothing).  The lease outlives the task because the    *)
(* task ends within HoldBound of the claim, and a claim can only give a    *)
(* task a row that nobody owned.                                           *)
Owning == IF LostReplies THEN Holding ELSE Holding \cup Salvage

Owns(r, d) == Stage(r, d) \in Owning

TasksInTick ==
  \A r \in Replicas, d \in Deliveries : Stage(r, d) # "none" => pc[r] = "gather"

ReadingsPast ==
  \A r \in Replicas :
    nowRead[r] <= clock /\ (pc[r] = "claim" => clock <= nowRead[r] + HoldBound)

LeasedToOwner ==
  \A r \in Replicas, d \in Deliveries : Owns(r, d) =>
    /\ rows[d].status = "in_flight"
    /\ rows[d].lease = tasks[r][d].since + LeaseTtl
    /\ clock <= tasks[r][d].since + HoldBound

OneOwner ==
  \A d \in Deliveries : \A r, q \in Replicas : Owns(r, d) /\ Owns(q, d) => r = q

Custody == Typed /\ TasksInTick /\ ReadingsPast /\ LeasedToOwner /\ OneOwner

LEMMA CustodyInit == Init => Custody
<1> SUFFICES ASSUME Init PROVE Custody
  OBVIOUS
<1>1. \A r \in Replicas, d \in Deliveries : Stage(r, d) = "none"
  BY DEF Init, Stage, NoTask
<1>2. \A r \in Replicas, d \in Deliveries : ~Owns(r, d)
  BY <1>1 DEF Owns, Owning, Holding, Salvage
<1>3. ReadingsPast
  BY DEF Init, ReadingsPast
<1> QED
  BY <1>1, <1>2, <1>3, TypedInit DEF Custody, TasksInTick, LeasedToOwner, OneOwner

(* A step that leaves every owner its row keeps custody.                   *)
LEMMA CustodyKept ==
  ASSUME Custody, Typed', TasksInTick', ReadingsPast', clock' = clock,
         \A r \in Replicas, d \in Deliveries : Owns(r, d)' =>
           /\ Owns(r, d)
           /\ tasks'[r][d].since = tasks[r][d].since
           /\ rows'[d].status = rows[d].status
           /\ rows'[d].lease = rows[d].lease
  PROVE  Custody'
<1>1. LeasedToOwner'
  BY DEF Custody, LeasedToOwner
<1>2. OneOwner'
  BY DEF Custody, OneOwner
<1> QED
  BY <1>1, <1>2 DEF Custody

(* What any step of a task may do, to its own task and row and to others.  *)
LEMMA TaskFrame ==
  ASSUME Typed, NEW r \in Replicas, NEW d \in Deliveries, TaskStep(r, d)
  PROVE  /\ clock' = clock /\ pc' = pc /\ nowRead' = nowRead
         /\ \A q \in Replicas, e \in Deliveries :
              q # r \/ e # d => tasks'[q][e] = tasks[q][e]
         /\ \A e \in Deliveries : e # d => rows'[e] = rows[e]
         /\ Stage(r, d) # "none"
         /\ Owns(r, d)' => Owns(r, d) /\ tasks'[r][d].since = tasks[r][d].since
         /\ \/ rows'[d].status = rows[d].status /\ rows'[d].lease = rows[d].lease
            \/ ~Owns(r, d)' /\ Stage(r, d) \in {"settling", "burying"}
<1> DEFINE n == tasks[r][d].attempt
<1> USE DEF Typed
<1>1. tasks[r][d] \in Task /\ rows[d] \in Row /\ n \in Nat
  BY DEF TypeOK, Task
<1>2. ASSUME NEW t, Becomes(r, d, t)
      PROVE  /\ tasks'[r][d] = t
             /\ \A q \in Replicas, e \in Deliveries :
                  q # r \/ e # d => tasks'[q][e] = tasks[q][e]
  BY <1>2, OneTask
<1>3. ASSUME NEW stage, To(r, d, stage)
      PROVE  /\ Stage(r, d)' = stage /\ tasks'[r][d].since = tasks[r][d].since
             /\ \A q \in Replicas, e \in Deliveries :
                  q # r \/ e # d => tasks'[q][e] = tasks[q][e]
  <2>1. Becomes(r, d, [tasks[r][d] EXCEPT !.stage = stage])
    BY <1>3 DEF To
  <2> QED
    BY <1>1, <1>2, <2>1 DEF Stage, Task
<1>4. ASSUME Ends(r, d)
      PROVE  /\ Stage(r, d)' = "none"
             /\ \A q \in Replicas, e \in Deliveries :
                  q # r \/ e # d => tasks'[q][e] = tasks[q][e]
  BY <1>2, <1>4 DEF Ends, Stage, NoTask
<1>5. ASSUME SettledBy(r, d) \/ BuriedBy(r, d)
      PROVE  \A e \in Deliveries : e # d => rows'[e] = rows[e]
  BY <1>5 DEF SettledBy, BuriedBy, TypeOK
<1>6. ASSUME AppendedBy(r, d)
      PROVE  /\ \A e \in Deliveries : e # d => rows'[e] = rows[e]
             /\ rows'[d].status = rows[d].status /\ rows'[d].lease = rows[d].lease
  <2>1. rows'[d] = Appended(rows[d], n)
    BY <1>6 DEF AppendedBy, TypeOK
  <2> QED
    BY <1>1, <1>6, <2>1, AppendedRow DEF AppendedBy, TypeOK
<1> USE DEF Owns, Owning, Holding, Salvage, history
<1>7. CASE Prepare(r, d) \/ Reject(r, d)
  <2>1. PICK t : /\ Becomes(r, d, t)
                 /\ t.since = tasks[r][d].since
    <3>1. /\ [tasks[r][d] EXCEPT !.stage = "waiting", !.sentAt = clock].since = tasks[r][d].since
          /\ [tasks[r][d] EXCEPT !.stage = "settling", !.sentAt = clock,
                                 !.verdict = "dead_lettered"].since = tasks[r][d].since
      BY <1>1 DEF Task
    <3> QED
      BY <1>7, <3>1 DEF Prepare, Reject
  <2> QED
    BY <1>2, <1>7, <2>1 DEF Prepare, Reject, EnterGate, Stage
<1>8. CASE Raise(r, d) \/ Post(r, d) \/ Notify(r, d)
  BY <1>3, <1>4, <1>8 DEF Raise, Post, Notify, EnterGate, Stage
<1>9. CASE Conclude(r, d)
  <2>1. PICK t : /\ Becomes(r, d, t)
                 /\ t.since = tasks[r][d].since
    <3>1. PICK reason \in RetryReason \cup {NoReason}, retryAt \in Nat :
            Becomes(r, d, [tasks[r][d] EXCEPT !.stage = "settling",
              !.verdict = OutcomeStatus(reason, RetryOn(reason, n)), !.retryAt = retryAt])
      BY <1>9, ConcludedTask
    <3> DEFINE task == [tasks[r][d] EXCEPT !.stage = "settling",
                 !.verdict = OutcomeStatus(reason, RetryOn(reason, n)), !.retryAt = retryAt]
    <3>2. task.since = tasks[r][d].since
      BY <1>1 DEF Task
    <3> HIDE DEF task
    <3> QED
      BY <3>1, <3>2 DEF task
  <2> QED
    BY <1>2, <1>9, <2>1 DEF Conclude, Stage
<1>10. CASE Settle(r, d) \/ SettleFails(r, d)
  BY <1>3, <1>5, <1>10 DEF Settle, SettleFails
<1>11. CASE QuarantineAppend(r, d) \/ QuarantineAppendFails(r, d)
  BY <1>3, <1>4, <1>6, <1>11 DEF QuarantineAppend, QuarantineAppendFails
<1>12. CASE Bury(r, d) \/ BuryFails(r, d)
  BY <1>4, <1>5, <1>12 DEF Bury, BuryFails
<1> QED
  BY <1>7, <1>8, <1>9, <1>10, <1>11, <1>12 DEF TaskStep

LEMMA CustodyTask ==
  ASSUME Custody, SafeDeployment, NEW r \in Replicas, NEW d \in Deliveries, TaskStep(r, d)
  PROVE  Custody'
<1>1. Typed /\ Typed'
  BY TypedTask DEF Custody
<1>2. /\ clock' = clock /\ pc' = pc /\ nowRead' = nowRead
      /\ \A q \in Replicas, e \in Deliveries :
           q # r \/ e # d => tasks'[q][e] = tasks[q][e]
      /\ \A e \in Deliveries : e # d => rows'[e] = rows[e]
      /\ Stage(r, d) # "none"
      /\ Owns(r, d)' => Owns(r, d) /\ tasks'[r][d].since = tasks[r][d].since
      /\ \/ rows'[d].status = rows[d].status /\ rows'[d].lease = rows[d].lease
         \/ ~Owns(r, d)' /\ Stage(r, d) \in {"settling", "burying"}
  BY <1>1, TaskFrame
<1>3. TasksInTick'
  BY <1>2 DEF Custody, TasksInTick, Stage
<1>4. ReadingsPast'
  BY <1>2 DEF Custody, ReadingsPast
<1>5. ASSUME NEW q \in Replicas, NEW e \in Deliveries, Owns(q, e)'
      PROVE  /\ Owns(q, e)
             /\ tasks'[q][e].since = tasks[q][e].since
             /\ rows'[e].status = rows[e].status
             /\ rows'[e].lease = rows[e].lease
  <2>1. CASE q = r /\ e = d
    BY <1>2, <1>5, <2>1
  <2>2. CASE e # d
    BY <1>2, <1>5, <2>2 DEF Owns, Stage
  <2>3. CASE q # r /\ e = d
    <3>1. Owns(q, d) /\ tasks'[q][d].since = tasks[q][d].since
      BY <1>2, <1>5, <2>3 DEF Owns, Stage
    <3>2. ~LostReplies
      BY <2>3 DEF SafeDeployment, SingleReplica, TimelyReplicas
    <3>3. Stage(r, d) \notin {"settling", "burying"}
      BY <2>3, <3>1, <3>2 DEF Custody, OneOwner, Owns, Owning, Holding, Salvage
    <3> QED
      BY <1>2, <2>3, <3>1, <3>3
  <2> QED
    BY <2>1, <2>2, <2>3
<1> QED
  BY <1>1, <1>2, <1>3, <1>4, <1>5, CustodyKept

(* A claim gives the replica rows that were not in flight.                 *)
LEMMA LeasedRows ==
  ASSUME Typed, NEW now \in Nat, NEW batch, Lease(batch, now),
         \A d \in batch : d \in Deliveries /\ Claimable(rows[d], now)
  PROVE  /\ \A d \in batch : /\ rows[d].status # "in_flight"
                             /\ rows'[d].status = "in_flight" /\ rows'[d].lease = now + LeaseTtl
         /\ \A d \in Deliveries \ batch : rows'[d] = rows[d]
<1>1. \A d \in Deliveries : rows[d] \in Row
  BY DEF Typed, TypeOK
<1>2. \A d \in batch : rows'[d] = [rows[d] EXCEPT !.status = "in_flight", !.lease = now + LeaseTtl]
  BY <1>1, ClaimedRow DEF Lease
<1> QED
  BY <1>1, <1>2 DEF Lease, Claimable, Row

LEMMA CustodyTick ==
  ASSUME Custody, SafeDeployment, NEW r \in Replicas, TickStep(r)
  PROVE  Custody'
<1>1. Typed /\ Typed' /\ clock \in Nat /\ nowRead[r] \in Nat /\ nowRead \in [Replicas -> Nat]
      /\ pc \in [Replicas -> {"idle", "reclaim", "claim", "gather", "down"}]
  BY TypedTick DEF Custody, Typed, TypeOK
<1>2. CASE BeginTick(r) \/ EndTick(r) \/ Start(r)
  <2>1. TasksInTick' /\ ReadingsPast' /\ clock' = clock
    BY <1>1, <1>2 DEF BeginTick, EndTick, Start, Custody, TasksInTick, ReadingsPast, Stage
  <2> QED
    BY <1>1, <1>2, <2>1, CustodyKept DEF BeginTick, EndTick, Start, Owns, Stage
<1>3. ASSUME ThenClaim(r)
      PROVE  TasksInTick' /\ ReadingsPast' /\ clock' = clock /\ tasks' = tasks
  BY <1>1, <1>3, DispatchAssumption DEF ThenClaim, Custody, TasksInTick, ReadingsPast, Stage
<1>4. CASE ReclaimStale(r)
  <2>1. \A q \in Replicas, d \in Deliveries : Owns(q, d) => rows'[d] = rows[d]
    <3> SUFFICES ASSUME NEW q \in Replicas, NEW d \in Deliveries, Owns(q, d)
                 PROVE  ~Stale(rows[d], nowRead[r])
      BY <1>1, <1>4, ReclaimedRow DEF ReclaimStale, Typed, TypeOK
    <3>1. Stage(q, d) # "none" /\ Stage(r, d) = "none"
      BY <1>4 DEF ReclaimStale, ThenClaim, Custody, TasksInTick, Owns, Owning, Holding, Salvage
    <3>2. TimelyReplicas
      BY <3>1 DEF SafeDeployment, SingleReplica
    <3>3. /\ nowRead[r] <= clock /\ clock <= tasks[q][d].since + HoldBound
          /\ rows[d].lease = tasks[q][d].since + LeaseTtl /\ tasks[q][d].since \in Nat
      BY <1>1 DEF Custody, ReadingsPast, LeasedToOwner, Typed, TypeOK, Task
    <3> QED
      BY <1>1, <3>2, <3>3, StoreAssumption, DispatchAssumption DEF Stale, TimelyReplicas
  <2> QED
    BY <1>1, <1>3, <1>4, <2>1, CustodyKept DEF ReclaimStale, Owns, Stage
<1>5. CASE ReclaimFails(r)
  BY <1>1, <1>3, <1>5, CustodyKept DEF ReclaimFails, Owns, Stage
<1>6. CASE ClaimBatch(r)
  <2>1. PICK batch \in Batches(nowRead[r]) :
          /\ Lease(batch, nowRead[r])
          /\ tasks' = [tasks EXCEPT ![r] = [d \in Deliveries |->
               IF d \in batch THEN NewTask(rows[d], nowRead[r]) ELSE @[d]]]
          /\ pc' = [pc EXCEPT ![r] = IF batch = {} THEN "idle" ELSE "gather"]
          /\ pc[r] = "claim" /\ clock' = clock /\ nowRead' = [nowRead EXCEPT ![r] = 0]
    BY <1>6 DEF ClaimBatch
  <2>2. \A d \in batch : d \in Deliveries /\ Claimable(rows[d], nowRead[r])
    BY <2>1 DEF Batches
  <2>3. /\ \A d \in batch :
             /\ rows[d].status # "in_flight"
             /\ rows'[d].status = "in_flight" /\ rows'[d].lease = nowRead[r] + LeaseTtl
        /\ \A d \in Deliveries \ batch : rows'[d] = rows[d]
    BY <1>1, <2>1, <2>2, LeasedRows
  <2>4. \A d \in Deliveries : Stage(r, d) = "none"
    BY <2>1 DEF Custody, TasksInTick
  <2>5. /\ \A d \in batch : Stage(r, d)' = "queued" /\ tasks'[r][d].since = nowRead[r]
        /\ \A q \in Replicas, d \in Deliveries : q # r \/ d \notin batch => tasks'[q][d] = tasks[q][d]
    BY <1>1, <2>1, <2>2 DEF Typed, TypeOK, NewTask, NoTask, Stage
  <2>6. \A q \in Replicas, d \in Deliveries : Owns(q, d)' =>
          \/ q = r /\ d \in batch
          \/ d \notin batch /\ Owns(q, d) /\ tasks'[q][d] = tasks[q][d]
    BY <2>3, <2>5 DEF Custody, LeasedToOwner, Owns, Stage
  <2>7. TasksInTick'
    BY <1>1, <2>1, <2>4, <2>5 DEF Custody, TasksInTick, Stage
  <2>8. ReadingsPast'
    BY <1>1, <2>1 DEF Custody, ReadingsPast
  <2>9. LeasedToOwner'
    <3> SUFFICES ASSUME NEW q \in Replicas, NEW d \in Deliveries, Owns(q, d)'
                 PROVE  /\ rows'[d].status = "in_flight"
                        /\ rows'[d].lease = tasks'[q][d].since + LeaseTtl
                        /\ clock' <= tasks'[q][d].since + HoldBound
      BY DEF LeasedToOwner
    <3>1. CASE q = r /\ d \in batch
      <4>1. /\ rows'[d].status = "in_flight"
            /\ rows'[d].lease = nowRead[r] + LeaseTtl
        BY <2>3, <3>1
      <4>2. tasks'[q][d].since = nowRead[r]
        BY <2>5, <3>1
      <4>3. clock' <= nowRead[r] + HoldBound
        BY <2>1 DEF Custody, ReadingsPast
      <4> QED
        BY <4>1, <4>2, <4>3
    <3>2. CASE d \notin batch /\ Owns(q, d) /\ tasks'[q][d] = tasks[q][d]
      BY <2>1, <2>3, <3>2 DEF Custody, LeasedToOwner
    <3> QED
      BY <2>6, <3>1, <3>2
  <2>10. OneOwner'
    BY <2>6 DEF Custody, OneOwner
  <2> QED
    BY <1>1, <2>7, <2>8, <2>9, <2>10 DEF Custody
<1>7. CASE ClaimFails(r)
  <2>1. PICK batch \in LeasedByFailure(nowRead[r]) : Lease(batch, nowRead[r])
    BY <1>7 DEF ClaimFails
  <2>2. \A d \in batch : d \in Deliveries /\ Claimable(rows[d], nowRead[r])
    BY <2>1 DEF LeasedByFailure, Batches
  <2>3. /\ \A d \in batch : rows[d].status # "in_flight"
        /\ \A d \in Deliveries \ batch : rows'[d] = rows[d]
    BY <1>1, <2>1, <2>2, LeasedRows
  <2>4. TasksInTick' /\ ReadingsPast' /\ clock' = clock /\ tasks' = tasks
    BY <1>1, <1>7 DEF ClaimFails, Custody, TasksInTick, ReadingsPast, Stage
  <2>5. \A q \in Replicas, d \in Deliveries : Owns(q, d) => rows'[d] = rows[d]
    BY <2>3 DEF Custody, LeasedToOwner
  <2> QED
    BY <1>1, <2>4, <2>5, CustodyKept DEF Owns, Stage
<1> QED
  BY <1>2, <1>4, <1>5, <1>6, <1>7 DEF TickStep

LEMMA CustodyStep == SafeDeployment /\ Custody /\ [Next]_vars => Custody'
<1> SUFFICES ASSUME SafeDeployment, Custody, [Next]_vars PROVE Custody'
  OBVIOUS
<1>1. Typed /\ Typed' /\ clock \in Nat
  BY TypedStep DEF Custody, Typed, TypeOK
<1>2. ASSUME NEW d \in Deliveries, Enqueue(d) PROVE Custody'
  <2>1. rows[d].status = "absent" /\ \A e \in Deliveries : e # d => rows'[e] = rows[e]
    BY <1>1, <1>2 DEF Enqueue, Typed, TypeOK
  <2>2. \A q \in Replicas, e \in Deliveries : Owns(q, e) => rows'[e] = rows[e]
    BY <2>1 DEF Custody, LeasedToOwner
  <2>3. TasksInTick' /\ ReadingsPast' /\ clock' = clock /\ tasks' = tasks
    BY <1>2 DEF Enqueue, Custody, TasksInTick, ReadingsPast, Stage
  <2> QED
    BY <1>1, <2>2, <2>3, CustodyKept DEF Owns, Stage
<1>3. ASSUME NEW r \in Replicas, Stop(r) PROVE Custody'
  <2>1. /\ \A d \in Deliveries : Stage(r, d)' = "none"
        /\ \A q \in Replicas : q # r => tasks'[q] = tasks[q] /\ pc'[q] = pc[q]
    BY <1>1, <1>3 DEF Stop, Typed, TypeOK, Stage, NoTask
  <2>2. \A q \in Replicas, d \in Deliveries : Owns(q, d)' => q # r
    BY <2>1 DEF Owns, Owning, Holding, Salvage
  <2>3. TasksInTick'
    BY <2>1 DEF Custody, TasksInTick, Stage
  <2>4. ReadingsPast'
    BY <1>1, <1>3 DEF Stop, Custody, ReadingsPast, Typed, TypeOK
  <2>5. clock' = clock /\ rows' = rows
    BY <1>3 DEF Stop
  <2> QED
    BY <1>1, <2>1, <2>2, <2>3, <2>4, <2>5, CustodyKept DEF Owns, Stage
<1>4. CASE Advance
  <2>1. UNCHANGED <<rows, pc, nowRead, tasks>> /\ clock' = clock + 1
    BY <1>4 DEF Advance
  <2>2. ReadingsPast'
    BY <1>1, <1>4, <2>1, DispatchAssumption
       DEF Advance, WithinHold, Custody, ReadingsPast, Typed, TypeOK
  <2>3. LeasedToOwner'
    <3> SUFFICES ASSUME NEW r \in Replicas, NEW d \in Deliveries, Owns(r, d)
                 PROVE  clock + 1 <= tasks[r][d].since + HoldBound
      BY <2>1 DEF Custody, LeasedToOwner, Owns, Stage
    <3>1. clock < tasks[r][d].since + HoldBound
      BY <1>4 DEF Advance, WithinHold, Owns, Owning
    <3>2. tasks[r][d].since \in Nat
      BY <1>1 DEF Typed, TypeOK, Task
    <3> QED
      BY <1>1, <3>1, <3>2, DispatchAssumption
  <2> QED
    BY <1>1, <2>1, <2>2, <2>3 DEF Custody, TasksInTick, OneOwner, Owns, Stage
<1>5. CASE UNCHANGED vars
  BY <1>1, <1>5
     DEF vars, Custody, TasksInTick, ReadingsPast, LeasedToOwner, OneOwner, Owns, Stage
<1> QED
  BY <1>2, <1>3, <1>4, <1>5, CustodyTick, CustodyTask DEF Next, ReplicaStep

LEMMA CustodyAlways == SafeDeployment /\ Spec => []Custody
<1> SUFFICES ASSUME SafeDeployment PROVE Spec => []Custody
  OBVIOUS
<1>1. Custody /\ [Next]_vars => Custody'
  BY CustodyStep
<1> QED
  BY CustodyInit, <1>1, PTL DEF Spec

(* In a safe deployment no task outlives its claim on the row: neither     *)
(* reclaim_stale nor another replica's claim_batch takes the row before    *)
(* the call that settles it, however many replicas and deliveries there    *)
(* are and whatever crashes.                                               *)
THEOREM ExclusiveLeases == SafeDeployment /\ Spec => []ExclusiveLease
<1>1. Custody => ExclusiveLease
  <2> SUFFICES ASSUME Custody, NEW r \in Replicas, NEW d \in Deliveries, Stage(r, d) \in Holding
               PROVE  /\ rows[d].status = "in_flight"
                      /\ rows[d].lease = tasks[r][d].since + LeaseTtl
                      /\ \A q \in Replicas \ {r} : Stage(q, d) \notin Holding
    BY DEF ExclusiveLease
  <2>1. \A q \in Replicas : Stage(q, d) \in Holding => Owns(q, d)
    BY DEF Owns, Owning
  <2> QED
    BY <2>1 DEF Custody, LeasedToOwner, OneOwner
<1> QED
  BY <1>1, CustodyAlways, PTL

(* deploy.md's promise to replicas, in the deployments it holds in: no two *)
(* replicas POST the same delivery at the same time.                       *)
THEOREM NoDoublePosts == SafeDeployment /\ Spec => []NoDoublePost
<1>1. ExclusiveLease => NoDoublePost
  BY DEF ExclusiveLease, NoDoublePost, Holding
<1> QED
  BY <1>1, ExclusiveLeases, PTL
===============================================================================
