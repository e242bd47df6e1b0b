----------------------------- MODULE PromiseProofs ----------------------------
(***************************************************************************)
(* What follows from custody of the leases: a task's snapshot of its row   *)
(* stays current, due times are respected, final reports are final, and    *)
(* Dispatch implements DeliveryLifecycle.  Those two are false when a      *)
(* store call may raise although it took effect: _quarantine then          *)
(* dead-letters a delivery that mark_sent has settled.  The attempt log is *)
(* complete, a receiver's load is bounded, a delivery whose send keeps     *)
(* raising ends in quarantine on Postgres, and the wait a receiver asked   *)
(* for is kept to within the time a task holds its row.                    *)
(***************************************************************************)
EXTENDS DispatchProofs

-------------------------------------------------------------------------------
(* The parts of a task and of its row that a step of the task may change.  *)
LEMMA TaskProgress ==
  ASSUME Typed, NEW r \in Replicas, NEW d \in Deliveries, TaskStep(r, d)
  PROVE  /\ Stage(r, d) \notin {"settling", "unhandled", "burying"} => rows' = rows
         /\ Stage(r, d)' \in Holding =>
              /\ Stage(r, d) \in {"queued", "waiting", "posting"}
              /\ tasks'[r][d].attempt = tasks[r][d].attempt
              /\ tasks'[r][d].since = tasks[r][d].since
         /\ Stage(r, d)' \in {"waiting", "posting"} =>
              \/ tasks'[r][d].sentAt = clock
              \/ Stage(r, d) = "waiting" /\ tasks'[r][d].sentAt = tasks[r][d].sentAt
<1> USE DEF Typed, Stage, Holding
<1>1. tasks[r][d] \in Task
  BY DEF TypeOK
<1>2. ASSUME NEW t, Becomes(r, d, t)
      PROVE  tasks'[r][d] = t
  BY <1>2, OneTask
<1>3. ASSUME NEW stage, To(r, d, stage)
      PROVE  /\ tasks'[r][d].stage = stage
             /\ tasks'[r][d].attempt = tasks[r][d].attempt
             /\ tasks'[r][d].since = tasks[r][d].since
             /\ tasks'[r][d].sentAt = tasks[r][d].sentAt
  <2>1. tasks'[r][d] = [tasks[r][d] EXCEPT !.stage = stage]
    BY <1>2, <1>3 DEF To
  <2> QED
    BY <1>1, <2>1 DEF Task
<1>4. ASSUME Ends(r, d)
      PROVE  tasks'[r][d].stage = "none"
  BY <1>2, <1>4 DEF Ends, NoTask
<1>5. CASE Prepare(r, d)
  BY <1>1, <1>2, <1>5 DEF Prepare, EnterGate, Task
<1>6. CASE Reject(r, d)
  BY <1>1, <1>2, <1>6 DEF Reject, EnterGate, Task
<1>7. CASE Raise(r, d) \/ Post(r, d)
  BY <1>3, <1>7 DEF Raise, Post, EnterGate
<1>8. CASE Conclude(r, d)
  <2>1. PICK reason \in RetryReason \cup {NoReason}, retryAt \in Nat :
          Becomes(r, d, [tasks[r][d] EXCEPT !.stage = "settling",
            !.verdict = OutcomeStatus(reason, RetryOn(reason, tasks[r][d].attempt)),
            !.retryAt = retryAt])
    BY <1>8, ConcludedTask
  <2> DEFINE verdict == OutcomeStatus(reason, RetryOn(reason, tasks[r][d].attempt))
  <2> HIDE DEF verdict
  <2>2. tasks'[r][d] = [tasks[r][d] EXCEPT !.stage = "settling", !.verdict = verdict,
                                           !.retryAt = retryAt]
    BY <1>2, <2>1 DEF verdict
  <2> QED
    BY <1>1, <1>8, <2>2 DEF Conclude, Task
<1>9. CASE Settle(r, d) \/ SettleFails(r, d)
  BY <1>3, <1>9 DEF Settle, SettleFails
<1>10. CASE Notify(r, d) \/ QuarantineAppendFails(r, d) \/ Bury(r, d) \/ BuryFails(r, d)
  BY <1>4, <1>10 DEF Notify, QuarantineAppendFails, Bury, BuryFails
<1>11. CASE QuarantineAppend(r, d)
  BY <1>3, <1>4, <1>11 DEF QuarantineAppend
<1> QED
  BY <1>5, <1>6, <1>7, <1>8, <1>9, <1>10, <1>11 DEF TaskStep

(* No other task settles, logs or buries a row somebody holds.             *)
LEMMA HolderUndisturbed ==
  ASSUME Custody, SafeDeployment, NEW r \in Replicas, NEW d \in Deliveries, TaskStep(r, d),
         NEW q \in Replicas, NEW e \in Deliveries, q # r \/ e # d, Stage(q, e) \in Holding
  PROVE  rows'[e] = rows[e] /\ tasks'[q][e] = tasks[q][e]
<1>1. /\ tasks'[q][e] = tasks[q][e]
      /\ e # d => rows'[e] = rows[e]
  BY TaskFrame DEF Custody
<1>2. CASE e = d
  <2>1. ~LostReplies
    BY <1>2 DEF SafeDeployment, SingleReplica, TimelyReplicas
  <2>2. Stage(r, d) \notin {"settling", "unhandled", "burying"}
    BY <1>2, <2>1 DEF Custody, OneOwner, Owns, Owning, Holding, Salvage
  <2> QED
    BY <1>1, <1>2, <2>2, TaskProgress DEF Custody
<1> QED
  BY <1>1, <1>2

-------------------------------------------------------------------------------
(* The snapshot a task took at its claim, and the due time the claim met.  *)
SnapshotOf(r, d) ==
  /\ tasks[r][d].attempt = rows[d].attempts + 1
  /\ rows[d].fireAt <= tasks[r][d].since
  /\ tasks[r][d].since <= clock
  /\ Stage(r, d) \in {"waiting", "posting"} => tasks[r][d].since <= tasks[r][d].sentAt

Snapshots == \A r \in Replicas, d \in Deliveries : Stage(r, d) \in Holding => SnapshotOf(r, d)

LEMMA SnapshotsInit == Init => Snapshots
BY DEF Init, Snapshots, Stage, NoTask, Holding

LEMMA SnapshotsTask ==
  ASSUME Custody, SafeDeployment, Snapshots, NEW r \in Replicas, NEW d \in Deliveries,
         TaskStep(r, d)
  PROVE  Snapshots'
<1> SUFFICES ASSUME NEW q \in Replicas, NEW e \in Deliveries, Stage(q, e)' \in Holding
             PROVE  SnapshotOf(q, e)'
  BY DEF Snapshots
<1>1. /\ clock' = clock /\ clock \in Nat
      /\ \A p \in Replicas, f \in Deliveries : tasks[p][f] \in Task
  BY TaskFrame DEF Custody, Typed, TypeOK
<1>2. CASE q = r /\ e = d
  <2>1. /\ Stage(r, d) \in {"queued", "waiting", "posting"}
        /\ tasks'[r][d].attempt = tasks[r][d].attempt
        /\ tasks'[r][d].since = tasks[r][d].since
        /\ rows' = rows
        /\ Stage(r, d)' \in {"waiting", "posting"} =>
             \/ tasks'[r][d].sentAt = clock
             \/ Stage(r, d) = "waiting" /\ tasks'[r][d].sentAt = tasks[r][d].sentAt
    BY <1>2, TaskProgress DEF Custody
  <2>2. SnapshotOf(r, d)
    BY <2>1 DEF Snapshots, Holding
  <2> QED
    BY <1>1, <1>2, <2>1, <2>2 DEF SnapshotOf, Task
<1>3. CASE q # r \/ e # d
  <2>1. tasks'[q][e] = tasks[q][e]
    BY <1>3, TaskFrame DEF Custody
  <2>2. rows'[e] = rows[e] /\ Stage(q, e) \in Holding
    BY <1>3, <2>1, HolderUndisturbed DEF Stage
  <2> QED
    BY <1>1, <2>1, <2>2 DEF Snapshots, SnapshotOf, Stage
<1> QED
  BY <1>2, <1>3

(* A step that changes neither a holder's task nor its row keeps its       *)
(* snapshot, whatever it does to the clock.                                *)
LEMMA SnapshotsKept ==
  ASSUME Custody, Snapshots, clock' \in Nat, clock <= clock',
         \A r \in Replicas, d \in Deliveries : Stage(r, d)' \in Holding =>
           rows'[d] = rows[d] /\ tasks'[r][d] = tasks[r][d]
  PROVE  Snapshots'
<1> SUFFICES ASSUME NEW r \in Replicas, NEW d \in Deliveries, Stage(r, d)' \in Holding
             PROVE  SnapshotOf(r, d)'
  BY DEF Snapshots
<1>1. rows'[d] = rows[d] /\ tasks'[r][d] = tasks[r][d] /\ SnapshotOf(r, d)
  BY DEF Snapshots, Stage
<1>2. clock \in Nat /\ tasks[r][d].since \in Nat
  BY DEF Custody, Typed, TypeOK, Task
<1> QED
  BY <1>1, <1>2 DEF SnapshotOf, Stage

LEMMA SnapshotsTick ==
  ASSUME Custody, SafeDeployment, Snapshots, NEW r \in Replicas, TickStep(r)
  PROVE  Snapshots'
<1>1. /\ Typed /\ Custody' /\ clock \in Nat /\ clock' = clock /\ nowRead[r] \in Nat
      /\ nowRead[r] <= clock
  BY CustodyTick DEF Custody, Typed, TypeOK, ReadingsPast, TickStep, BeginTick, ReclaimStale,
     ReclaimFails, ThenClaim, ClaimBatch, ClaimFails, EndTick, Start
<1>2. CASE BeginTick(r) \/ EndTick(r) \/ Start(r) \/ ReclaimFails(r)
  BY <1>1, <1>2, SnapshotsKept DEF BeginTick, EndTick, Start, ReclaimFails, ThenClaim
<1>3. \A q \in Replicas, d \in Deliveries : Stage(q, d) \in Holding => rows[d].status = "in_flight"
  BY DEF Custody, LeasedToOwner, Owns, Owning
<1>4. CASE ReclaimStale(r)
  <2>1. \A q \in Replicas, d \in Deliveries : Stage(q, d) \in Holding => rows'[d].status = "in_flight"
    BY <1>1, <1>4 DEF ReclaimStale, ThenClaim, Custody, LeasedToOwner, Owns, Owning, Stage
  <2>2. ASSUME NEW d \in Deliveries, rows'[d].status = "in_flight"
        PROVE  rows'[d] = rows[d]
    <3>1. /\ rows'[d] = Reclaimed(rows[d], nowRead[r])
          /\ rows[d] \in Row
      BY <1>1, <1>4 DEF ReclaimStale, Typed, TypeOK
    <3>2. [rows[d] EXCEPT !.status = "pending", !.lease = NoLease].status = "pending"
      BY <3>1 DEF Row
    <3> QED
      BY <1>1, <2>2, <3>1, <3>2, ReclaimedRow
  <2> QED
    BY <1>1, <1>4, <2>1, <2>2, SnapshotsKept DEF ReclaimStale, ThenClaim, Stage
<1>5. CASE ClaimFails(r)
  <2>1. PICK batch \in LeasedByFailure(nowRead[r]) : Lease(batch, nowRead[r])
    BY <1>5 DEF ClaimFails
  <2>2. \A d \in batch : d \in Deliveries /\ Claimable(rows[d], nowRead[r])
    BY <2>1 DEF LeasedByFailure, Batches
  <2>3. /\ \A d \in batch : rows[d].status # "in_flight"
        /\ \A d \in Deliveries \ batch : rows'[d] = rows[d]
    BY <1>1, <2>1, <2>2, LeasedRows
  <2>4. \A q \in Replicas, d \in Deliveries : Stage(q, d) \in Holding => rows'[d] = rows[d]
    BY <1>3, <1>5, <2>3 DEF ClaimFails
  <2> QED
    BY <1>1, <1>5, <2>4, SnapshotsKept DEF ClaimFails, Stage
<1>6. CASE ClaimBatch(r)
  <2>1. PICK batch \in Batches(nowRead[r]) :
          /\ Lease(batch, nowRead[r])
          /\ tasks' = [tasks EXCEPT ![r] = [d \in Deliveries |->
               IF d \in batch THEN NewTask(rows[d], nowRead[r]) ELSE @[d]]]
    BY <1>6 DEF ClaimBatch
  <2>2. \A d \in batch : d \in Deliveries /\ Claimable(rows[d], nowRead[r])
    BY <2>1 DEF Batches
  <2>3. /\ \A d \in batch : rows[d].status # "in_flight"
        /\ \A d \in Deliveries \ batch : rows'[d] = rows[d]
    BY <1>1, <2>1, <2>2, LeasedRows
  <2> SUFFICES ASSUME NEW q \in Replicas, NEW d \in Deliveries, Stage(q, d)' \in Holding
               PROVE  SnapshotOf(q, d)'
    BY DEF Snapshots
  <2>4. CASE q = r /\ d \in batch
    <3>1. /\ tasks'[r][d].attempt = rows[d].attempts + 1
          /\ tasks'[r][d].since = nowRead[r]
          /\ Stage(r, d)' = "queued"
      BY <1>1, <2>1, <2>4 DEF NewTask, NoTask, Typed, TypeOK, Stage
    <3>2. rows[d] \in Row /\ rows[d].fireAt <= nowRead[r]
      BY <1>1, <2>2, <2>4 DEF Claimable, Typed, TypeOK
    <3>3. rows'[d].attempts = rows[d].attempts /\ rows'[d].fireAt = rows[d].fireAt
      <4>1. rows'[d] = [rows[d] EXCEPT !.status = "in_flight", !.lease = nowRead[r] + LeaseTtl]
        BY <1>1, <2>1, <2>4, <3>2, ClaimedRow DEF Lease
      <4> QED
        BY <3>2, <4>1 DEF Row
    <3> QED
      BY <1>1, <2>4, <3>1, <3>2, <3>3 DEF SnapshotOf
  <2>5. CASE q # r \/ d \notin batch
    <3>1. tasks'[q][d] = tasks[q][d] /\ Stage(q, d) \in Holding
      BY <1>1, <2>1, <2>5 DEF Typed, TypeOK, Stage
    <3>2. rows[d].status = "in_flight"
      BY <1>3, <3>1
    <3>3. rows'[d] = rows[d]
      BY <2>3, <3>2
    <3> QED
      BY <1>1, <3>1, <3>3 DEF Snapshots, SnapshotOf, Stage
  <2> QED
    BY <2>4, <2>5
<1> QED
  BY <1>2, <1>4, <1>5, <1>6 DEF TickStep

LEMMA SnapshotsStep == SafeDeployment /\ Custody /\ Snapshots /\ [Next]_vars => Snapshots'
<1> SUFFICES ASSUME SafeDeployment, Custody, Snapshots, [Next]_vars PROVE Snapshots'
  OBVIOUS
<1>1. Typed /\ clock \in Nat
  BY DEF Custody, Typed, TypeOK
<1>2. ASSUME NEW d \in Deliveries, Enqueue(d) PROVE Snapshots'
  <2>1. /\ rows[d].status = "absent" /\ clock' = clock /\ tasks' = tasks
        /\ \A e \in Deliveries : e # d => rows'[e] = rows[e]
    BY <1>1, <1>2 DEF Enqueue, Typed, TypeOK
  <2>2. \A r \in Replicas, e \in Deliveries : Stage(r, e) \in Holding => e # d
    BY <2>1 DEF Custody, LeasedToOwner, Owns, Owning
  <2> QED
    BY <1>1, <2>1, <2>2, SnapshotsKept DEF Stage
<1>3. ASSUME NEW r \in Replicas, Stop(r) PROVE Snapshots'
  <2>1. /\ \A d \in Deliveries : Stage(r, d)' = "none"
        /\ \A q \in Replicas : q # r => tasks'[q] = tasks[q]
        /\ rows' = rows /\ clock' = clock
    BY <1>1, <1>3 DEF Stop, Typed, TypeOK, Stage, NoTask
  <2>2. \A q \in Replicas, d \in Deliveries : Stage(q, d)' \in Holding => q # r
    BY <2>1 DEF Holding
  <2> QED
    BY <1>1, <2>1, <2>2, SnapshotsKept
<1>4. CASE Advance
  BY <1>1, <1>4, SnapshotsKept DEF Advance
<1>5. CASE UNCHANGED vars
  BY <1>1, <1>5, SnapshotsKept DEF vars
<1> QED
  BY <1>2, <1>3, <1>4, <1>5, SnapshotsTick, SnapshotsTask DEF Next, ReplicaStep

LEMMA SnapshotsAlways == SafeDeployment /\ Spec => []Snapshots
<1> SUFFICES ASSUME SafeDeployment PROVE Spec => []Snapshots
  OBVIOUS
<1>1. Spec => []Custody
  BY CustodyAlways
<1>2. Custody /\ Snapshots /\ [Next]_vars => Snapshots'
  BY SnapshotsStep
<1> QED
  BY SnapshotsInit, <1>1, <1>2, PTL DEF Spec

(* The attempt number a task settles with is the one after the last that   *)
(* was counted: send's snapshot of the row has not gone stale.             *)
THEOREM CurrentSnapshots == SafeDeployment /\ Spec => []SnapshotIsCurrent
<1>1. Snapshots => SnapshotIsCurrent
  BY DEF Snapshots, SnapshotOf, SnapshotIsCurrent
<1> QED
  BY <1>1, SnapshotsAlways, PTL

(* No receiver is called before the time the last schedule_retry set.      *)
THEOREM RespectedBackoff == SafeDeployment /\ Spec => []BackoffRespected
<1>1. Custody /\ Snapshots => BackoffRespected
  <2> SUFFICES ASSUME Custody, Snapshots, NEW r \in Replicas, NEW d \in Deliveries,
                      Stage(r, d) = "posting"
               PROVE  tasks[r][d].sentAt >= rows[d].fireAt
    BY DEF BackoffRespected
  <2>1. SnapshotOf(r, d)
    BY DEF Snapshots, Holding
  <2>2. tasks[r][d].sentAt \in Nat /\ tasks[r][d].since \in Nat /\ rows[d].fireAt \in Nat
    BY DEF Custody, Typed, TypeOK, Task, Row
  <2> QED
    BY <2>1, <2>2 DEF SnapshotOf
<1> QED
  BY <1>1, CustodyAlways, SnapshotsAlways, PTL

-------------------------------------------------------------------------------
(* How a row moves.  Only the task that owns it moves it out of flight, and *)
(* everything else moves rows between the open statuses, when no reply is  *)
(* lost.                                                                   *)
Open == {"pending", "in_flight", "failed_retry"}

LEMMA TickMoves ==
  ASSUME Typed, NEW r \in Replicas, TickStep(r), NEW d \in Deliveries
  PROVE  \/ rows'[d] = rows[d]
         \/ rows[d].status \in Open /\ rows'[d].status \in Open
<1>1. rows[d] \in Row /\ nowRead[r] \in Nat
  BY DEF Typed, TypeOK
<1>2. CASE BeginTick(r) \/ EndTick(r) \/ Start(r) \/ ReclaimFails(r)
  BY <1>2 DEF BeginTick, EndTick, Start, ReclaimFails
<1>3. CASE ReclaimStale(r)
  <2>1. rows'[d] = Reclaimed(rows[d], nowRead[r])
    BY <1>3 DEF ReclaimStale
  <2>2. [rows[d] EXCEPT !.status = "pending", !.lease = NoLease].status = "pending"
    BY <1>1 DEF Row
  <2> QED
    BY <1>1, <2>1, <2>2, ReclaimedRow DEF Stale, Open
<1>4. ASSUME NEW batch, Lease(batch, nowRead[r]),
             \A e \in batch : e \in Deliveries /\ Claimable(rows[e], nowRead[r])
      PROVE  \/ rows'[d] = rows[d]
             \/ rows[d].status \in Open /\ rows'[d].status \in Open
  BY <1>1, <1>4, LeasedRows DEF Claimable, Open
<1>5. CASE ClaimBatch(r)
  BY <1>4, <1>5 DEF ClaimBatch, Batches
<1>6. CASE ClaimFails(r)
  <2>1. PICK batch \in LeasedByFailure(nowRead[r]) : Lease(batch, nowRead[r])
    BY <1>6 DEF ClaimFails
  <2>2. \A e \in batch : e \in Deliveries /\ Claimable(rows[e], nowRead[r])
    BY <2>1 DEF LeasedByFailure, Batches
  <2> QED
    BY <1>4, <2>1, <2>2
<1> QED
  BY <1>2, <1>3, <1>5, <1>6 DEF TickStep

LEMMA TaskMoves ==
  ASSUME Custody, ~LostReplies, NEW r \in Replicas, NEW d \in Deliveries, TaskStep(r, d)
  PROVE  /\ \A e \in Deliveries : e # d => rows'[e] = rows[e]
         /\ rows'[d].status = rows[d].status \/ rows[d].status = "in_flight"
<1>1. /\ \A e \in Deliveries : e # d => rows'[e] = rows[e]
      /\ rows'[d].status = rows[d].status \/ Stage(r, d) \in {"settling", "burying"}
  BY TaskFrame DEF Custody
<1>2. Stage(r, d) \in {"settling", "burying"} => rows[d].status = "in_flight"
  BY DEF Custody, LeasedToOwner, Owns, Owning, Holding, Salvage
<1> QED
  BY <1>1, <1>2

(* mark_sent and mark_dead are final, in a safe deployment that loses no   *)
(* reply of its store.                                                     *)
THEOREM FinalReports == SafeDeployment /\ ~LostReplies /\ Spec => TerminalIsFinal
<1> SUFFICES ASSUME SafeDeployment, ~LostReplies PROVE Spec => TerminalIsFinal
  OBVIOUS
<1> DEFINE Final == \A d \in Deliveries :
             rows[d].status \in Terminal => rows'[d].status = rows[d].status
<1>1. Custody /\ [Next]_vars => [Final]_vars
  <2> SUFFICES ASSUME Custody, Next, NEW e \in Deliveries, rows[e].status \in Terminal
               PROVE  rows'[e].status = rows[e].status
    BY DEF vars
  <2>1. ASSUME NEW d \in Deliveries, Enqueue(d) PROVE rows'[e].status = rows[e].status
    BY <2>1 DEF Enqueue, Terminal, Custody, Typed, TypeOK
  <2>2. ASSUME NEW r \in Replicas, TickStep(r) PROVE rows'[e].status = rows[e].status
    BY <2>2, TickMoves DEF Open, Terminal, Custody
  <2>3. ASSUME NEW r \in Replicas, NEW d \in Deliveries, TaskStep(r, d)
        PROVE  rows'[e].status = rows[e].status
    BY <2>3, TaskMoves DEF Terminal
  <2>4. ASSUME NEW r \in Replicas, Stop(r) PROVE rows'[e].status = rows[e].status
    BY <2>4 DEF Stop
  <2>5. CASE Advance
    BY <2>5 DEF Advance
  <2> QED
    BY <2>1, <2>2, <2>3, <2>4, <2>5 DEF Next, ReplicaStep
<1>2. Spec => []Custody
  BY CustodyAlways
<1> QED
  BY <1>1, <1>2, PTL DEF Spec, TerminalIsFinal

-------------------------------------------------------------------------------
(* Dispatch implements DeliveryLifecycle.                                  *)
VerdictHonest ==
  \A r \in Replicas, d \in Deliveries :
    Stage(r, d) = "settling" /\ tasks[r][d].verdict = "sent" => acked[d]

LEMMA OutcomeHonest ==
  ASSUME NEW reason \in RetryReason \cup {NoReason}, NEW willRetry \in BOOLEAN,
         OutcomeStatus(reason, willRetry) = "sent"
  PROVE  reason = NoReason
BY DEF OutcomeStatus

LEMMA VerdictHonestInit == Init => VerdictHonest
BY DEF Init, VerdictHonest, Stage, NoTask

LEMMA VerdictHonestTask ==
  ASSUME Typed, VerdictHonest, NEW r \in Replicas, NEW d \in Deliveries, TaskStep(r, d)
  PROVE  VerdictHonest'
<1> USE DEF Typed
<1>1. tasks[r][d] \in Task /\ acked \in [Deliveries -> BOOLEAN]
  BY DEF TypeOK
<1>2. \A q \in Replicas, e \in Deliveries : q # r \/ e # d => tasks'[q][e] = tasks[q][e]
  BY TaskFrame
<1>3. CASE Conclude(r, d)
  <2>1. PICK reason \in RetryReason \cup {NoReason}, retryAt \in Nat :
          /\ Becomes(r, d, [tasks[r][d] EXCEPT !.stage = "settling",
               !.verdict = OutcomeStatus(reason, RetryOn(reason, tasks[r][d].attempt)),
               !.retryAt = retryAt])
          /\ acked' = [acked EXCEPT ![d] = @ \/ reason = NoReason]
    BY <1>3, ConcludedTask
  <2> DEFINE willRetry == RetryOn(reason, tasks[r][d].attempt)
             verdict   == OutcomeStatus(reason, willRetry)
  <2>2. verdict = "sent" => reason = NoReason
    BY OutcomeHonest DEF RetryOn
  <2>3. Becomes(r, d, [tasks[r][d] EXCEPT !.stage = "settling", !.verdict = verdict,
                                          !.retryAt = retryAt])
    BY <2>1
  <2> HIDE DEF verdict
  <2>4. tasks'[r][d].verdict = verdict
    <3>1. tasks'[r][d] = [tasks[r][d] EXCEPT !.stage = "settling", !.verdict = verdict,
                                             !.retryAt = retryAt]
      BY <2>3, OneTask
    <3> QED
      BY <1>1, <3>1 DEF Task
  <2>5. (\A e \in Deliveries : acked[e] => acked'[e]) /\ (reason = NoReason => acked'[d])
    BY <1>1, <2>1
  <2> QED
    BY <1>2, <2>2, <2>4, <2>5 DEF VerdictHonest, Stage
<1>4. CASE ~Conclude(r, d)
  <2>1. acked' = acked
    <3>1. CASE Prepare(r, d) \/ Reject(r, d) \/ Raise(r, d) \/ Notify(r, d)
      BY <3>1 DEF Prepare, Reject, Raise, Notify, history
    <3>2. CASE Post(r, d) \/ QuarantineAppend(r, d)
      BY <3>2 DEF Post, QuarantineAppend
    <3>3. CASE Settle(r, d) \/ SettleFails(r, d)
      BY <3>3 DEF Settle, SettleFails, history
    <3>4. CASE QuarantineAppendFails(r, d) \/ Bury(r, d) \/ BuryFails(r, d)
      BY <3>4 DEF QuarantineAppendFails, Bury, BuryFails, history
    <3> QED
      BY <1>4, <3>1, <3>2, <3>3, <3>4 DEF TaskStep
  <2>2. Stage(r, d)' = "settling" => tasks'[r][d].verdict # "sent"
    <3>1. ASSUME NEW stage, To(r, d, stage) PROVE Stage(r, d)' = stage
      <4>1. tasks'[r][d] = [tasks[r][d] EXCEPT !.stage = stage]
        BY <3>1, OneTask DEF To
      <4> QED
        BY <1>1, <4>1 DEF Task, Stage
    <3>2. ASSUME Ends(r, d) PROVE Stage(r, d)' = "none"
      BY <3>2, OneTask DEF Ends, NoTask, Stage
    <3>3. CASE Prepare(r, d)
      <4>1. tasks'[r][d] = [tasks[r][d] EXCEPT !.stage = "waiting", !.sentAt = clock]
        BY <3>3, OneTask DEF Prepare
      <4> QED
        BY <1>1, <4>1 DEF Task, Stage
    <3>4. CASE Reject(r, d)
      <4>1. tasks'[r][d] = [tasks[r][d] EXCEPT !.stage = "settling", !.sentAt = clock,
                                               !.verdict = "dead_lettered"]
        BY <3>4, OneTask DEF Reject
      <4> QED
        BY <1>1, <4>1 DEF Task
    <3>5. CASE Raise(r, d) \/ Post(r, d) \/ Settle(r, d) \/ SettleFails(r, d)
      BY <3>1, <3>5 DEF Raise, Post, Settle, SettleFails
    <3>6. CASE Notify(r, d) \/ QuarantineAppendFails(r, d) \/ Bury(r, d) \/ BuryFails(r, d)
      BY <3>2, <3>6 DEF Notify, QuarantineAppendFails, Bury, BuryFails
    <3>7. CASE QuarantineAppend(r, d)
      BY <3>1, <3>2, <3>7 DEF QuarantineAppend
    <3> QED
      BY <1>4, <3>3, <3>4, <3>5, <3>6, <3>7 DEF TaskStep
  <2> QED
    BY <1>2, <2>1, <2>2 DEF VerdictHonest, Stage
<1> QED
  BY <1>3, <1>4

LEMMA VerdictHonestStep == Typed /\ VerdictHonest /\ [Next]_vars => VerdictHonest'
<1> SUFFICES ASSUME Typed, VerdictHonest, [Next]_vars PROVE VerdictHonest'
  OBVIOUS
<1>1. ASSUME NEW r \in Replicas, TickStep(r) PROVE VerdictHonest'
  <2>1. CASE ClaimBatch(r)
    <3>1. PICK batch \in SUBSET Deliveries :
            /\ tasks' = [tasks EXCEPT ![r] = [d \in Deliveries |->
                 IF d \in batch THEN NewTask(rows[d], nowRead[r]) ELSE @[d]]]
            /\ acked' = acked
      BY <2>1 DEF ClaimBatch, Batches, history
    <3>2. \A d \in Deliveries : NewTask(rows[d], nowRead[r]).stage = "queued"
      BY DEF NewTask, NoTask
    <3> QED
      BY <3>1, <3>2 DEF VerdictHonest, Stage, Typed, TypeOK
  <2>2. CASE ~ClaimBatch(r)
    BY <1>1, <2>2 DEF TickStep, BeginTick, ReclaimStale, ReclaimFails, ThenClaim, ClaimFails,
       EndTick, Start, history, VerdictHonest, Stage
  <2> QED
    BY <2>1, <2>2
<1>2. ASSUME NEW d \in Deliveries, Enqueue(d) PROVE VerdictHonest'
  BY <1>2 DEF Enqueue, history, VerdictHonest, Stage
<1>3. ASSUME NEW r \in Replicas, Stop(r) PROVE VerdictHonest'
  BY <1>3 DEF Stop, NoTask, history, VerdictHonest, Stage, Typed, TypeOK
<1>4. CASE Advance
  BY <1>4 DEF Advance, history, VerdictHonest, Stage
<1>5. CASE UNCHANGED vars
  BY <1>5 DEF vars, VerdictHonest, Stage
<1> QED
  BY <1>1, <1>2, <1>3, <1>4, <1>5, VerdictHonestTask DEF Next, ReplicaStep

(* One row moves, as one step of the lifecycle.                            *)
LEMMA KnownKept ==
  ASSUME \A d \in Deliveries : Known(d)' = Known(d)
  PROVE  [d \in Deliveries |-> Known(d)]' = [d \in Deliveries |-> Known(d)]
OBVIOUS

LEMMA PromiseInit == Init => Promise!Init
BY DEF Init, Promise!Init, Known, NoRow

LEMMA PromiseMove ==
  ASSUME NEW d \in Deliveries, \A e \in Deliveries : e # d => rows'[e] = rows[e]
  PROVE  [e \in Deliveries |-> Known(e)]' = [[e \in Deliveries |-> Known(e)] EXCEPT ![d] = Known(d)']
BY DEF Known

LEMMA PromiseTask ==
  ASSUME Custody, ~LostReplies, VerdictHonest, NEW r \in Replicas, NEW d \in Deliveries,
         TaskStep(r, d)
  PROVE  Promise!Next \/ UNCHANGED Promise!vars
<1> DEFINE State == [e \in Deliveries |-> Known(e)]
<1>1. Typed /\ rows[d] \in Row /\ rows \in [Deliveries -> Row] /\ acked \in [Deliveries -> BOOLEAN]
      /\ tasks[r][d] \in Task
  BY DEF Custody, Typed, TypeOK
<1>2. \A e \in Deliveries : e # d => rows'[e] = rows[e]
  BY TaskMoves
<1>3. State' = [State EXCEPT ![d] = Known(d)']
  BY <1>2, PromiseMove
<1>4. Stage(r, d) \in Holding \cup Salvage => State[d] = "open"
  BY DEF Custody, LeasedToOwner, Owns, Owning, Known
<1>5. CASE Conclude(r, d)
  <2>1. State' = State
    BY <1>5 DEF Conclude, Known
  <2>2. PICK reason \in RetryReason \cup {NoReason} : acked' = [acked EXCEPT ![d] = @ \/ reason = NoReason]
    BY <1>1, <1>5, ConcludedTask
  <2>3. CASE reason = NoReason
    <3>1. acked' = [acked EXCEPT ![d] = TRUE]
      BY <2>2, <2>3
    <3>2. State[d] = "open"
      BY <1>4, <1>5 DEF Conclude, Holding
    <3> QED
      BY <2>1, <3>1, <3>2 DEF Promise!Next, Promise!Accept
  <2>4. CASE reason # NoReason
    <3>1. acked' = acked
      BY <1>1, <2>2, <2>4
    <3> QED
      BY <2>1, <3>1 DEF Promise!vars
  <2> QED
    BY <2>3, <2>4
<1>6. ASSUME acked' = acked, rows'[d].status = rows[d].status
      PROVE  UNCHANGED Promise!vars
  <2>1. State' = State
    BY <1>2, <1>6 DEF Known
  <2> QED
    BY <1>6, <2>1 DEF Promise!vars
<1>7. ASSUME acked' = acked, NEW status \in {"sent", "failed_retry", "dead_lettered"},
             rows'[d].status = status, State[d] = "open", status = "sent" => acked[d]
      PROVE  Promise!Next \/ UNCHANGED Promise!vars
  <2>1. CASE status = "sent"
    <3>1. State' = [State EXCEPT ![d] = "sent"]
      BY <1>3, <1>7, <2>1 DEF Known
    <3> QED
      BY <1>7, <2>1, <3>1 DEF Promise!Next, Promise!ReportSent, Promise!Move
  <2>2. CASE status = "dead_lettered"
    <3>1. State' = [State EXCEPT ![d] = "dead"]
      BY <1>3, <1>7, <2>2 DEF Known
    <3> QED
      BY <1>7, <3>1 DEF Promise!Next, Promise!GiveUp, Promise!Move
  <2>3. CASE status = "failed_retry"
    <3>1. State' = State
      BY <1>3, <1>7, <2>3 DEF Known
    <3> QED
      BY <1>7, <3>1 DEF Promise!vars
  <2> QED
    BY <1>7, <2>1, <2>2, <2>3
<1>8. CASE Prepare(r, d) \/ Reject(r, d) \/ Raise(r, d) \/ Post(r, d) \/ Notify(r, d)
  BY <1>6, <1>8 DEF Prepare, Reject, Raise, Post, Notify, history
<1>9. CASE Settle(r, d)
  <2>1. tasks[r][d].verdict \in {"sent", "failed_retry", "dead_lettered"}
    BY <1>1, <1>9 DEF Settle, Typed, VerdictKnown, Task, Verdicts
  <2>2. rows'[d].status = tasks[r][d].verdict
    <3>1. /\ rows[d] \in Row
          /\ tasks[r][d].attempt \in Nat
          /\ tasks[r][d].retryAt \in Nat
      BY <1>1 DEF Task, Typed, TypeOK
    <3>2. rows'[d] = Settled(rows[d], tasks[r][d].verdict, tasks[r][d].attempt, tasks[r][d].retryAt)
      BY <1>1, <1>9 DEF Settle, SettledBy
    <3>3. ASSUME NEW row \in Row, NEW n \in Nat, NEW due \in Nat,
                 NEW verdict \in {"sent", "failed_retry", "dead_lettered"}
          PROVE  Settled(row, verdict, n, due).status = verdict
      BY SettledRow
    <3> QED
      BY <2>1, <3>1, <3>2, <3>3
  <2>3. acked' = acked /\ State[d] = "open"
    BY <1>4, <1>9 DEF Settle, Holding, history
  <2>4. tasks[r][d].verdict = "sent" => acked[d]
    BY <1>9 DEF Settle, VerdictHonest
  <2> QED
    BY <1>7, <2>1, <2>2, <2>3, <2>4
<1>10. CASE SettleFails(r, d) \/ BuryFails(r, d)
  BY <1>6, <1>10 DEF SettleFails, BuryFails, history
<1>11. CASE QuarantineAppend(r, d) \/ QuarantineAppendFails(r, d)
  <2>1. rows'[d].status = rows[d].status
    BY <1>1, <1>11, TaskFrame DEF QuarantineAppend, QuarantineAppendFails
  <2>2. acked' = acked
    BY <1>11 DEF QuarantineAppend, QuarantineAppendFails, history
  <2> QED
    BY <1>6, <2>1, <2>2
<1>12. CASE Bury(r, d)
  <2>1. rows'[d].status = "dead_lettered"
    <3>1. tasks[r][d].attempt \in Nat
      BY <1>1 DEF Task
    <3>2. rows'[d] = Settled(rows[d], "dead_lettered", tasks[r][d].attempt, 0)
      BY <1>1, <1>12 DEF Bury, BuriedBy
    <3>3. \A n \in Nat : Settled(rows[d], "dead_lettered", n, 0).status = "dead_lettered"
      BY <1>1, SettledRow
    <3> QED
      BY <3>1, <3>2, <3>3
  <2>2. acked' = acked /\ State[d] = "open"
    BY <1>4, <1>12 DEF Bury, Salvage, history
  <2> QED
    BY <1>7, <2>1, <2>2
<1> QED
  BY <1>5, <1>8, <1>9, <1>10, <1>11, <1>12 DEF TaskStep

LEMMA PromiseStep ==
  Custody /\ ~LostReplies /\ VerdictHonest /\ [Next]_vars => [Promise!Next]_(Promise!vars)
<1> SUFFICES ASSUME Custody, ~LostReplies, VerdictHonest, [Next]_vars
             PROVE  Promise!Next \/ UNCHANGED Promise!vars
  OBVIOUS
<1> DEFINE State == [e \in Deliveries |-> Known(e)]
<1>1. Typed /\ \A d \in Deliveries : rows[d] \in Row
  BY DEF Custody, Typed, TypeOK
<1>2. ASSUME NEW d \in Deliveries, Enqueue(d) PROVE Promise!Next
  <2>1. /\ \A e \in Deliveries : e # d => rows'[e] = rows[e]
        /\ rows'[d] = [NoRow EXCEPT !.status = "pending", !.fireAt = clock]
        /\ rows[d].status = "absent" /\ acked' = acked
    BY <1>1, <1>2, EnqueuedRow DEF Enqueue, Typed, TypeOK, history
  <2>2. Known(d) = "absent" /\ Known(d)' = "open"
    BY <2>1 DEF Known, NoRow
  <2>3. State' = [State EXCEPT ![d] = "open"]
    BY <2>1, <2>2, PromiseMove
  <2> QED
    BY <2>1, <2>2, <2>3 DEF Promise!Next, Promise!Enqueue, Promise!Move
<1>3. ASSUME NEW r \in Replicas, TickStep(r) PROVE UNCHANGED Promise!vars
  <2>1. \A d \in Deliveries : Known(d)' = Known(d)
    BY <1>1, <1>3, TickMoves DEF Known, Open
  <2>2. acked' = acked
    BY <1>3 DEF TickStep, BeginTick, ReclaimStale, ReclaimFails, ThenClaim, ClaimBatch,
       ClaimFails, EndTick, Start, history
  <2> QED
    BY <2>1, <2>2, KnownKept DEF Promise!vars
<1>4. CASE (\E r \in Replicas : Stop(r)) \/ Advance \/ UNCHANGED vars
  BY <1>4 DEF Stop, Advance, vars, history, Known, Promise!vars
<1> QED
  BY <1>2, <1>3, <1>4, PromiseTask DEF Next, ReplicaStep

(* In a safe deployment that loses no reply of its store, the table, the   *)
(* leases, the retries and the crashes amount to the promise producers are *)
(* given: a delivery is reported sent only if a receiver accepted it, and  *)
(* no report is taken back.                                                *)
THEOREM PromiseKept == SafeDeployment /\ ~LostReplies /\ Spec => KeepsPromise
<1> SUFFICES ASSUME SafeDeployment, ~LostReplies PROVE Spec => Promise!Spec
  BY DEF KeepsPromise
<1>1. Spec => []Custody
  BY CustodyAlways
<1>2. Custody /\ VerdictHonest /\ [Next]_vars => VerdictHonest'
  BY VerdictHonestStep DEF Custody
<1>3. Spec => []VerdictHonest
  BY VerdictHonestInit, <1>1, <1>2, PTL DEF Spec
<1>4. Custody /\ VerdictHonest /\ [Next]_vars => [Promise!Next]_(Promise!vars)
  BY PromiseStep
<1> QED
  BY PromiseInit, <1>1, <1>3, <1>4, PTL DEF Spec, Promise!Spec

-------------------------------------------------------------------------------
(* The attempt log.  Covers(row, m): every attempt up to the m-th is in it. *)
Covers(row, m) == \A k \in 1..m : \E i \in DOMAIN row.log : row.log[i] = k

LEMMA LogGrows ==
  ASSUME NEW row \in Row, NEW next \in Row, NEW n \in Nat, next.log = Append(row.log, n)
  PROVE  /\ \A m \in Int : Covers(row, m) => Covers(next, m)
         /\ Covers(row, n - 1) => Covers(next, n)
<1>1. row.log \in Seq(Nat)
  BY DEF Row
<1>2. /\ \A i \in DOMAIN row.log : i \in DOMAIN next.log /\ next.log[i] = row.log[i]
      /\ Len(row.log) + 1 \in DOMAIN next.log /\ next.log[Len(row.log) + 1] = n
  BY <1>1
<1>3. ASSUME NEW m \in Int, Covers(row, m) PROVE Covers(next, m)
  BY <1>2, <1>3 DEF Covers
<1>4. ASSUME Covers(row, n - 1) PROVE Covers(next, n)
  <2> SUFFICES ASSUME NEW k \in 1..n PROVE \E i \in DOMAIN next.log : next.log[i] = k
    BY DEF Covers
  <2>1. CASE k = n
    BY <1>2, <2>1
  <2>2. CASE k # n
    <3>1. k \in 1..(n - 1)
      BY <2>2
    <3> QED
      BY <1>2, <1>4, <3>1 DEF Covers
  <2> QED
    BY <2>1, <2>2
<1> QED
  BY <1>3, <1>4

(* Every store logs the attempt and sets the counter to it or leaves it;   *)
(* only the retry of the memory store counts by itself.                    *)
LEMMA SettledLog ==
  ASSUME NEW row \in Row, NEW n \in Nat, NEW fireAt \in Nat,
         NEW status \in {"sent", "failed_retry", "dead_lettered"}
  PROVE  /\ Settled(row, status, n, fireAt).log = Append(row.log, n)
         /\ \/ Settled(row, status, n, fireAt).attempts \in {n, row.attempts}
            \/ /\ Backend = "memory" /\ status = "failed_retry"
               /\ Settled(row, status, n, fireAt).attempts = row.attempts + 1
<1>1. Logged(row, n) \in Row /\ Logged(row, n).attempts = row.attempts
  BY LoggedRow
<1>2. Logged(row, n).log = Append(row.log, n)
  BY DEF Logged, Row
<1>3. CASE status = "sent"
  <2>1. \/ Settled(row, status, n, fireAt) =
             [Logged(row, n) EXCEPT !.status = "sent", !.attempts = n, !.lease = NoLease]
        \/ Settled(row, status, n, fireAt) =
             [Logged(row, n) EXCEPT !.status = "sent", !.lease = NoLease]
    BY <1>3, StoreAssumption DEF Settled, PgSent, MongoSent, MemorySent
  <2> QED
    BY <1>1, <1>2, <2>1 DEF Row
<1>4. CASE status = "failed_retry"
  <2>1. \/ Settled(row, status, n, fireAt) =
             [Logged(row, n) EXCEPT !.status = "failed_retry", !.fireAt = fireAt,
                                    !.attempts = n, !.lease = NoLease]
        \/ /\ Backend = "memory"
           /\ Settled(row, status, n, fireAt) =
                [Logged(row, n) EXCEPT !.status = "failed_retry", !.fireAt = fireAt,
                                       !.attempts = @ + 1, !.lease = NoLease]
    BY <1>4, StoreAssumption DEF Settled, PgRetried, MongoRetried, MemoryRetried
  <2> QED
    BY <1>1, <1>2, <1>4, <2>1 DEF Row
<1>5. CASE status = "dead_lettered"
  <2>1. \/ Settled(row, status, n, fireAt) =
             [Logged(row, n) EXCEPT !.status = "dead_lettered", !.attempts = n, !.lease = NoLease]
        \/ Settled(row, status, n, fireAt) =
             [Logged(row, n) EXCEPT !.status = "dead_lettered", !.lease = NoLease]
    BY <1>5, StoreAssumption DEF Settled, PgDead, MongoDead, MemoryDead
  <2> QED
    BY <1>1, <1>2, <2>1 DEF Row
<1> QED
  BY <1>3, <1>4, <1>5

LEMMA AppendedLog ==
  ASSUME NEW row \in Row, NEW n \in Nat
  PROVE  /\ Appended(row, n).log = Append(row.log, n)
         /\ Appended(row, n).attempts \in {n, row.attempts}
<1>1. Logged(row, n) \in Row /\ Logged(row, n).attempts = row.attempts
  BY LoggedRow
<1>2. Logged(row, n).log = Append(row.log, n)
  BY DEF Logged, Row
<1>3. \/ Appended(row, n) = Logged(row, n)
      \/ Appended(row, n) = [Logged(row, n) EXCEPT !.attempts = n]
  BY StoreAssumption DEF Appended, PgAppended, MongoAppended, MemoryAppended
<1> QED
  BY <1>1, <1>2, <1>3 DEF Row

LEMMA RowsGrow ==
  ASSUME NEW row \in Row, NEW n \in Nat
  PROVE  /\ \A status \in {"sent", "failed_retry", "dead_lettered"}, due \in Nat :
              /\ Settled(row, status, n, due).status # "absent"
              /\ Settled(row, status, n, due).log = Append(row.log, n)
              /\ \/ Settled(row, status, n, due).attempts \in {n, row.attempts}
                 \/ /\ Backend = "memory" /\ status = "failed_retry"
                    /\ Settled(row, status, n, due).attempts = row.attempts + 1
         /\ Appended(row, n).status = row.status
         /\ Appended(row, n).log = Append(row.log, n)
         /\ Appended(row, n).attempts \in {n, row.attempts}
<1>1. ASSUME NEW status \in {"sent", "failed_retry", "dead_lettered"}, NEW due \in Nat
      PROVE  Settled(row, status, n, due).status # "absent"
  <2>1. Settled(row, status, n, due).status = status
    BY SettledRow, Zenon
  <2> QED
    BY <2>1
<1>2. /\ Appended(row, n).status = row.status
      /\ Appended(row, n).log = Append(row.log, n)
      /\ Appended(row, n).attempts \in {n, row.attempts}
  BY AppendedLog, AppendedRow
<1> QED
  BY <1>1, <1>2, SettledLog, Zenon

(* What is in the log already when a task is under way.                    *)
Logs ==
  \A d \in Deliveries :
    /\ Covers(rows[d], rows[d].attempts)
    /\ \A r \in Replicas : Stage(r, d) # "none" =>
         rows[d].status # "absent" /\ Covers(rows[d], tasks[r][d].attempt - 1)

LEMMA LogsInit == Init => Logs
BY DEF Init, Logs, Covers, NoRow, NoTask, Stage

LEMMA TaskLogs ==
  ASSUME Typed, NEW r \in Replicas, NEW d \in Deliveries, TaskStep(r, d)
  PROVE  /\ Stage(r, d)' # "none" => tasks'[r][d].attempt = tasks[r][d].attempt
         /\ \/ rows'[d] = rows[d]
            \/ /\ rows'[d].log = Append(rows[d].log, tasks[r][d].attempt)
               /\ rows'[d].status = "absent" => rows[d].status = "absent"
               /\ \/ rows'[d].attempts \in {tasks[r][d].attempt, rows[d].attempts}
                  \/ /\ Backend = "memory" /\ Stage(r, d) = "settling"
                     /\ rows'[d].attempts = rows[d].attempts + 1
<1> DEFINE n == tasks[r][d].attempt
           Grown == /\ rows'[d].log = Append(rows[d].log, n)
                    /\ rows'[d].status = "absent" => rows[d].status = "absent"
                    /\ \/ rows'[d].attempts \in {n, rows[d].attempts}
                       \/ /\ Backend = "memory" /\ Stage(r, d) = "settling"
                          /\ rows'[d].attempts = rows[d].attempts + 1
<1>1. /\ tasks[r][d] \in Task /\ rows[d] \in Row /\ n \in Nat
      /\ tasks[r][d].retryAt \in Nat /\ tasks[r][d].verdict \in Verdicts
  BY DEF Typed, TypeOK, Task
<1>2. /\ \A status \in {"sent", "failed_retry", "dead_lettered"}, due \in Nat :
           /\ Settled(rows[d], status, n, due).status # "absent"
           /\ Settled(rows[d], status, n, due).log = Append(rows[d].log, n)
           /\ \/ Settled(rows[d], status, n, due).attempts \in {n, rows[d].attempts}
              \/ /\ Backend = "memory" /\ status = "failed_retry"
                 /\ Settled(rows[d], status, n, due).attempts = rows[d].attempts + 1
      /\ Appended(rows[d], n).status = rows[d].status
      /\ Appended(rows[d], n).log = Append(rows[d].log, n)
      /\ Appended(rows[d], n).attempts \in {n, rows[d].attempts}
  <2> HIDE DEF n
  <2>1. rows[d] \in Row /\ n \in Nat
    BY <1>1
  <2> QED
    BY <2>1, RowsGrow, Zenon
<1>3. ASSUME SettledBy(r, d), Stage(r, d) = "settling"
      PROVE  Grown
  <2>1. tasks[r][d].verdict \in {"sent", "failed_retry", "dead_lettered"}
    BY <1>1, <1>3 DEF Typed, VerdictKnown, Verdicts
  <2>2. rows'[d] = Settled(rows[d], tasks[r][d].verdict, n, tasks[r][d].retryAt)
    BY <1>3 DEF SettledBy, Typed, TypeOK
  <2> QED
    BY <1>1, <1>2, <1>3, <2>1, <2>2
<1>4. ASSUME BuriedBy(r, d)
      PROVE  Grown
  <2>1. PICK status \in {"sent", "failed_retry", "dead_lettered"}, due \in Nat :
          rows'[d] = Settled(rows[d], status, n, due) /\ status # "failed_retry"
    <3>1. rows'[d] = Settled(rows[d], "dead_lettered", n, 0)
      BY <1>4 DEF BuriedBy, Typed, TypeOK
    <3> QED
      BY <3>1
  <2> HIDE DEF n
  <2>2. /\ rows'[d].status # "absent" /\ rows'[d].log = Append(rows[d].log, n)
        /\ rows'[d].attempts \in {n, rows[d].attempts}
    BY <1>2, <2>1
  <2> QED
    BY <2>2
<1>5. ASSUME AppendedBy(r, d)
      PROVE  Grown
  <2>1. rows'[d] = Appended(rows[d], n)
    BY <1>5 DEF AppendedBy, Typed, TypeOK
  <2> QED
    BY <1>2, <2>1
<1>6. rows'[d] = rows[d] \/ Grown
  <2>1. CASE Stage(r, d) \notin {"settling", "unhandled", "burying"}
    BY <2>1, TaskProgress
  <2>2. CASE Settle(r, d) \/ SettleFails(r, d)
    BY <1>3, <2>2 DEF Settle, SettleFails
  <2>3. CASE QuarantineAppend(r, d) \/ QuarantineAppendFails(r, d)
    BY <1>5, <2>3 DEF QuarantineAppend, QuarantineAppendFails
  <2>4. CASE Bury(r, d) \/ BuryFails(r, d)
    BY <1>4, <2>4 DEF Bury, BuryFails
  <2> QED
    BY <2>1, <2>2, <2>3, <2>4 DEF TaskStep, Prepare, Reject, Raise, EnterGate, Post, Conclude, Notify
<1>7. Stage(r, d)' # "none" => tasks'[r][d].attempt = n
  <2> HIDE DEF n
  <2>1. ASSUME NEW t, Becomes(r, d, t) PROVE tasks'[r][d] = t
    BY <2>1, OneTask DEF Typed
  <2>2. ASSUME NEW stage, To(r, d, stage) PROVE tasks'[r][d].attempt = n
    <3>1. tasks'[r][d] = [tasks[r][d] EXCEPT !.stage = stage]
      BY <2>1, <2>2 DEF To
    <3> QED
      BY <1>1, <3>1 DEF Task, n
  <2>3. ASSUME Ends(r, d) PROVE Stage(r, d)' = "none"
    BY <2>1, <2>3 DEF Ends, NoTask, Stage
  <2>4. CASE Prepare(r, d) \/ Reject(r, d) \/ Conclude(r, d)
    <3>1. Stage(r, d)' \in Holding
      <4>1. CASE Prepare(r, d)
        BY <1>1, <2>1, <4>1 DEF Prepare, Stage, Task, Holding
      <4>2. CASE Reject(r, d)
        BY <1>1, <2>1, <4>2 DEF Reject, Stage, Task, Holding
      <4>3. CASE Conclude(r, d)
        <5>1. PICK reason \in RetryReason \cup {NoReason}, retryAt \in Nat :
                Becomes(r, d, [tasks[r][d] EXCEPT !.stage = "settling",
                  !.verdict = OutcomeStatus(reason, RetryOn(reason, tasks[r][d].attempt)),
                  !.retryAt = retryAt])
          BY <4>3, ConcludedTask DEF Typed
        <5> DEFINE verdict == OutcomeStatus(reason, RetryOn(reason, tasks[r][d].attempt))
        <5> HIDE DEF verdict
        <5>2. tasks'[r][d] = [tasks[r][d] EXCEPT !.stage = "settling", !.verdict = verdict,
                                                 !.retryAt = retryAt]
          BY <2>1, <5>1 DEF verdict
        <5> QED
          BY <1>1, <5>2 DEF Stage, Task, Holding
      <4> QED
        BY <2>4, <4>1, <4>2, <4>3
    <3> QED
      BY <3>1, TaskProgress DEF n
  <2>5. CASE Raise(r, d) \/ Post(r, d) \/ Settle(r, d) \/ SettleFails(r, d)
    BY <2>2, <2>5 DEF Raise, Post, Settle, SettleFails
  <2>6. CASE Notify(r, d) \/ QuarantineAppendFails(r, d) \/ Bury(r, d) \/ BuryFails(r, d)
    BY <2>3, <2>6 DEF Notify, QuarantineAppendFails, Bury, BuryFails
  <2>7. CASE QuarantineAppend(r, d)
    BY <2>2, <2>3, <2>7 DEF QuarantineAppend
  <2> QED
    BY <2>4, <2>5, <2>6, <2>7 DEF TaskStep
<1> QED
  BY <1>6, <1>7

(* Other steps write no log and no counter, and create no row of a task.   *)
LEMMA LogsKept ==
  ASSUME Logs,
         \A d \in Deliveries :
           /\ rows'[d].log = rows[d].log /\ rows'[d].attempts = rows[d].attempts
           /\ rows'[d].status = "absent" => rows[d].status = "absent",
         \A r \in Replicas, d \in Deliveries : Stage(r, d)' # "none" =>
           \/ tasks'[r][d] = tasks[r][d]
           \/ rows'[d].status # "absent" /\ tasks'[r][d].attempt - 1 = rows[d].attempts
  PROVE  Logs'
<1> SUFFICES ASSUME NEW d \in Deliveries
             PROVE  /\ Covers(rows[d], rows[d].attempts)'
                    /\ \A r \in Replicas : Stage(r, d)' # "none" =>
                         rows'[d].status # "absent" /\ Covers(rows[d], tasks[r][d].attempt - 1)'
  BY DEF Logs
<1>1. /\ Covers(rows[d], rows[d].attempts)
      /\ rows'[d].log = rows[d].log /\ rows'[d].attempts = rows[d].attempts
  BY DEF Logs
<1>2. Covers(rows[d], rows[d].attempts)'
  BY <1>1 DEF Covers
<1>3. ASSUME NEW r \in Replicas, Stage(r, d)' # "none"
      PROVE  rows'[d].status # "absent" /\ Covers(rows[d], tasks[r][d].attempt - 1)'
  <2>1. CASE tasks'[r][d] = tasks[r][d]
    <3>1. rows[d].status # "absent" /\ Covers(rows[d], tasks[r][d].attempt - 1)
      BY <1>3, <2>1 DEF Logs, Stage
    <3> QED
      BY <1>1, <2>1, <3>1 DEF Covers
  <2>2. CASE rows'[d].status # "absent" /\ tasks'[r][d].attempt - 1 = rows[d].attempts
    BY <1>1, <2>2 DEF Covers
  <2> QED
    BY <1>3, <2>1, <2>2
<1> QED
  BY <1>2, <1>3

LEMMA LogsTask ==
  ASSUME Typed, Logs, NEW r \in Replicas, NEW d \in Deliveries, TaskStep(r, d),
         Backend = "memory" /\ Stage(r, d) = "settling" =>
           tasks[r][d].attempt = rows[d].attempts + 1
  PROVE  Logs'
<1> DEFINE n == tasks[r][d].attempt
<1>1. /\ n \in Nat /\ \A e \in Deliveries : rows[e] \in Row /\ rows'[e] \in Row
      /\ \A q \in Replicas, e \in Deliveries : tasks[q][e].attempt \in Nat
  <2>1. Typed'
    BY TypedTask
  <2> QED
    BY <2>1 DEF Typed, TypeOK, Task
<1>2. Stage(r, d) # "none" /\ Covers(rows[d], rows[d].attempts) /\ Covers(rows[d], n - 1)
  <2>1. Stage(r, d) # "none"
    BY TaskFrame
  <2> QED
    BY <2>1 DEF Logs
<1>3. ASSUME NEW e \in Deliveries, e # d
      PROVE  /\ Covers(rows[e], rows[e].attempts)'
             /\ \A q \in Replicas : Stage(q, e)' # "none" =>
                  rows'[e].status # "absent" /\ Covers(rows[e], tasks[q][e].attempt - 1)'
  <2>1. rows'[e] = rows[e] /\ \A q \in Replicas : tasks'[q][e] = tasks[q][e]
    BY <1>3, TaskFrame
  <2> QED
    BY <2>1 DEF Logs, Covers, Stage
<1>4. /\ \A m \in Int : Covers(rows[d], m) => Covers(rows[d], m)'
      /\ rows'[d].status # "absent"
      /\ Covers(rows[d], rows[d].attempts)'
  <2>1. rows[d].status # "absent" /\ rows[d].attempts \in Nat
    BY <1>1, <1>2 DEF Logs, Row
  <2>2. CASE rows'[d] = rows[d]
    BY <1>2, <2>1, <2>2 DEF Covers
  <2>3. ASSUME rows'[d].log = Append(rows[d].log, n),
               rows'[d].status = "absent" => rows[d].status = "absent",
               \/ rows'[d].attempts \in {n, rows[d].attempts}
               \/ /\ Backend = "memory" /\ Stage(r, d) = "settling"
                  /\ rows'[d].attempts = rows[d].attempts + 1
        PROVE  /\ \A m \in Int : Covers(rows[d], m) => Covers(rows[d], m)'
               /\ rows'[d].status # "absent"
               /\ Covers(rows[d], rows[d].attempts)'
    <3>1. rows'[d].attempts \in {n, rows[d].attempts}
      BY <2>3
    <3> HIDE DEF n
    <3>2. /\ \A m \in Int : Covers(rows[d], m) => Covers(rows'[d], m)
          /\ Covers(rows[d], n - 1) => Covers(rows'[d], n)
      <4>1. rows[d] \in Row /\ rows'[d] \in Row /\ n \in Nat
        BY <1>1
      <4> QED
        BY <2>3, <4>1, LogGrows
    <3>3. Covers(rows'[d], n) /\ Covers(rows'[d], rows[d].attempts)
      BY <1>2, <2>1, <3>2
    <3>4. Covers(rows'[d], rows'[d].attempts)
      BY <3>1, <3>3
    <3> QED
      BY <2>1, <2>3, <3>2, <3>4 DEF Covers
  <2> QED
    BY <2>2, <2>3, TaskLogs
<1>5. ASSUME NEW q \in Replicas, Stage(q, d)' # "none"
      PROVE  Covers(rows[d], tasks[q][d].attempt - 1)'
  <2>1. Stage(q, d) # "none" /\ tasks'[q][d].attempt = tasks[q][d].attempt
    <3>1. CASE q = r
      BY <1>2, <1>5, <3>1, TaskLogs
    <3>2. CASE q # r
      BY <1>5, <3>2, TaskFrame DEF Stage
    <3> QED
      BY <3>1, <3>2
  <2>2. Covers(rows[d], tasks[q][d].attempt - 1) /\ tasks[q][d].attempt - 1 \in Int
    BY <1>1, <2>1 DEF Logs
  <2>3. Covers(rows'[d], tasks[q][d].attempt - 1)
    BY <1>4, <2>2 DEF Covers
  <2> QED
    BY <2>1, <2>3 DEF Covers
<1> QED
  BY <1>3, <1>4, <1>5 DEF Logs

LEMMA LogsTick ==
  ASSUME Typed, Logs, NEW r \in Replicas, TickStep(r)
  PROVE  Logs'
<1>1. nowRead[r] \in Nat /\ \A d \in Deliveries : rows[d] \in Row
  BY DEF Typed, TypeOK
<1>2. CASE BeginTick(r) \/ EndTick(r) \/ Start(r) \/ ReclaimFails(r)
  <2>1. UNCHANGED <<rows, tasks>>
    BY <1>2 DEF BeginTick, EndTick, Start, ReclaimFails, ThenClaim
  <2> QED
    BY <2>1, LogsKept DEF Stage
<1>3. CASE ReclaimStale(r)
  <2>1. /\ tasks' = tasks
        /\ \A d \in Deliveries : rows'[d] = Reclaimed(rows[d], nowRead[r])
    BY <1>3 DEF ReclaimStale, ThenClaim
  <2>2. \A d \in Deliveries :
          \/ rows'[d] = rows[d]
          \/ rows'[d] = [rows[d] EXCEPT !.status = "pending", !.lease = NoLease]
    BY <1>1, <2>1, ReclaimedRow
  <2>3. \A d \in Deliveries :
          /\ rows'[d].log = rows[d].log /\ rows'[d].attempts = rows[d].attempts
          /\ rows'[d].status = "absent" => rows[d].status = "absent"
    BY <1>1, <2>2 DEF Row
  <2> QED
    BY <2>1, <2>3, LogsKept DEF Stage
<1>4. ASSUME NEW batch, Lease(batch, nowRead[r])
      PROVE  \A d \in Deliveries :
               /\ rows'[d].log = rows[d].log /\ rows'[d].attempts = rows[d].attempts
               /\ rows'[d].status = "absent" => rows[d].status = "absent"
               /\ d \in batch => rows'[d].status # "absent"
  <2>1. \A d \in Deliveries :
          \/ rows'[d] = rows[d] /\ d \notin batch
          \/ rows'[d] = [rows[d] EXCEPT !.status = "in_flight", !.lease = nowRead[r] + LeaseTtl]
    BY <1>1, <1>4, ClaimedRow DEF Lease
  <2> QED
    BY <1>1, <2>1 DEF Row
<1>5. CASE ClaimFails(r)
  <2>1. tasks' = tasks /\ \E batch : Lease(batch, nowRead[r])
    BY <1>5 DEF ClaimFails
  <2> QED
    BY <1>4, <2>1, LogsKept DEF Stage
<1>6. CASE ClaimBatch(r)
  <2>1. PICK batch \in Batches(nowRead[r]) :
          /\ Lease(batch, nowRead[r])
          /\ tasks' = [tasks EXCEPT ![r] = [d \in Deliveries |->
               IF d \in batch THEN NewTask(rows[d], nowRead[r]) ELSE @[d]]]
    BY <1>6 DEF ClaimBatch
  <2>2. \A q \in Replicas, d \in Deliveries :
          \/ tasks'[q][d] = tasks[q][d]
          \/ d \in batch /\ tasks'[q][d] = NewTask(rows[d], nowRead[r])
    BY <2>1 DEF Typed, TypeOK
  <2>3. \A d \in Deliveries : NewTask(rows[d], nowRead[r]).attempt - 1 = rows[d].attempts
    BY <1>1 DEF NewTask, NoTask, Row
  <2>4. \A q \in Replicas, d \in Deliveries :
          \/ tasks'[q][d] = tasks[q][d]
          \/ rows'[d].status # "absent" /\ tasks'[q][d].attempt - 1 = rows[d].attempts
    BY <1>4, <2>1, <2>2, <2>3
  <2> QED
    BY <1>4, <2>1, <2>4, LogsKept
<1> QED
  BY <1>2, <1>3, <1>5, <1>6 DEF TickStep

LEMMA LogsStep ==
  ASSUME Typed, Logs, [Next]_vars,
         Backend = "memory" => \A r \in Replicas, d \in Deliveries :
           Stage(r, d) = "settling" => tasks[r][d].attempt = rows[d].attempts + 1
  PROVE  Logs'
<1>1. ASSUME NEW d \in Deliveries, Enqueue(d) PROVE Logs'
  <2>1. /\ tasks' = tasks /\ rows[d].status = "absent"
        /\ \A e \in Deliveries \ {d} : rows'[e] = rows[e]
        /\ rows'[d] = [NoRow EXCEPT !.status = "pending", !.fireAt = clock]
    BY <1>1, EnqueuedRow DEF Enqueue, Typed, TypeOK
  <2>2. Covers(rows'[d], rows'[d].attempts) /\ \A r \in Replicas : Stage(r, d) = "none"
    BY <2>1 DEF Covers, NoRow, Logs
  <2>3. ASSUME NEW e \in Deliveries \ {d}
        PROVE  /\ Covers(rows[e], rows[e].attempts)'
               /\ \A r \in Replicas : Stage(r, e)' # "none" =>
                    rows'[e].status # "absent" /\ Covers(rows[e], tasks[r][e].attempt - 1)'
    BY <2>1 DEF Logs, Covers, Stage
  <2>4. \A r \in Replicas : Stage(r, d)' = "none"
    BY <2>1, <2>2 DEF Stage
  <2>5. Covers(rows[d], rows[d].attempts)'
    BY <2>2 DEF Covers
  <2> QED
    BY <2>3, <2>4, <2>5 DEF Logs
<1>2. ASSUME NEW r \in Replicas, Stop(r) PROVE Logs'
  <2>1. /\ rows' = rows
        /\ \A q \in Replicas, d \in Deliveries : tasks'[q][d] = tasks[q][d] \/ Stage(q, d)' = "none"
    BY <1>2 DEF Stop, Typed, TypeOK, Stage, NoTask
  <2> QED
    BY <2>1, LogsKept
<1>3. CASE Advance \/ UNCHANGED vars
  <2>1. UNCHANGED <<rows, tasks>>
    BY <1>3 DEF Advance, vars
  <2> QED
    BY <2>1, LogsKept DEF Stage
<1> QED
  BY <1>1, <1>2, <1>3, LogsTick, LogsTask DEF Next, ReplicaStep

(* Every counted attempt is in the log: on Postgres and MongoDB in every   *)
(* deployment, as the counter is set to the attempt that is logged, and in *)
(* memory, which counts by itself, if no two tasks settle one row.         *)
THEOREM LogIsComplete ==
  (Backend # "memory" \/ SafeDeployment) /\ Spec => []AttemptLogComplete
<1>1. Logs => AttemptLogComplete
  BY DEF Logs, Covers, AttemptLogComplete
<1>2. CASE Backend # "memory"
  <2>1. Typed /\ Logs /\ [Next]_vars => Logs'
    BY <1>2, LogsStep
  <2> QED
    BY <1>1, <2>1, TypedInit, TypedStep, LogsInit, PTL DEF Spec
<1>3. CASE SafeDeployment
  <2>1. Custody /\ Snapshots /\ Logs /\ [Next]_vars => Logs'
    <3> SUFFICES ASSUME Custody, Snapshots, Logs, [Next]_vars PROVE Logs'
      OBVIOUS
    <3>1. Typed /\ \A r \in Replicas, d \in Deliveries :
            Stage(r, d) = "settling" => tasks[r][d].attempt = rows[d].attempts + 1
      BY DEF Custody, Snapshots, SnapshotOf, Holding
    <3> QED
      BY <3>1, LogsStep
  <2> QED
    BY <1>1, <1>3, <2>1, LogsInit, CustodyAlways, SnapshotsAlways, PTL DEF Spec
<1> QED
  BY <1>2, <1>3

-------------------------------------------------------------------------------
(* Counting POSTs.  Each one is paid for by a counted attempt, by a failure *)
(* or crash that lost it, or belongs to a task that has yet to settle.     *)
Spare == MaxAttempts - 1
Lost  == faults + stops

Paid(row) == Lost + (IF row.attempts <= Spare THEN row.attempts ELSE Spare)

Posted(d) == \E r \in Replicas : Stage(r, d) \in {"posting", "settling"}

Spent(d) ==
  /\ rows[d].status = "absent" => posts[d] = 0
  /\ posts[d] <= MaxAttempts + Lost
  /\ rows[d].status \notin Terminal => posts[d] <= Paid(rows[d]) + (IF Posted(d) THEN 1 ELSE 0)

(* What a task knows when it retries, and when it is in quarantine.        *)
Thrifty(r, d) ==
  /\ Stage(r, d) = "settling" /\ tasks[r][d].verdict = "failed_retry" =>
       tasks[r][d].attempt < MaxAttempts
  /\ Stage(r, d) = "unhandled" => rows[d].attempts <= tasks[r][d].attempt

Spending == \A d \in Deliveries : Spent(d) /\ \A r \in Replicas : Thrifty(r, d)

LEMMA SpendingInit == Init => Spending
<1> SUFFICES ASSUME Init, NEW d \in Deliveries PROVE Spent(d) /\ \A r \in Replicas : Thrifty(r, d)
  BY DEF Spending
<1>1. posts[d] = 0 /\ rows[d].attempts = 0 /\ faults = 0 /\ stops = 0 /\ rows[d].status = "absent"
  BY DEF Init, NoRow
<1>2. \A r \in Replicas : Stage(r, d) = "none"
  BY DEF Init, Stage, NoTask
<1> QED
  BY <1>1, <1>2, PolicyAssumption DEF Spent, Thrifty, Paid, Spare, Lost, Posted

LEMMA RetryInBudget ==
  ASSUME NEW reason \in RetryReason \cup {NoReason}, NEW n \in Nat,
         OutcomeStatus(reason, RetryOn(reason, n)) = "failed_retry"
  PROVE  n < MaxAttempts
BY DEF OutcomeStatus, RetryOn

(* What a step of a task does to the counts.                               *)
LEMMA TaskSpends ==
  ASSUME Typed, NEW r \in Replicas, NEW d \in Deliveries, TaskStep(r, d)
  PROVE  /\ stops' = stops
         /\ \A e \in Deliveries : e # d => posts'[e] = posts[e]
         /\ \/ /\ Stage(r, d) = "waiting" /\ Stage(r, d)' = "posting"
               /\ posts'[d] = posts[d] + 1 /\ faults' = faults /\ rows' = rows
            \/ /\ Stage(r, d) \in {"queued", "posting"} /\ posts'[d] = posts[d] /\ faults' = faults
               /\ rows' = rows
               /\ \/ Stage(r, d) = "queued" /\ Stage(r, d)' = "waiting"
                  \/ /\ Stage(r, d)' = "settling"
                     /\ tasks'[r][d].verdict = "failed_retry" => tasks'[r][d].attempt < MaxAttempts
            \/ /\ Stage(r, d) = "settling" /\ Stage(r, d)' = "notifying"
               /\ posts'[d] = posts[d] /\ faults' = faults /\ SettledBy(r, d)
            \/ /\ Stage(r, d) \in Holding /\ Stage(r, d)' = "unhandled"
               /\ posts'[d] = posts[d] /\ faults' = faults + 1
               /\ rows' = rows \/ (Stage(r, d) = "settling" /\ SettledBy(r, d))
            \/ /\ Stage(r, d) \in {"unhandled", "burying", "notifying"}
               /\ Stage(r, d)' \in {"none", "burying"}
               /\ posts'[d] = posts[d] /\ faults' \in {faults, faults + 1}
               /\ \/ rows' = rows
                  \/ Stage(r, d) = "unhandled" /\ AppendedBy(r, d)
                  \/ Stage(r, d) = "burying" /\ BuriedBy(r, d)
<1>1. /\ tasks[r][d] \in Task /\ tasks[r][d].attempt \in Nat
      /\ faults \in Nat /\ posts \in [Deliveries -> Nat]
  BY DEF Typed, TypeOK, Task
<1>2. ASSUME NEW t, Becomes(r, d, t) PROVE tasks'[r][d] = t
  BY <1>2, OneTask DEF Typed
<1>3. ASSUME NEW stage, To(r, d, stage) PROVE Stage(r, d)' = stage
  <2>1. tasks'[r][d] = [tasks[r][d] EXCEPT !.stage = stage]
    BY <1>2, <1>3 DEF To
  <2> QED
    BY <1>1, <2>1 DEF Task, Stage
<1>4. ASSUME Ends(r, d) PROVE Stage(r, d)' = "none"
  BY <1>2, <1>4 DEF Ends, NoTask, Stage
<1> USE DEF history
<1>5. CASE Prepare(r, d)
  <2>1. tasks'[r][d] = [tasks[r][d] EXCEPT !.stage = "waiting", !.sentAt = clock]
    BY <1>2, <1>5 DEF Prepare
  <2>2. Stage(r, d)' = "waiting"
    BY <1>1, <2>1 DEF Task, Stage
  <2> QED
    BY <1>5, <2>2 DEF Prepare, EnterGate
<1>6. CASE Reject(r, d)
  <2>1. tasks'[r][d] = [tasks[r][d] EXCEPT !.stage = "settling", !.sentAt = clock,
                                           !.verdict = "dead_lettered"]
    BY <1>2, <1>6 DEF Reject
  <2>2. Stage(r, d)' = "settling" /\ tasks'[r][d].verdict = "dead_lettered"
    BY <1>1, <2>1 DEF Task, Stage
  <2> QED
    BY <1>6, <2>2 DEF Reject, EnterGate
<1>7. CASE Post(r, d)
  BY <1>1, <1>3, <1>7 DEF Post
<1>8. CASE Conclude(r, d)
  <2>1. PICK reason \in RetryReason \cup {NoReason}, retryAt \in Nat :
          Becomes(r, d, [tasks[r][d] EXCEPT !.stage = "settling",
            !.verdict = OutcomeStatus(reason, RetryOn(reason, tasks[r][d].attempt)),
            !.retryAt = retryAt])
    BY <1>8, ConcludedTask DEF Typed
  <2> DEFINE verdict == OutcomeStatus(reason, RetryOn(reason, tasks[r][d].attempt))
  <2>2. verdict = "failed_retry" => tasks[r][d].attempt < MaxAttempts
    BY <1>1, RetryInBudget
  <2> HIDE DEF verdict
  <2>3. tasks'[r][d] = [tasks[r][d] EXCEPT !.stage = "settling", !.verdict = verdict,
                                           !.retryAt = retryAt]
    BY <1>2, <2>1 DEF verdict
  <2>4. /\ Stage(r, d)' = "settling" /\ tasks'[r][d].verdict = verdict
        /\ tasks'[r][d].attempt = tasks[r][d].attempt
    BY <1>1, <2>3 DEF Task, Stage
  <2> QED
    BY <1>8, <2>2, <2>4 DEF Conclude
<1>9. CASE Raise(r, d)
  BY <1>3, <1>9 DEF Raise, EnterGate, Fault, Holding
<1>10. CASE Settle(r, d) \/ SettleFails(r, d)
  BY <1>3, <1>10 DEF Settle, SettleFails, Fault, Holding
<1>11. CASE QuarantineAppend(r, d)
  BY <1>3, <1>4, <1>11 DEF QuarantineAppend
<1>12. CASE Notify(r, d) \/ QuarantineAppendFails(r, d) \/ Bury(r, d) \/ BuryFails(r, d)
  BY <1>4, <1>12 DEF Notify, QuarantineAppendFails, Bury, BuryFails, Fault
<1> QED
  BY <1>5, <1>6, <1>7, <1>8, <1>9, <1>10, <1>11, <1>12 DEF TaskStep

LEMMA RetryCounts ==
  ASSUME NEW row \in Row, NEW n \in Nat, NEW due \in Nat
  PROVE  Settled(row, "failed_retry", n, due).attempts \in {n, row.attempts + 1}
<1>1. Logged(row, n) \in Row /\ Logged(row, n).attempts = row.attempts
  BY LoggedRow
<1>2. \/ Settled(row, "failed_retry", n, due) =
           [Logged(row, n) EXCEPT !.status = "failed_retry", !.fireAt = due,
                                  !.attempts = n, !.lease = NoLease]
      \/ Settled(row, "failed_retry", n, due) =
           [Logged(row, n) EXCEPT !.status = "failed_retry", !.fireAt = due,
                                  !.attempts = @ + 1, !.lease = NoLease]
  BY StoreAssumption DEF Settled, PgRetried, MongoRetried, MemoryRetried
<1> QED
  BY <1>1, <1>2 DEF Row

LEMMA LostGrows ==
  ASSUME Typed, faults' \in {faults, faults + 1}, stops' \in {stops, stops + 1},
         faults' = faults \/ stops' = stops
  PROVE  Lost \in Nat /\ Lost' \in {Lost, Lost + 1}
<1>1. faults \in Nat /\ stops \in Nat
  BY DEF Typed, TypeOK
<1>2. faults + stops \in Nat
  BY <1>1
<1>3. faults' + stops' \in {faults + stops, faults + stops + 1}
  <2>1. CASE stops' = stops /\ faults' = faults
    BY <2>1
  <2>2. CASE stops' = stops /\ faults' = faults + 1
    <3>1. (faults + 1) + stops = (faults + stops) + 1
      BY <1>1
    <3> QED
      BY <2>2, <3>1
  <2>3. CASE stops' = stops + 1 /\ faults' = faults
    <3>1. faults + (stops + 1) = (faults + stops) + 1
      BY <1>1
    <3> QED
      BY <2>3, <3>1
  <2> QED
    BY <2>1, <2>2, <2>3
<1> QED
  BY <1>2, <1>3 DEF Lost

(* A delivery whose counter and POSTs stay as they are.                    *)
LEMMA SpendingAside ==
  ASSUME Typed, Spending, NEW d \in Deliveries,
         posts'[d] = posts[d], rows'[d].attempts = rows[d].attempts,
         rows'[d].status = "absent" => rows[d].status = "absent",
         rows[d].status \in Terminal => rows'[d].status \in Terminal,
         \A r \in Replicas :
           tasks'[r][d] = tasks[r][d] \/ Stage(r, d)' \notin {"posting", "settling", "unhandled"},
         \/ Lost' = Lost + 1
         \/ /\ Lost' \in {Lost, Lost + 1}
            /\ \A r \in Replicas : Stage(r, d) \in {"posting", "settling"} => tasks'[r][d] = tasks[r][d]
  PROVE  Spent(d)' /\ \A r \in Replicas : Thrifty(r, d)'
<1>1. posts[d] \in Nat /\ rows[d].attempts \in Nat /\ Spare \in Nat /\ Lost \in Nat /\ MaxAttempts \in Nat
  BY PolicyAssumption DEF Typed, TypeOK, Row, Spare, Lost
<1>2. Spent(d) /\ \A r \in Replicas : Thrifty(r, d)
  BY DEF Spending
<1>3. \A r \in Replicas : Thrifty(r, d)'
  BY <1>2 DEF Thrifty, Stage
<1>4. Spent(d)'
  <2>1. Lost' = Lost /\ Posted(d) => Posted(d)'
    BY <1>1 DEF Posted, Stage
  <2>2. posts'[d] <= MaxAttempts + Lost'
    BY <1>1, <1>2 DEF Spent
  <2>3. Paid(rows[d]) \in Nat /\ Paid(rows[d])' = Paid(rows[d]) + (Lost' - Lost)
    BY <1>1 DEF Paid, Spare
  <2>4. ASSUME rows'[d].status \notin Terminal
        PROVE  posts'[d] <= Paid(rows[d])' + (IF Posted(d)' THEN 1 ELSE 0)
    <3>1. posts[d] <= Paid(rows[d]) + (IF Posted(d) THEN 1 ELSE 0)
      BY <1>2, <2>4 DEF Spent
    <3> QED
      BY <1>1, <2>1, <2>3, <3>1
  <2> QED
    BY <1>2, <2>2, <2>4 DEF Spent
<1> QED
  BY <1>3, <1>4

LEMMA AloneInRow ==
  ASSUME Custody, SafeDeployment, NEW r \in Replicas, NEW q \in Replicas, q # r,
         NEW d \in Deliveries, Stage(r, d) \in {"settling", "unhandled", "burying"}
  PROVE  Stage(q, d) \notin Holding \cup Salvage
<1>1. ~LostReplies
  BY DEF SafeDeployment, SingleReplica, TimelyReplicas
<1> QED
  BY <1>1 DEF Custody, OneOwner, Owns, Owning, Holding, Salvage

LEMMA SpendingTask ==
  ASSUME Custody, SafeDeployment, Snapshots, Spending, NEW r \in Replicas, NEW d \in Deliveries,
         TaskStep(r, d)
  PROVE  Spending'
<1> DEFINE n == tasks[r][d].attempt
<1>1. /\ Typed /\ posts[d] \in Nat /\ rows[d].attempts \in Nat /\ Spare \in Nat /\ n \in Nat
      /\ MaxAttempts = Spare + 1 /\ rows[d] \in Row
      /\ tasks[r][d].retryAt \in Nat
  <2>1. Typed /\ rows[d] \in Row /\ tasks[r][d] \in Task /\ posts[d] \in Nat
    BY DEF Custody, Typed, TypeOK
  <2>2. rows[d].attempts \in Nat /\ n \in Nat /\ tasks[r][d].retryAt \in Nat
    BY <2>1 DEF Row, Task
  <2>3. Spare \in Nat /\ MaxAttempts = Spare + 1
    BY PolicyAssumption DEF Spare
  <2> QED
    BY <2>1, <2>2, <2>3
<1>2. /\ \A e \in Deliveries \ {d} : rows'[e] = rows[e] /\ posts'[e] = posts[e]
      /\ \A q \in Replicas, e \in Deliveries : q # r \/ e # d => tasks'[q][e] = tasks[q][e]
      /\ Stage(r, d)' # "none" => tasks'[r][d].attempt = n
      /\ stops' = stops /\ faults' \in {faults, faults + 1}
  BY <1>1, TaskFrame, TaskLogs, TaskSpends
<1>3. Lost \in Nat /\ Lost' \in {Lost, Lost + 1} /\ (faults' = faults + 1 => Lost' = Lost + 1)
  <2>1. Lost \in Nat /\ Lost' \in {Lost, Lost + 1}
    BY <1>1, <1>2, LostGrows
  <2>2. ASSUME faults' = faults + 1 PROVE Lost' = Lost + 1
    BY <1>1, <1>2, <2>2 DEF Lost, Typed, TypeOK
  <2> QED
    BY <2>1, <2>2
<1>4. ASSUME NEW e \in Deliveries \ {d}
      PROVE  Spent(e)' /\ \A q \in Replicas : Thrifty(q, e)'
  BY <1>1, <1>2, <1>3, SpendingAside
<1>5. Spent(d) /\ \A q \in Replicas : Thrifty(q, d)
  BY DEF Spending
<1>6. Stage(r, d) \in Holding => n = rows[d].attempts + 1 /\ rows[d].status = "in_flight"
  BY DEF Snapshots, SnapshotOf, Custody, LeasedToOwner, Owns, Owning
<1>7. CASE /\ Stage(r, d) = "waiting" /\ Stage(r, d)' = "posting"
           /\ posts'[d] = posts[d] + 1 /\ faults' = faults /\ rows' = rows
  <2>1. Posted(d)' /\ ~Posted(d)
    <3>1. \A q \in Replicas : q # r => Stage(q, d) \notin Holding
      BY <1>7 DEF Custody, OneOwner, Owns, Owning, Holding
    <3> QED
      BY <1>7, <3>1 DEF Posted, Holding
  <2>2. rows[d].status = "in_flight"
    BY <1>6, <1>7 DEF Holding
  <2>3. posts[d] <= Paid(rows[d])
    BY <1>1, <1>3, <1>5, <2>1, <2>2 DEF Spent, Terminal, Paid
  <2>4. Lost' = Lost
    BY <1>2, <1>7 DEF Lost
  <2>5. Paid(rows[d])' = Paid(rows[d]) /\ Paid(rows[d]) <= Spare + Lost /\ Paid(rows[d]) \in Nat
    BY <1>1, <1>3, <1>7, <2>4 DEF Paid
  <2>6. posts'[d] <= MaxAttempts + Lost' /\ posts'[d] <= Paid(rows[d])' + 1
    BY <1>1, <1>3, <1>7, <2>3, <2>4, <2>5
  <2>7. Spent(d)'
    BY <1>7, <2>1, <2>2, <2>6 DEF Spent
  <2>8. \A q \in Replicas : Thrifty(q, d)'
    BY <1>2, <1>5, <1>7 DEF Thrifty, Stage
  <2> QED
    BY <1>4, <2>7, <2>8 DEF Spending
<1>8. CASE /\ Stage(r, d) \in {"queued", "posting"} /\ posts'[d] = posts[d] /\ faults' = faults
           /\ rows' = rows
           /\ \/ Stage(r, d) = "queued" /\ Stage(r, d)' = "waiting"
              \/ /\ Stage(r, d)' = "settling"
                 /\ tasks'[r][d].verdict = "failed_retry" => tasks'[r][d].attempt < MaxAttempts
  <2>1. Posted(d) => Posted(d)'
    BY <1>2, <1>8 DEF Posted, Stage
  <2>2. Lost' = Lost /\ Paid(rows[d])' = Paid(rows[d]) /\ Paid(rows[d]) \in Nat
    BY <1>1, <1>2, <1>3, <1>8 DEF Lost, Paid
  <2>3. Spent(d)'
    BY <1>1, <1>5, <1>8, <2>1, <2>2 DEF Spent
  <2>4. \A q \in Replicas : Thrifty(q, d)'
    BY <1>2, <1>5, <1>8 DEF Thrifty, Stage
  <2> QED
    BY <1>4, <2>3, <2>4 DEF Spending

<1>9. ASSUME SettledBy(r, d), Stage(r, d) = "settling"
      PROVE  /\ rows[d].attempts <= rows'[d].attempts /\ rows'[d].attempts <= n
             /\ rows'[d].status # "absent"
             /\ rows'[d].status \notin Terminal =>
                  rows'[d].attempts = rows[d].attempts + 1 /\ n <= Spare
  <2> DEFINE verdict == tasks[r][d].verdict
             due == tasks[r][d].retryAt
  <2>1. verdict \in {"sent", "failed_retry", "dead_lettered"}
    BY <1>1, <1>9 DEF Typed, VerdictKnown, TypeOK, Task, Verdicts
  <2>2. rows'[d] = Settled(rows[d], verdict, n, due)
    BY <1>1, <1>9 DEF SettledBy, Typed, TypeOK
  <2>3. n = rows[d].attempts + 1
    BY <1>6, <1>9 DEF Holding
  <2>4. verdict = "failed_retry" => n <= Spare
    BY <1>1, <1>5, <1>9 DEF Thrifty
  <2>5. n \in Nat /\ due \in Nat
    BY <1>1
  <2> HIDE DEF n, verdict, due
  <2>6. rows'[d].status = verdict
    <3>1. rows[d] \in Row
      BY <1>1
    <3>2. Settled(rows[d], verdict, n, due).status = verdict
      BY <2>1, <2>5, <3>1, SettledRow
    <3> QED
      BY <2>2, <3>2
  <2>7. rows'[d].attempts \in {n, rows[d].attempts, rows[d].attempts + 1}
    BY <1>1, <2>1, <2>2, <2>5, SettledLog
  <2>8. verdict = "failed_retry" => rows'[d].attempts \in {n, rows[d].attempts + 1}
    BY <1>1, <2>2, <2>5, RetryCounts
  <2>9. rows[d].attempts <= rows'[d].attempts /\ rows'[d].attempts <= n
    BY <1>1, <2>3, <2>7
  <2>10. rows'[d].status \notin Terminal => verdict = "failed_retry"
    BY <2>1, <2>6 DEF Terminal
  <2> QED
    BY <2>1, <2>3, <2>4, <2>6, <2>8, <2>9, <2>10
<1>10. CASE /\ Stage(r, d) = "settling" /\ Stage(r, d)' = "notifying"
            /\ posts'[d] = posts[d] /\ faults' = faults /\ SettledBy(r, d)
  <2>1. Lost' = Lost
    BY <1>2, <1>10 DEF Lost
  <2>2. posts'[d] <= MaxAttempts + Lost'
    BY <1>5, <1>10, <2>1 DEF Spent
  <2>3. ASSUME rows'[d].status \notin Terminal
        PROVE  posts'[d] <= Paid(rows[d])' + (IF Posted(d)' THEN 1 ELSE 0)
    <3>1. n <= Spare /\ rows'[d].attempts = rows[d].attempts + 1 /\ n = rows[d].attempts + 1
      BY <1>6, <1>9, <1>10, <2>3 DEF Holding
    <3>2. Paid(rows[d]) = Lost + rows[d].attempts /\ Paid(rows[d])' = Lost + rows[d].attempts + 1
      BY <1>1, <1>3, <2>1, <3>1 DEF Paid, Spare
    <3>3. posts[d] <= Paid(rows[d]) + (IF Posted(d) THEN 1 ELSE 0)
      BY <1>5, <1>6, <1>10 DEF Spent, Holding, Terminal
    <3> QED
      BY <1>1, <1>3, <1>10, <3>2, <3>3
  <2>4. Spent(d)'
    BY <1>9, <1>10, <2>2, <2>3 DEF Spent
  <2>5. \A q \in Replicas : Thrifty(q, d)'
    <3> SUFFICES ASSUME NEW q \in Replicas PROVE Thrifty(q, d)'
      OBVIOUS
    <3>1. CASE q = r
      BY <1>10, <3>1 DEF Thrifty
    <3>2. CASE q # r
      <4>1. Stage(q, d)' \notin Holding \cup Salvage
        BY <1>2, <1>10, <3>2, AloneInRow DEF Stage
      <4> QED
        BY <4>1 DEF Thrifty, Holding, Salvage
    <3> QED
      BY <3>1, <3>2
  <2> QED
    BY <1>4, <2>4, <2>5 DEF Spending
<1>11. CASE /\ Stage(r, d) \in Holding /\ Stage(r, d)' = "unhandled"
            /\ posts'[d] = posts[d] /\ faults' = faults + 1
            /\ rows' = rows \/ (Stage(r, d) = "settling" /\ SettledBy(r, d))
  <2>1. Lost' = Lost + 1
    BY <1>3, <1>11
  <2>2. /\ rows[d].attempts <= rows'[d].attempts /\ rows'[d].attempts <= n
        /\ rows'[d].status # "absent" /\ rows[d].status \notin Terminal
        /\ rows'[d].attempts \in Nat
    <3>1. rows[d].attempts <= n /\ rows[d].status = "in_flight"
      BY <1>1, <1>6, <1>11
    <3>2. rows'[d].attempts \in Nat
      BY TypedTask, <1>1 DEF Typed, TypeOK, Row
    <3>3. CASE rows' = rows
      BY <1>1, <3>1, <3>2, <3>3 DEF Terminal
    <3>4. CASE Stage(r, d) = "settling" /\ SettledBy(r, d)
      BY <1>9, <3>1, <3>2, <3>4 DEF Terminal
    <3> QED
      BY <1>11, <3>3, <3>4
  <2>3. posts'[d] <= MaxAttempts + Lost' /\ posts'[d] <= Paid(rows[d])'
    <3>1. posts[d] <= MaxAttempts + Lost /\ posts[d] <= Paid(rows[d]) + 1
      <4>1. Paid(rows[d]) \in Nat
        BY <1>1, <1>3 DEF Paid
      <4> QED
        BY <1>1, <1>5, <2>2, <4>1 DEF Spent
    <3>2. Paid(rows[d]) + 1 <= Paid(rows[d])'
      BY <1>1, <1>3, <2>1, <2>2 DEF Paid, Spare
    <3>3. Paid(rows[d]) \in Nat /\ Paid(rows[d])' \in Nat
      BY <1>1, <1>3, <2>1, <2>2 DEF Paid, Spare
    <3> QED
      BY <1>1, <1>3, <1>11, <2>1, <3>1, <3>2, <3>3
  <2>4. Spent(d)'
    <3>1. Paid(rows[d])' \in Nat /\ posts'[d] \in Nat
      BY <1>1, <1>3, <1>11, <2>1, <2>2 DEF Paid, Spare
    <3> QED
      BY <2>2, <2>3, <3>1 DEF Spent
  <2>5. \A q \in Replicas : Thrifty(q, d)'
    <3> SUFFICES ASSUME NEW q \in Replicas PROVE Thrifty(q, d)'
      OBVIOUS
    <3>1. CASE q = r
      BY <1>2, <1>11, <2>2, <3>1 DEF Thrifty
    <3>2. CASE q # r /\ rows' = rows
      BY <1>2, <1>5, <3>2 DEF Thrifty, Stage
    <3>3. CASE q # r /\ Stage(r, d) = "settling"
      <4>1. Stage(q, d)' \notin Holding \cup Salvage
        BY <1>2, <3>3, AloneInRow DEF Stage
      <4> QED
        BY <4>1 DEF Thrifty, Holding, Salvage
    <3> QED
      BY <1>11, <3>1, <3>2, <3>3
  <2> QED
    BY <1>4, <2>4, <2>5 DEF Spending
<1>12. CASE /\ Stage(r, d) \in {"unhandled", "burying", "notifying"}
            /\ Stage(r, d)' \in {"none", "burying"}
            /\ posts'[d] = posts[d]
            /\ \/ rows' = rows
               \/ Stage(r, d) = "unhandled" /\ AppendedBy(r, d)
               \/ Stage(r, d) = "burying" /\ BuriedBy(r, d)
  <2>1. Posted(d) => Posted(d)'
    BY <1>2, <1>12 DEF Posted, Stage
  <2>2. ASSUME rows' # rows
        PROVE  \A q \in Replicas : Thrifty(q, d)'
    <3> SUFFICES ASSUME NEW q \in Replicas PROVE Thrifty(q, d)'
      OBVIOUS
    <3>1. CASE q = r
      BY <1>12, <3>1 DEF Thrifty
    <3>2. CASE q # r
      <4>1. Stage(q, d)' \notin Holding \cup Salvage
        BY <1>2, <1>12, <2>2, <3>2, AloneInRow DEF Stage
      <4> QED
        BY <4>1 DEF Thrifty, Holding, Salvage
    <3> QED
      BY <3>1, <3>2
  <2>3. \A q \in Replicas : Thrifty(q, d)'
    <3>1. CASE rows' = rows
      BY <1>2, <1>5, <1>12, <3>1 DEF Thrifty, Stage
    <3> QED
      BY <2>2, <3>1
  <2>4. posts'[d] <= MaxAttempts + Lost'
    BY <1>1, <1>3, <1>5, <1>12 DEF Spent
  <2>5. ASSUME rows[d].attempts <= rows'[d].attempts, rows'[d].attempts \in Nat,
               rows'[d].status = rows[d].status
        PROVE  Spent(d)'
    <3>1. Paid(rows[d]) <= Paid(rows[d])' /\ Paid(rows[d]) \in Nat /\ Paid(rows[d])' \in Nat
      BY <1>1, <1>3, <2>5 DEF Paid, Spare
    <3>2. rows'[d].status \notin Terminal =>
            posts'[d] <= Paid(rows[d])' + (IF Posted(d)' THEN 1 ELSE 0)
      <4>1. rows'[d].status \notin Terminal =>
              posts[d] <= Paid(rows[d]) + (IF Posted(d) THEN 1 ELSE 0)
        BY <1>5, <2>5 DEF Spent
      <4> QED
        BY <1>1, <1>12, <2>1, <3>1, <4>1
    <3> QED
      BY <1>5, <1>12, <2>4, <2>5, <3>2 DEF Spent
  <2>6. rows' = rows => Spent(d)'
    BY <1>1, <2>5
  <2>7. ASSUME Stage(r, d) = "unhandled", AppendedBy(r, d)
        PROVE  Spent(d)'
    <3>1. rows'[d] = Appended(rows[d], n)
      BY <1>1, <2>7 DEF AppendedBy, Typed, TypeOK
    <3>2. rows[d].attempts <= n
      BY <1>5, <2>7 DEF Thrifty
    <3> HIDE DEF n
    <3>3. rows'[d].status = rows[d].status /\ rows'[d].attempts \in {n, rows[d].attempts}
      BY <1>1, <3>1, RowsGrow
    <3> QED
      BY <1>1, <2>5, <3>2, <3>3
  <2>8. ASSUME BuriedBy(r, d)
        PROVE  Spent(d)'
    <3>1. rows'[d] = Settled(rows[d], "dead_lettered", n, 0)
      BY <1>1, <2>8 DEF BuriedBy, Typed, TypeOK
    <3> HIDE DEF n
    <3>2. rows'[d].status = "dead_lettered"
      <4>1. rows[d] \in Row /\ n \in Nat
        BY <1>1
      <4>2. Settled(rows[d], "dead_lettered", n, 0).status = "dead_lettered"
        BY <4>1, SettledRow
      <4> QED
        BY <3>1, <4>2
    <3> QED
      BY <2>4, <3>2 DEF Spent, Terminal
  <2>9. Spent(d)'
    BY <1>12, <2>6, <2>7, <2>8
  <2> QED
    BY <1>4, <2>3, <2>9 DEF Spending
<1> QED
  BY <1>7, <1>8, <1>10, <1>11, <1>12, <1>1, TaskSpends

(* What a step of the tick does to what is counted.                        *)
LEMMA TickSpends ==
  ASSUME Custody, NEW r \in Replicas, TickStep(r)
  PROVE  /\ posts' = posts /\ stops' = stops /\ faults' \in {faults, faults + 1}
         /\ \A d \in Deliveries :
              /\ rows'[d].attempts = rows[d].attempts /\ rows'[d].fireAt = rows[d].fireAt
              /\ rows'[d].status = "absent" => rows[d].status = "absent"
              /\ rows[d].status \in Terminal => rows'[d].status \in Terminal
         /\ \A q \in Replicas, d \in Deliveries :
              \/ tasks'[q][d] = tasks[q][d]
              \/ Stage(q, d) = "none" /\ Stage(q, d)' = "queued"
<1>1. Typed /\ nowRead[r] \in Nat /\ \A d \in Deliveries : rows[d] \in Row
  BY DEF Custody, Typed, TypeOK
<1>2. posts' = posts /\ stops' = stops /\ faults' \in {faults, faults + 1}
  BY DEF TickStep, BeginTick, ReclaimStale, ReclaimFails, ThenClaim, ClaimBatch, ClaimFails, EndTick,
         Start, Fault, history
<1> DEFINE RowKept(d) ==
             /\ rows'[d].attempts = rows[d].attempts /\ rows'[d].fireAt = rows[d].fireAt
             /\ rows'[d].status = "absent" => rows[d].status = "absent"
             /\ rows[d].status \in Terminal => rows'[d].status \in Terminal
<1>3. CASE BeginTick(r) \/ EndTick(r) \/ Start(r) \/ ReclaimFails(r)
  <2>1. UNCHANGED <<rows, tasks>>
    BY <1>3 DEF BeginTick, EndTick, Start, ReclaimFails, ThenClaim
  <2> QED
    BY <1>2, <2>1
<1>4. CASE ReclaimStale(r)
  <2>1. /\ tasks' = tasks
        /\ \A d \in Deliveries : rows'[d] = Reclaimed(rows[d], nowRead[r])
    BY <1>4 DEF ReclaimStale, ThenClaim
  <2>2. ASSUME NEW d \in Deliveries PROVE RowKept(d)
    <3>1. \/ rows'[d] = rows[d]
          \/ /\ rows'[d] = [rows[d] EXCEPT !.status = "pending", !.lease = NoLease]
             /\ rows[d].status = "in_flight"
      BY <1>1, <2>1, ReclaimedRow DEF Stale
    <3> QED
      BY <1>1, <3>1 DEF Row, Terminal
  <2> QED
    BY <1>2, <2>1, <2>2
<1>5. ASSUME NEW batch, Lease(batch, nowRead[r]),
             \A d \in batch : d \in Deliveries /\ Claimable(rows[d], nowRead[r])
      PROVE  \A d \in Deliveries : RowKept(d)
  <2> SUFFICES ASSUME NEW d \in Deliveries PROVE RowKept(d)
    OBVIOUS
  <2>1. \/ rows'[d] = rows[d]
        \/ /\ rows'[d] = [rows[d] EXCEPT !.status = "in_flight", !.lease = nowRead[r] + LeaseTtl]
           /\ rows[d].status \in {"pending", "failed_retry"}
    BY <1>1, <1>5, ClaimedRow DEF Lease, Claimable
  <2> QED
    BY <1>1, <2>1 DEF Row, Terminal
<1>6. CASE ClaimFails(r)
  <2>1. PICK batch \in LeasedByFailure(nowRead[r]) : Lease(batch, nowRead[r])
    BY <1>6 DEF ClaimFails
  <2>2. \A d \in batch : d \in Deliveries /\ Claimable(rows[d], nowRead[r])
    BY DEF LeasedByFailure, Batches
  <2>3. \A d \in Deliveries : RowKept(d)
    BY <1>5, <2>1, <2>2
  <2> QED
    BY <1>2, <1>6, <2>3 DEF ClaimFails
<1>7. CASE ClaimBatch(r)
  <2>1. PICK batch \in Batches(nowRead[r]) :
          /\ Lease(batch, nowRead[r])
          /\ tasks' = [tasks EXCEPT ![r] = [d \in Deliveries |->
               IF d \in batch THEN NewTask(rows[d], nowRead[r]) ELSE @[d]]]
    BY <1>7 DEF ClaimBatch
  <2>2. \A d \in batch : d \in Deliveries /\ Claimable(rows[d], nowRead[r])
    BY DEF Batches
  <2>3. \A d \in Deliveries : RowKept(d)
    BY <1>5, <2>1, <2>2
  <2>4. \A d \in Deliveries : Stage(r, d) = "none"
    BY <1>7 DEF ClaimBatch, Custody, TasksInTick
  <2>5. \A q \in Replicas, d \in Deliveries :
          \/ tasks'[q][d] = tasks[q][d]
          \/ q = r /\ tasks'[q][d] = NewTask(rows[d], nowRead[r])
    BY <1>1, <2>1 DEF Typed, TypeOK
  <2>6. \A d \in Deliveries : NewTask(rows[d], nowRead[r]).stage = "queued"
    BY <1>1 DEF NewTask, NoTask, Row
  <2>7. \A q \in Replicas, d \in Deliveries :
          \/ tasks'[q][d] = tasks[q][d]
          \/ Stage(q, d) = "none" /\ Stage(q, d)' = "queued"
    BY <2>4, <2>5, <2>6 DEF Stage
  <2> QED
    BY <1>2, <2>3, <2>7
<1> QED
  BY <1>3, <1>4, <1>6, <1>7 DEF TickStep

LEMMA SpendingTick ==
  ASSUME Custody, Spending, NEW r \in Replicas, TickStep(r)
  PROVE  Spending'
<1> SUFFICES ASSUME NEW d \in Deliveries
             PROVE  Spent(d)' /\ \A q \in Replicas : Thrifty(q, d)'
  BY DEF Spending
<1>1. Typed
  BY DEF Custody
<1>2. /\ posts'[d] = posts[d] /\ stops' = stops /\ faults' \in {faults, faults + 1}
      /\ rows'[d].attempts = rows[d].attempts
      /\ rows'[d].status = "absent" => rows[d].status = "absent"
      /\ rows[d].status \in Terminal => rows'[d].status \in Terminal
      /\ \A q \in Replicas :
           \/ tasks'[q][d] = tasks[q][d]
           \/ Stage(q, d) = "none" /\ Stage(q, d)' = "queued"
  BY TickSpends
<1>3. Lost' \in {Lost, Lost + 1}
  BY <1>1, <1>2, LostGrows
<1> QED
  BY <1>1, <1>2, <1>3, SpendingAside

LEMMA SpendingEnqueue ==
  ASSUME Typed, Spending, NEW d \in Deliveries, Enqueue(d)
  PROVE  Spending'
<1>1. /\ tasks' = tasks /\ posts' = posts /\ faults' = faults /\ stops' = stops
      /\ rows[d].status = "absent"
      /\ \A e \in Deliveries \ {d} : rows'[e] = rows[e]
      /\ rows'[d] = [NoRow EXCEPT !.status = "pending", !.fireAt = clock]
  BY EnqueuedRow DEF Enqueue, Typed, TypeOK, history
<1>2. Lost \in Nat /\ Lost' = Lost /\ Spare \in Nat
  BY <1>1, LostGrows, PolicyAssumption DEF Lost, Spare
<1>3. ASSUME NEW e \in Deliveries \ {d}
      PROVE  Spent(e)' /\ \A q \in Replicas : Thrifty(q, e)'
  BY <1>1, <1>2, <1>3, SpendingAside
<1>4. rows'[d].status = "pending" /\ rows'[d].attempts = 0
  BY <1>1 DEF NoRow
<1>5. posts[d] = 0 /\ \A q \in Replicas : tasks[q][d].attempt \in Nat /\ Thrifty(q, d)
  BY <1>1 DEF Spending, Spent, Typed, TypeOK, Task
<1>6. \A q \in Replicas : Thrifty(q, d)'
  BY <1>1, <1>4, <1>5 DEF Thrifty, Stage
<1>7. Paid(rows[d])' = Lost
  BY <1>2, <1>4 DEF Paid
<1>8. Spent(d)'
  BY <1>1, <1>2, <1>4, <1>5, <1>7, PolicyAssumption DEF Spent
<1> QED
  BY <1>3, <1>6, <1>8 DEF Spending

LEMMA SpendingStop ==
  ASSUME Typed, Spending, NEW r \in Replicas, Stop(r)
  PROVE  Spending'
<1>1. /\ rows' = rows /\ posts' = posts /\ faults' = faults /\ stops' = stops + 1
      /\ \A q \in Replicas, d \in Deliveries : tasks'[q][d] = tasks[q][d] \/ Stage(q, d)' = "none"
  BY DEF Stop, Typed, TypeOK, Stage, NoTask, history
<1>2. Lost' = Lost + 1
  <2>1. faults \in Nat /\ stops \in Nat
    BY DEF Typed, TypeOK
  <2>2. faults + (stops + 1) = (faults + stops) + 1
    BY <2>1
  <2> QED
    BY <1>1, <2>2 DEF Lost
<1>3. ASSUME NEW d \in Deliveries
      PROVE  Spent(d)' /\ \A q \in Replicas : Thrifty(q, d)'
  BY <1>1, <1>2, SpendingAside
<1> QED
  BY <1>3 DEF Spending

LEMMA SpendingStep == SafeDeployment /\ Custody /\ Snapshots /\ Spending /\ [Next]_vars => Spending'
<1> SUFFICES ASSUME SafeDeployment, Custody, Snapshots, Spending, [Next]_vars PROVE Spending'
  OBVIOUS
<1>1. Typed
  BY DEF Custody
<1>2. CASE Advance \/ UNCHANGED vars
  <2>1. UNCHANGED <<rows, tasks, posts, faults, stops>>
    BY <1>2 DEF Advance, vars, history
  <2> QED
    BY <2>1 DEF Spending, Spent, Thrifty, Paid, Lost, Posted, Stage
<1> QED
  BY <1>1, <1>2, SpendingEnqueue, SpendingStop, SpendingTick, SpendingTask DEF Next, ReplicaStep

(* A receiver gets at most max_attempts POSTs of a delivery, and one more  *)
(* for each failure or crash: a retry is scheduled only below the budget,  *)
(* and what made the engine forget an attempt is counted.                  *)
THEOREM LoadIsBounded == SafeDeployment /\ Spec => []ReceiverLoadBounded
<1>1. Custody /\ Spending => ReceiverLoadBounded
  <2> SUFFICES ASSUME Custody, Spending, NEW d \in Deliveries
               PROVE  posts[d] <= MaxAttempts + faults + stops
    BY DEF ReceiverLoadBounded
  <2>1. posts[d] <= MaxAttempts + (faults + stops)
    BY DEF Spending, Spent, Lost
  <2>2. posts[d] \in Nat /\ faults \in Nat /\ stops \in Nat /\ MaxAttempts \in Nat
    BY PolicyAssumption DEF Custody, Typed, TypeOK
  <2> QED
    BY <2>1, <2>2
<1>2. CASE SafeDeployment
  BY <1>1, <1>2, SpendingInit, SpendingStep, CustodyAlways, SnapshotsAlways, PTL DEF Spec
<1> QED
  BY <1>2

-------------------------------------------------------------------------------
(* Quarantine.  On Postgres append_attempt moves the counter, so that each *)
(* unhandled exception of a delivery has an attempt number of its own; the *)
(* one that reaches the limit ends in mark_dead, unless one more thing     *)
(* goes wrong.                                                             *)
Upset(d) == IF \E r \in Replicas : Stage(r, d) = "unhandled" THEN 1 ELSE 0

(* Nothing will raise for it any more.                                     *)
Shut(d) ==
  /\ \A r \in Replicas : Stage(r, d) \notin Holding \cup {"unhandled"}
  /\ rows[d].status \in Terminal \/ \E r \in Replicas : Stage(r, d) = "burying"

Contained(d) ==
  /\ raised[d] + Upset(d) <= Lost
  /\ raised[d] <= rows[d].attempts
  /\ rows[d].status = "absent" => raised[d] = 0
  /\ \A r \in Replicas :
       /\ Stage(r, d) \in Holding \cup {"unhandled"} =>
            raised[d] + 1 <= tasks[r][d].attempt /\ rows[d].status # "absent"
       /\ Stage(r, d) = "burying" => raised[d] <= tasks[r][d].attempt
  /\ raised[d] >= MaxUnhandled => raised[d] + Upset(d) < Lost \/ Shut(d)
  /\ raised[d] > MaxUnhandled => raised[d] + Upset(d) < Lost

Containment == \A d \in Deliveries : Contained(d)

LEMMA ContainmentInit == Init => Containment
<1> SUFFICES ASSUME Init, NEW d \in Deliveries PROVE Contained(d)
  BY DEF Containment
<1>1. /\ raised[d] = 0 /\ Lost = 0 /\ rows[d].attempts = 0 /\ MaxUnhandled \in Nat \ {0}
      /\ \A r \in Replicas : Stage(r, d) = "none"
  BY DispatchAssumption DEF Init, Lost, NoRow, NoTask, Stage
<1> QED
  BY <1>1 DEF Contained, Upset, Holding

LEMMA QuarantineNumbers ==
  ASSUME Typed, NEW d \in Deliveries
  PROVE  /\ raised[d] \in Nat /\ Lost \in Nat /\ rows[d].attempts \in Nat /\ MaxUnhandled \in Nat
         /\ Upset(d) \in {0, 1} /\ rows[d] \in Row
         /\ \A r \in Replicas : tasks[r][d] \in Task /\ tasks[r][d].attempt \in Nat
BY DispatchAssumption DEF Typed, TypeOK, Lost, Upset, Row, Task

(* A delivery whose counter and log of exceptions stay as they are.        *)
LEMMA ContainedAside ==
  ASSUME Typed, NEW d \in Deliveries, Contained(d),
         raised'[d] = raised[d], rows'[d].attempts = rows[d].attempts,
         rows'[d].status = "absent" => rows[d].status = "absent",
         rows[d].status \in Terminal => rows'[d].status \in Terminal,
         \A r \in Replicas : tasks'[r][d] = tasks[r][d] \/ Stage(r, d)' = "none",
         \/ Lost' = Lost + 1
         \/ Lost' = Lost /\ \A r \in Replicas :
              tasks'[r][d] = tasks[r][d] \/ Stage(r, d) \notin {"unhandled", "burying"}
  PROVE  Contained(d)'
<1>1. /\ raised[d] \in Nat /\ Lost \in Nat /\ rows[d].attempts \in Nat /\ MaxUnhandled \in Nat
      /\ Upset(d) \in {0, 1}
  BY QuarantineNumbers
<1>2. ASSUME NEW r \in Replicas
      PROVE  /\ Stage(r, d)' \in Holding \cup {"unhandled"} =>
                  raised'[d] + 1 <= tasks'[r][d].attempt /\ rows'[d].status # "absent"
             /\ Stage(r, d)' = "burying" => raised'[d] <= tasks'[r][d].attempt
             /\ Stage(r, d)' \in Holding \cup {"unhandled"} => Stage(r, d)' = Stage(r, d)
  BY DEF Contained, Stage, Holding
<1>3. Upset(d)' \in {0, 1} /\ Upset(d)' <= Upset(d)
  BY <1>2 DEF Upset
<1>4. CASE Lost' = Lost + 1
  <2>1. raised'[d] + Upset(d)' < Lost'
    BY <1>1, <1>3, <1>4 DEF Contained
  <2>2. raised'[d] + Upset(d)' <= Lost'
    BY <1>1, <1>3, <1>4 DEF Contained
  <2> QED
    BY <1>2, <2>1, <2>2 DEF Contained
<1>5. CASE Lost' = Lost /\ \A r \in Replicas :
             tasks'[r][d] = tasks[r][d] \/ Stage(r, d) \notin {"unhandled", "burying"}
  <2>1. Shut(d) => Shut(d)'
    BY <1>2, <1>5 DEF Shut, Stage
  <2>2. raised[d] + Upset(d) < Lost => raised'[d] + Upset(d)' < Lost'
    BY <1>1, <1>3, <1>5
  <2>3. raised'[d] + Upset(d)' <= Lost'
    BY <1>1, <1>3, <1>5 DEF Contained
  <2> QED
    BY <1>2, <2>1, <2>2, <2>3 DEF Contained
<1> QED
  BY <1>4, <1>5

(* In a safe deployment nobody else works on the delivery of a task.       *)
LEMMA AloneAtWork ==
  ASSUME Custody, SafeDeployment, NEW r \in Replicas, NEW q \in Replicas, q # r,
         NEW d \in Deliveries, Stage(r, d) \in Holding \cup Salvage
  PROVE  Stage(q, d) \notin Holding \cup Salvage
<1>1. ~LostReplies
  BY DEF SafeDeployment, SingleReplica, TimelyReplicas
<1> QED
  BY <1>1 DEF Custody, OneOwner, Owns, Owning, Holding, Salvage

LEMMA SettledStatus ==
  \A row \in Row, n, due \in Nat, status \in {"sent", "failed_retry", "dead_lettered"} :
    Settled(row, status, n, due).status = status
<1> TAKE row \in Row, n \in Nat, due \in Nat, status \in {"sent", "failed_retry", "dead_lettered"}
<1> QED
  BY SettledRow, Zenon

LEMMA SettledCount ==
  \A row \in Row, n, due \in Nat, status \in {"sent", "failed_retry", "dead_lettered"} :
    /\ Settled(row, status, n, due).status = status
    /\ Settled(row, status, n, due).attempts \in {n, row.attempts, row.attempts + 1}
<1>1. ASSUME NEW row \in Row, NEW n \in Nat, NEW due \in Nat,
             NEW status \in {"sent", "failed_retry", "dead_lettered"}
      PROVE  Settled(row, status, n, due).attempts \in {n, row.attempts, row.attempts + 1}
  BY RowsGrow
<1> QED
  BY <1>1, SettledStatus

LEMMA PgCounts ==
  ASSUME Backend = "pg", NEW row \in Row, NEW n \in Nat
  PROVE  Appended(row, n).attempts = n
<1>1. Logged(row, n) \in Row
  BY LoggedRow
<1>2. Appended(row, n) = [Logged(row, n) EXCEPT !.attempts = n]
  BY DEF Appended, PgAppended
<1> QED
  BY <1>1, <1>2 DEF Row

(* What a step of a task does to its exceptions.                           *)
LEMMA TaskRaises ==
  ASSUME Typed, NEW r \in Replicas, NEW d \in Deliveries, TaskStep(r, d)
  PROVE  /\ stops' = stops /\ \A e \in Deliveries : e # d => raised'[e] = raised[e]
         /\ tasks'[r][d].attempt = tasks[r][d].attempt \/ Stage(r, d)' = "none"
         /\ \/ /\ Stage(r, d) \in Holding /\ Stage(r, d)' \in Holding
               /\ raised'[d] = raised[d] /\ faults' = faults /\ rows' = rows
            \/ /\ Stage(r, d) \in Holding /\ Stage(r, d)' = "unhandled"
               /\ raised'[d] = raised[d] /\ faults' = faults + 1
               /\ rows' = rows \/ (Stage(r, d) = "settling" /\ SettledBy(r, d))
            \/ /\ Stage(r, d) = "settling" /\ Stage(r, d)' = "notifying"
               /\ raised'[d] = raised[d] /\ faults' = faults /\ SettledBy(r, d)
            \/ /\ Stage(r, d) = "unhandled" /\ raised'[d] = raised[d] + 1 /\ faults' = faults
               /\ AppendedBy(r, d)
               /\ Stage(r, d)' = IF tasks[r][d].attempt >= MaxUnhandled THEN "burying" ELSE "none"
            \/ /\ Stage(r, d) = "unhandled" /\ Stage(r, d)' = "none"
               /\ raised'[d] = raised[d] /\ faults' = faults + 1
               /\ rows' = rows \/ AppendedBy(r, d)
            \/ /\ Stage(r, d) = "burying" /\ Stage(r, d)' = "none" /\ raised'[d] = raised[d]
               /\ \/ faults' = faults /\ BuriedBy(r, d)
                  \/ faults' = faults + 1 /\ (rows' = rows \/ BuriedBy(r, d))
            \/ /\ Stage(r, d) = "notifying" /\ Stage(r, d)' = "none"
               /\ raised'[d] = raised[d] /\ faults' = faults /\ rows' = rows
<1>1. tasks[r][d] \in Task /\ raised \in [Deliveries -> Nat]
  BY DEF Typed, TypeOK
<1>2. ASSUME NEW t, Becomes(r, d, t) PROVE tasks'[r][d] = t
  BY <1>2, OneTask DEF Typed
<1>3. ASSUME NEW stage, To(r, d, stage)
      PROVE  Stage(r, d)' = stage /\ tasks'[r][d].attempt = tasks[r][d].attempt
  <2>1. tasks'[r][d] = [tasks[r][d] EXCEPT !.stage = stage]
    BY <1>2, <1>3 DEF To
  <2> QED
    BY <1>1, <2>1 DEF Task, Stage
<1>4. ASSUME Ends(r, d) PROVE Stage(r, d)' = "none"
  BY <1>2, <1>4 DEF Ends, NoTask, Stage
<1> USE DEF history, Holding
<1>5. CASE Prepare(r, d) \/ Reject(r, d)
  <2>1. \/ tasks'[r][d] = [tasks[r][d] EXCEPT !.stage = "waiting", !.sentAt = clock]
        \/ tasks'[r][d] = [tasks[r][d] EXCEPT !.stage = "settling", !.sentAt = clock,
                                              !.verdict = "dead_lettered"]
    BY <1>2, <1>5 DEF Prepare, Reject
  <2>2. /\ Stage(r, d)' \in {"waiting", "settling"}
        /\ tasks'[r][d].attempt = tasks[r][d].attempt
    BY <1>1, <2>1 DEF Task, Stage
  <2> QED
    BY <1>5, <2>2 DEF Prepare, Reject, EnterGate
<1>6. CASE Post(r, d)
  BY <1>3, <1>6 DEF Post
<1>7. CASE Conclude(r, d)
  <2>1. PICK reason \in RetryReason \cup {NoReason}, retryAt \in Nat :
          Becomes(r, d, [tasks[r][d] EXCEPT !.stage = "settling",
            !.verdict = OutcomeStatus(reason, RetryOn(reason, tasks[r][d].attempt)),
            !.retryAt = retryAt])
    BY <1>7, ConcludedTask DEF Typed
  <2> DEFINE verdict == OutcomeStatus(reason, RetryOn(reason, tasks[r][d].attempt))
  <2> HIDE DEF verdict
  <2>2. tasks'[r][d] = [tasks[r][d] EXCEPT !.stage = "settling", !.verdict = verdict,
                                           !.retryAt = retryAt]
    BY <1>2, <2>1 DEF verdict
  <2>3. Stage(r, d)' = "settling" /\ tasks'[r][d].attempt = tasks[r][d].attempt
    BY <1>1, <2>2 DEF Task, Stage
  <2> QED
    BY <1>7, <2>3 DEF Conclude
<1>8. CASE Raise(r, d)
  BY <1>3, <1>8 DEF Raise, EnterGate, Fault
<1>9. CASE Settle(r, d) \/ SettleFails(r, d)
  BY <1>3, <1>9 DEF Settle, SettleFails, Fault
<1>10. CASE QuarantineAppend(r, d)
  BY <1>1, <1>3, <1>4, <1>10 DEF QuarantineAppend, Exhausted
<1>11. CASE QuarantineAppendFails(r, d)
  BY <1>4, <1>11 DEF QuarantineAppendFails, Fault
<1>12. CASE Notify(r, d) \/ Bury(r, d) \/ BuryFails(r, d)
  BY <1>4, <1>12 DEF Notify, Bury, BuryFails, Fault
<1> QED
  BY <1>5, <1>6, <1>7, <1>8, <1>9, <1>10, <1>11, <1>12 DEF TaskStep

LEMMA ContainedTask ==
  ASSUME Backend = "pg", Custody, SafeDeployment, Snapshots, NEW r \in Replicas,
         NEW d \in Deliveries, Contained(d), TaskStep(r, d)
  PROVE  Contained(d)'
<1> DEFINE n == tasks[r][d].attempt
           m == raised[d]
<1>1. /\ Typed /\ m \in Nat /\ Lost \in Nat /\ rows[d].attempts \in Nat /\ MaxUnhandled \in Nat
      /\ Upset(d) \in {0, 1} /\ rows[d] \in Row /\ n \in Nat
      /\ tasks[r][d].retryAt \in Nat /\ faults \in Nat /\ stops \in Nat
  BY QuarantineNumbers DEF Custody, Typed, TypeOK, Task
<1>2. \A q \in Replicas : q # r => tasks'[q][d] = tasks[q][d] /\ Stage(q, d)' = Stage(q, d)
  BY <1>1, TaskFrame DEF Stage
<1>3. /\ m + Upset(d) <= Lost /\ m <= rows[d].attempts
      /\ rows[d].status = "absent" => m = 0
      /\ Stage(r, d) \in Holding \cup {"unhandled"} => m + 1 <= n /\ rows[d].status # "absent"
      /\ Stage(r, d) = "burying" => m <= n
      /\ m >= MaxUnhandled => m + Upset(d) < Lost \/ Shut(d)
      /\ m > MaxUnhandled => m + Upset(d) < Lost
  BY DEF Contained
<1>4. stops' = stops /\ (tasks'[r][d].attempt = n \/ Stage(r, d)' = "none")
  BY <1>1, TaskRaises
<1>5. faults' = faults => Lost' = Lost
  BY <1>4 DEF Lost
<1>6. faults' = faults + 1 => Lost' = Lost + 1
  <2>1. (faults + 1) + stops = (faults + stops) + 1
    BY <1>1
  <2> QED
    BY <1>4, <2>1 DEF Lost
<1> HIDE DEF n, m
<1>6a. \A due \in Nat, status \in {"sent", "failed_retry", "dead_lettered"} :
         /\ Settled(rows[d], status, n, due).status = status
         /\ Settled(rows[d], status, n, due).attempts \in {n, rows[d].attempts, rows[d].attempts + 1}
  <2>1. rows[d] \in Row /\ n \in Nat
    BY <1>1
  <2> QED
    BY <2>1, SettledCount
<1>7. ASSUME SettledBy(r, d), Stage(r, d) = "settling"
      PROVE  rows'[d].attempts >= m /\ rows'[d].status # "absent"
  <2>1. tasks[r][d].verdict \in {"sent", "failed_retry", "dead_lettered"}
    BY <1>1, <1>7 DEF Typed, VerdictKnown, TypeOK, Task, Verdicts, Stage
  <2>2. rows'[d] = Settled(rows[d], tasks[r][d].verdict, n, tasks[r][d].retryAt)
    BY <1>1, <1>7 DEF SettledBy, Typed, TypeOK, n
  <2>3. rows'[d].status # "absent" /\ rows'[d].attempts \in {n, rows[d].attempts, rows[d].attempts + 1}
    BY <1>1, <1>6a, <2>1, <2>2
  <2> QED
    BY <1>1, <1>3, <1>7, <2>3 DEF Holding
<1>8. ASSUME AppendedBy(r, d)
      PROVE  rows'[d].attempts = n /\ rows'[d].status = rows[d].status
  <2>1. rows'[d] = Appended(rows[d], n)
    BY <1>1, <1>8 DEF AppendedBy, Typed, TypeOK, n
  <2> QED
    BY <1>1, <2>1, PgCounts, RowsGrow
<1>9. ASSUME BuriedBy(r, d), Stage(r, d) = "burying"
      PROVE  rows'[d].attempts >= m /\ rows'[d].status = "dead_lettered"
  <2>1. rows'[d] = Settled(rows[d], "dead_lettered", n, 0)
    BY <1>1, <1>9 DEF BuriedBy, Typed, TypeOK, n
  <2>2. /\ rows'[d].attempts \in {n, rows[d].attempts, rows[d].attempts + 1}
        /\ rows'[d].status = "dead_lettered"
    BY <1>6a, <2>1
  <2> QED
    BY <1>1, <1>3, <1>9, <2>2
(* Nobody beside the task: what is left to show.                           *)
<1>10. ASSUME \A q \in Replicas \ {r} : Stage(q, d) \notin Holding \cup Salvage
       PROVE  /\ Upset(d) = (IF Stage(r, d) = "unhandled" THEN 1 ELSE 0)
              /\ Upset(d)' = (IF Stage(r, d)' = "unhandled" THEN 1 ELSE 0)
              /\ Stage(r, d) \in Holding \cup {"unhandled"} => ~Shut(d)
              /\ Stage(r, d)' \notin Holding \cup {"unhandled"}
                   /\ (rows'[d].status \in Terminal \/ Stage(r, d)' = "burying") => Shut(d)'
              /\ \A q \in Replicas \ {r} : Stage(q, d)' \notin Holding \cup Salvage
  BY <1>2, <1>10 DEF Upset, Shut, Salvage
<1>11. ASSUME \A q \in Replicas \ {r} : Stage(q, d)' \notin Holding \cup Salvage,
              rows'[d].attempts >= raised'[d],
              rows'[d].status # "absent" \/ (raised'[d] = 0 /\ Stage(r, d)' \notin Holding \cup Salvage),
              Stage(r, d)' \in Holding \cup {"unhandled"} => raised'[d] + 1 <= tasks'[r][d].attempt,
              Stage(r, d)' = "burying" => raised'[d] <= tasks'[r][d].attempt,
              raised'[d] + Upset(d)' <= Lost',
              raised'[d] >= MaxUnhandled => raised'[d] + Upset(d)' < Lost' \/ Shut(d)',
              raised'[d] > MaxUnhandled => raised'[d] + Upset(d)' < Lost'
       PROVE  Contained(d)'
  <2>1. raised'[d] <= rows'[d].attempts
    BY <1>11
  <2>2. \A q \in Replicas :
          /\ Stage(q, d)' \in Holding \cup {"unhandled"} =>
               raised'[d] + 1 <= tasks'[q][d].attempt /\ rows'[d].status # "absent"
          /\ Stage(q, d)' = "burying" => raised'[d] <= tasks'[q][d].attempt
    BY <1>11 DEF Salvage
  <2>3. rows'[d].status = "absent" => raised'[d] = 0
    BY <1>11
  <2> QED
    BY <1>11, <2>1, <2>2, <2>3 DEF Contained
<1>12. CASE Stage(r, d) = "notifying"
  <2>1. /\ Stage(r, d)' = "none" /\ raised'[d] = raised[d] /\ faults' = faults /\ rows' = rows
    BY <1>1, <1>12, TaskRaises DEF Holding
  <2> QED
    BY <1>1, <1>2, <1>5, <1>12, <2>1, ContainedAside
<1>13. CASE Stage(r, d) \in Holding
  <2>1. /\ Upset(d) = 0 /\ ~Shut(d)
        /\ \A q \in Replicas \ {r} : Stage(q, d)' \notin Holding \cup Salvage
        /\ Upset(d)' = (IF Stage(r, d)' = "unhandled" THEN 1 ELSE 0)
    BY <1>10, <1>13, AloneAtWork DEF Holding
  <2>2. /\ m + 1 <= n /\ m <= Lost /\ rows[d].status # "absent"
        /\ m >= MaxUnhandled => m < Lost
    BY <1>1, <1>3, <1>13, <2>1
  <2>3. raised'[d] = m
    BY <1>1, <1>13, TaskRaises DEF Holding, m
  <2>4. rows'[d].attempts >= m /\ rows'[d].status # "absent"
    <3>1. rows' = rows \/ (Stage(r, d) = "settling" /\ SettledBy(r, d))
      BY <1>1, <1>13, TaskRaises DEF Holding
    <3> QED
      BY <1>1, <1>3, <1>7, <2>2, <3>1
  <2>5. CASE Stage(r, d)' = "unhandled"
    <3>1. Lost' = Lost + 1 /\ Upset(d)' = 1 /\ tasks'[r][d].attempt = n
      BY <1>1, <1>4, <1>6, <1>13, <2>1, <2>5, TaskRaises DEF Holding
    <3>2. /\ m + 1 <= Lost + 1
          /\ m >= MaxUnhandled => m + 1 < Lost + 1
          /\ m > MaxUnhandled => m + 1 < Lost + 1
      BY <1>1, <2>2
    <3> QED
      BY <1>11, <2>1, <2>2, <2>3, <2>4, <2>5, <3>1, <3>2
  <2>6. CASE Stage(r, d)' # "unhandled"
    <3>1. Lost' = Lost /\ Upset(d)' = 0 /\ Stage(r, d)' \in Holding \cup {"notifying"}
      BY <1>1, <1>5, <1>13, <2>1, <2>6, TaskRaises DEF Holding
    <3>2. Stage(r, d)' \in Holding \cup {"unhandled"} => m + 1 <= tasks'[r][d].attempt
      BY <1>4, <2>2, <3>1 DEF Holding
    <3>3. /\ m + 0 <= Lost
          /\ m >= MaxUnhandled => m + 0 < Lost
          /\ m > MaxUnhandled => m + 0 < Lost
      BY <1>1, <2>2
    <3> QED
      BY <1>11, <2>1, <2>3, <2>4, <3>1, <3>2, <3>3 DEF Holding
  <2> QED
    BY <2>5, <2>6
<1>14. CASE Stage(r, d) = "unhandled"
  <2>1. /\ Upset(d) = 1 /\ ~Shut(d)
        /\ \A q \in Replicas \ {r} : Stage(q, d)' \notin Holding \cup Salvage
        /\ Stage(r, d)' \in {"none", "burying"} => Upset(d)' = 0
        /\ Stage(r, d)' = "burying" => Shut(d)'
    BY <1>10, <1>14, AloneAtWork DEF Holding, Salvage
  <2>2. /\ m + 1 <= n /\ m + 1 <= Lost /\ rows[d].status # "absent"
        /\ m >= MaxUnhandled => m + 1 < Lost
    BY <1>1, <1>3, <1>14, <2>1
  <2>3. CASE raised'[d] = raised[d] + 1
    <3>1. /\ faults' = faults /\ AppendedBy(r, d)
          /\ Stage(r, d)' = IF n >= MaxUnhandled THEN "burying" ELSE "none"
      BY <1>1, <1>14, <2>3, TaskRaises DEF Holding, n, m
    <3>2. /\ rows'[d].attempts = n /\ rows'[d].status # "absent" /\ Lost' = Lost /\ Upset(d)' = 0
          /\ Stage(r, d)' \in {"none", "burying"} /\ raised'[d] = m + 1
          /\ Stage(r, d)' = "burying" => tasks'[r][d].attempt = n
      BY <1>4, <1>5, <1>8, <2>1, <2>2, <2>3, <3>1 DEF m
    <3>3. /\ (m + 1) + 0 <= Lost /\ n >= m + 1
          /\ m + 1 >= MaxUnhandled => Stage(r, d)' = "burying"
          /\ m + 1 > MaxUnhandled => (m + 1) + 0 < Lost
      BY <1>1, <2>2, <3>1
    <3> QED
      BY <1>11, <2>1, <2>2, <3>2, <3>3 DEF Holding
  <2>4. CASE raised'[d] # raised[d] + 1
    <3>1. /\ Stage(r, d)' = "none" /\ raised'[d] = m /\ faults' = faults + 1
          /\ rows' = rows \/ AppendedBy(r, d)
      BY <1>1, <1>14, <2>4, TaskRaises DEF Holding, m
    <3>2. rows'[d].attempts >= m /\ rows'[d].status # "absent" /\ Lost' = Lost + 1
      BY <1>1, <1>3, <1>6, <1>8, <2>2, <3>1
    <3>3. m + 0 <= Lost + 1 /\ m + 0 < Lost + 1
      BY <1>1, <2>2
    <3> QED
      BY <1>11, <2>1, <3>1, <3>2, <3>3 DEF Holding
  <2> QED
    BY <2>3, <2>4
<1>15. CASE Stage(r, d) = "burying"
  <2>1. /\ Upset(d) = 0
        /\ \A q \in Replicas \ {r} : Stage(q, d)' \notin Holding \cup Salvage
        /\ Stage(r, d)' = "none" => Upset(d)' = 0
        /\ Stage(r, d)' = "none" /\ rows'[d].status \in Terminal => Shut(d)'
    BY <1>10, <1>15, AloneAtWork DEF Holding, Salvage
  <2>2. /\ Stage(r, d)' = "none" /\ raised'[d] = m
        /\ \/ faults' = faults /\ BuriedBy(r, d)
           \/ faults' = faults + 1 /\ (rows' = rows \/ BuriedBy(r, d))
    BY <1>1, <1>15, TaskRaises DEF Holding, m
  <2>3. m <= Lost
    BY <1>1, <1>3, <2>1
  <2>4. rows'[d].attempts >= m /\ (rows'[d].status = "absent" => m = 0)
    BY <1>1, <1>3, <1>9, <1>15, <2>2
  <2>5. Stage(r, d)' \notin Holding \cup Salvage /\ Stage(r, d)' # "unhandled"
    BY <2>2 DEF Holding, Salvage
  <2>6. CASE faults' = faults /\ BuriedBy(r, d)
    <3>1. Lost' = Lost /\ Shut(d)' /\ Upset(d)' = 0
      BY <1>5, <1>9, <1>15, <2>1, <2>2, <2>6 DEF Terminal
    <3>2. m + 0 <= Lost /\ (m > MaxUnhandled => m + 0 < Lost)
      BY <1>1, <1>3, <2>1, <2>3
    <3> QED
      BY <1>11, <2>1, <2>2, <2>4, <2>5, <3>1, <3>2 DEF Salvage
  <2>7. CASE faults' = faults + 1
    <3>1. Lost' = Lost + 1 /\ Upset(d)' = 0
      BY <1>6, <2>1, <2>2, <2>7
    <3>2. m + 0 <= Lost + 1 /\ m + 0 < Lost + 1
      BY <1>1, <2>3
    <3> QED
      BY <1>11, <2>1, <2>2, <2>4, <2>5, <3>1, <3>2 DEF Salvage
  <2> QED
    BY <2>2, <2>6, <2>7
<1>16. Stage(r, d) \in Holding \cup {"unhandled", "burying", "notifying"}
  BY <1>1, TaskRaises DEF Holding
<1> QED
  BY <1>12, <1>13, <1>14, <1>15, <1>16

LEMMA ContainmentTask ==
  ASSUME Backend = "pg", Custody, SafeDeployment, Snapshots, Containment,
         NEW r \in Replicas, NEW d \in Deliveries, TaskStep(r, d)
  PROVE  Containment'
<1> SUFFICES ASSUME NEW e \in Deliveries PROVE Contained(e)'
  BY DEF Containment
<1>1. Typed /\ Contained(e)
  BY DEF Custody, Containment
<1>2. CASE e = d
  BY <1>1, <1>2, ContainedTask
<1>3. CASE e # d
  <2>1. /\ stops' = stops /\ raised'[e] = raised[e] /\ rows'[e] = rows[e]
        /\ \A q \in Replicas : tasks'[q][e] = tasks[q][e]
    BY <1>1, <1>3, TaskRaises, TaskFrame
  <2>2. faults' \in {faults, faults + 1}
    BY <1>1, TaskRaises
  <2>3. Lost' \in {Lost, Lost + 1}
    BY <1>1, <2>1, <2>2, LostGrows
  <2> QED
    BY <1>1, <2>1, <2>3, ContainedAside
<1> QED
  BY <1>2, <1>3

(* A claim leases a row that nobody is to bury, and its task counts on.    *)
LEMMA ContainmentTick ==
  ASSUME Custody, SafeDeployment, Snapshots, Containment, NEW r \in Replicas, TickStep(r)
  PROVE  Containment'
<1> SUFFICES ASSUME NEW d \in Deliveries PROVE Contained(d)'
  BY DEF Containment
<1>1. Typed /\ Contained(d) /\ Custody' /\ Snapshots'
  BY CustodyTick, SnapshotsTick DEF Custody, Containment
<1>2. raised' = raised
  BY DEF TickStep, BeginTick, ReclaimStale, ReclaimFails, ThenClaim, ClaimBatch, ClaimFails, EndTick,
         Start, history
<1>3. /\ rows'[d].attempts = rows[d].attempts
      /\ rows'[d].status = "absent" => rows[d].status = "absent"
      /\ rows[d].status \in Terminal => rows'[d].status \in Terminal
      /\ \A q \in Replicas :
           \/ tasks'[q][d] = tasks[q][d]
           \/ Stage(q, d) = "none" /\ Stage(q, d)' = "queued"
      /\ stops' = stops /\ faults' \in {faults, faults + 1}
  BY TickSpends
<1>4. Lost' \in {Lost, Lost + 1}
  BY <1>1, <1>3, LostGrows
<1>5. CASE \A q \in Replicas : tasks'[q][d] = tasks[q][d]
  BY <1>1, <1>2, <1>3, <1>4, <1>5, ContainedAside
<1>6. ASSUME NEW q \in Replicas, Stage(q, d) = "none", Stage(q, d)' = "queued"
      PROVE  Contained(d)'
  <2>1. tasks'[q][d].attempt = rows'[d].attempts + 1 /\ rows'[d].status = "in_flight"
    BY <1>1, <1>6 DEF Snapshots, SnapshotOf, Custody, LeasedToOwner, Owns, Owning, Holding
  <2>2. rows[d].status \notin Terminal
    BY <1>3, <2>1 DEF Terminal
  <2>3. ASSUME NEW p \in Replicas, p # q
        PROVE  Stage(p, d)' \notin Holding \cup Salvage
    <3>1. ~LostReplies
      BY <2>3 DEF SafeDeployment, SingleReplica, TimelyReplicas
    <3> QED
      BY <1>1, <1>6, <2>3, <3>1 DEF Custody, OneOwner, Owns, Owning, Holding, Salvage
  <2>4. ASSUME NEW p \in Replicas
        PROVE  Stage(p, d) \notin Holding \cup Salvage
    <3>1. CASE p = q
      BY <1>6, <3>1 DEF Holding, Salvage
    <3>2. CASE p # q
      BY <1>3, <2>3, <3>2 DEF Stage, Holding, Salvage
    <3> QED
      BY <3>1, <3>2
  <2>5. Upset(d) = 0 /\ ~Shut(d)
    BY <2>2, <2>4 DEF Upset, Shut, Salvage
  <2>6. Upset(d)' = 0
    BY <1>6, <2>3 DEF Upset, Salvage
  <2>7. /\ raised[d] \in Nat /\ Lost \in Nat /\ rows[d].attempts \in Nat /\ MaxUnhandled \in Nat
        /\ raised'[d] = raised[d]
    BY <1>1, <1>2, QuarantineNumbers
  <2>8. /\ raised[d] <= Lost /\ raised[d] <= rows[d].attempts
        /\ raised[d] >= MaxUnhandled => raised[d] < Lost
    BY <1>1, <2>5, <2>7 DEF Contained
  <2>9. /\ raised'[d] + 0 <= Lost'
        /\ raised'[d] >= MaxUnhandled => raised'[d] + 0 < Lost'
    BY <1>4, <2>7, <2>8
  <2>10. /\ raised'[d] <= rows'[d].attempts
         /\ raised'[d] + 1 <= tasks'[q][d].attempt
    BY <1>3, <2>1, <2>7, <2>8
  <2>11. ASSUME NEW p \in Replicas
         PROVE  /\ Stage(p, d)' \in Holding \cup {"unhandled"} =>
                     raised'[d] + 1 <= tasks'[p][d].attempt /\ rows'[d].status # "absent"
                /\ Stage(p, d)' # "burying"
    <3>1. CASE p = q
      BY <1>6, <2>1, <2>10, <3>1
    <3>2. CASE p # q
      BY <2>3, <3>2 DEF Salvage
    <3> QED
      BY <3>1, <3>2
  <2>12. raised'[d] > MaxUnhandled => raised'[d] >= MaxUnhandled
    BY <2>7
  <2> QED
    BY <2>1, <2>6, <2>9, <2>10, <2>11, <2>12 DEF Contained
<1> QED
  BY <1>3, <1>5, <1>6

LEMMA ContainmentEnqueue ==
  ASSUME Typed, Containment, NEW d \in Deliveries, Enqueue(d)
  PROVE  Containment'
<1> SUFFICES ASSUME NEW e \in Deliveries PROVE Contained(e)'
  BY DEF Containment
<1>1. /\ rows[d].status = "absent" /\ rows'[d] = Enqueued(rows[d], clock)
      /\ \A f \in Deliveries : f # d => rows'[f] = rows[f]
      /\ raised' = raised /\ tasks' = tasks /\ faults' = faults /\ stops' = stops
      /\ clock \in Nat
  BY DEF Enqueue, history, Typed, TypeOK
<1>2. Lost' = Lost /\ Contained(e)
  BY <1>1 DEF Lost, Containment
<1>3. CASE e # d
  BY <1>1, <1>2, <1>3, ContainedAside
<1>4. CASE e = d
  <2>1. /\ raised[d] \in Nat /\ Lost \in Nat /\ MaxUnhandled \in Nat \ {0} /\ rows[d] \in Row
    BY QuarantineNumbers, DispatchAssumption
  <2>2. /\ raised[d] = 0 /\ \A r \in Replicas : Stage(r, d) \notin Holding \cup {"unhandled"}
        /\ \A r \in Replicas : Stage(r, d) = "burying" => raised[d] <= tasks[r][d].attempt
    BY <1>1, <1>2, <1>4 DEF Contained
  <2>3. Upset(d)' = 0 /\ raised'[d] = 0
    BY <1>1, <2>2 DEF Upset, Stage
  <2>4. rows'[d].attempts \in Nat
    BY <1>1, <2>1, EnqueuedRow DEF Row
  <2>5. /\ raised'[d] + 0 <= Lost' /\ raised'[d] <= rows'[d].attempts
        /\ ~(raised'[d] >= MaxUnhandled) /\ ~(raised'[d] > MaxUnhandled)
    BY <1>2, <2>1, <2>3, <2>4
  <2>6. \A r \in Replicas :
          /\ Stage(r, d)' \notin Holding \cup {"unhandled"}
          /\ Stage(r, d)' = "burying" => raised'[d] <= tasks'[r][d].attempt
    BY <1>1, <2>2 DEF Stage
  <2> QED
    BY <1>4, <2>3, <2>5, <2>6 DEF Contained
<1> QED
  BY <1>3, <1>4

LEMMA ContainmentStop ==
  ASSUME Typed, Containment, NEW r \in Replicas, Stop(r)
  PROVE  Containment'
<1> SUFFICES ASSUME NEW d \in Deliveries PROVE Contained(d)'
  BY DEF Containment
<1>1. /\ stops' = stops + 1 /\ faults' = faults /\ rows' = rows /\ raised' = raised
      /\ faults \in Nat /\ stops \in Nat /\ Contained(d)
  BY DEF Stop, history, Containment, Typed, TypeOK
<1>2. \A q \in Replicas : tasks'[q][d] = tasks[q][d] \/ Stage(q, d)' = "none"
  BY DEF Stop, Typed, TypeOK, NoTask, Stage
<1>3. Lost' = Lost + 1
  <2>1. faults + (stops + 1) = (faults + stops) + 1
    BY <1>1
  <2> QED
    BY <1>1, <2>1 DEF Lost
<1> QED
  BY <1>1, <1>2, <1>3, ContainedAside

LEMMA ContainmentStep ==
  Backend = "pg" /\ SafeDeployment /\ Custody /\ Snapshots /\ Containment /\ [Next]_vars
    => Containment'
<1> SUFFICES ASSUME Backend = "pg", SafeDeployment, Custody, Snapshots, Containment, [Next]_vars
             PROVE  Containment'
  OBVIOUS
<1>1. Typed
  BY DEF Custody
<1>2. CASE Advance \/ UNCHANGED vars
  <2>1. UNCHANGED <<rows, tasks, raised, faults, stops>>
    BY <1>2 DEF Advance, vars, history
  <2> QED
    BY <2>1 DEF Containment, Contained, Shut, Upset, Lost, Stage
<1> QED
  BY <1>1, <1>2, ContainmentEnqueue, ContainmentStop, ContainmentTick, ContainmentTask
     DEF Next, ReplicaStep

(* _quarantine on Postgres: a delivery whose send keeps raising is dead-   *)
(* lettered at max_unhandled_attempts.  It raises once more only if a      *)
(* failing store call or a crash lost the append or the burial, whatever   *)
(* crashes, retries and reclaims lie between the exceptions.               *)
THEOREM PoisonIsContained == Backend = "pg" /\ SafeDeployment /\ Spec => []QuarantineEnds
<1>1. Custody /\ Containment => QuarantineEnds
  <2> SUFFICES ASSUME Custody, Containment, NEW d \in Deliveries, raised[d] > MaxUnhandled
               PROVE  faults + stops > raised[d]
    BY DEF QuarantineEnds
  <2>1. raised[d] \in Nat /\ Lost \in Nat /\ Upset(d) \in {0, 1}
    BY QuarantineNumbers DEF Custody
  <2>2. raised[d] + Upset(d) < Lost
    BY DEF Containment, Contained
  <2>3. raised[d] < Lost
    BY <2>1, <2>2
  <2> QED
    BY <2>1, <2>3 DEF Lost
<1>2. CASE Backend = "pg" /\ SafeDeployment
  BY <1>1, <1>2, ContainmentInit, ContainmentStep, CustodyAlways, SnapshotsAlways, PTL DEF Spec
<1> QED
  BY <1>2

-------------------------------------------------------------------------------
(* What a receiver asked for.  A wait in seconds is counted from the clock *)
(* send read, before the host semaphore and the POST, so that it may end   *)
(* by as much early as a task may hold its row; a time that max_delay_s    *)
(* does not cap is kept exactly.                                           *)
HeadersOnResponses ==
  \A answer \in Answers : answer.kind = "response" \/ answer.header.form = "other"

OnlyDates ==
  \A answer \in Answers :
    \/ answer.header.form = "other"
    \/ answer.header.form = "date" /\ answer.header.value <= MaxDelay

Early == IF OnlyDates THEN 0 ELSE HoldBound

(* Until something goes wrong, the wait is known to the task that settles  *)
(* the attempt, and then to the row.                                       *)
Heeded(d) ==
  Lost = 0 =>
    /\ \A r \in Replicas :
         Stage(r, d) = "settling" /\ tasks[r][d].verdict = "failed_retry" =>
           asked[d] <= tasks[r][d].retryAt + Early
    /\ \/ \E r \in Replicas : Stage(r, d) = "settling"
       \/ rows[d].status \in Terminal
       \/ asked[d] <= rows[d].fireAt + Early
    /\ rows[d].status = "absent" => asked[d] = 0

Heeding == \A d \in Deliveries : Heeded(d)

LEMMA HeedingInit == Init => Heeding
<1> SUFFICES ASSUME Init, NEW d \in Deliveries PROVE Heeded(d)
  BY DEF Heeding
<1>1. /\ asked[d] = 0 /\ rows[d].fireAt = 0 /\ Early \in Nat
      /\ \A r \in Replicas : Stage(r, d) = "none"
  BY DispatchAssumption DEF Init, NoRow, NoTask, Stage, Early
<1> QED
  BY <1>1 DEF Heeded

(* The wait a retry is scheduled with, against the one that was asked for. *)
LEMMA WaitIsKept ==
  ASSUME HeadersOnResponses, NEW answer \in Answers, NEW n \in Nat, NEW sent \in Nat,
         NEW now \in Nat, now <= sent + HoldBound,
         NEW delay \in NextDelays(n, Waited(answer, sent))
  PROVE  AskedUntil(answer.header, now) <= (sent + delay) + Early
<1>1. /\ HoldBound \in Nat /\ MaxDelay \in Nat /\ Early \in Nat
      /\ answer.header.form \in {"seconds", "date", "other"} /\ answer.header.value \in Nat
  BY DispatchAssumption, PolicyAssumption DEF Answer, Header, Early
<1>2. delay \in Nat
  BY DelaysAreTimes, WaitsAreTimes, DispatchAssumption
<1> DEFINE v == answer.header.value
<1>3. CASE answer.header.form = "other"
  <2>1. AskedUntil(answer.header, now) = 0
    BY <1>3 DEF AskedUntil
  <2> QED
    BY <1>1, <1>2, <2>1
<1>4. CASE answer.header.form = "seconds"
  <2>1. Waited(answer, sent) = v /\ AskedUntil(answer.header, now) = now + Least(v, MaxDelay)
    BY <1>4 DEF HeadersOnResponses, Waited, ParseRetryAfter, AskedUntil
  <2>2. delay = Least(v, MaxDelay)
    BY <1>1, <2>1 DEF NextDelays, NoRetryAfter
  <2>3. Early = HoldBound
    BY <1>4 DEF Early, OnlyDates
  <2> QED
    BY <1>1, <1>2, <2>1, <2>2, <2>3
<1>5. CASE answer.header.form = "date"
  <2>1. /\ Waited(answer, sent) = Greatest(0, v - sent)
        /\ AskedUntil(answer.header, now) = Least(v, now + MaxDelay)
    BY <1>5 DEF HeadersOnResponses, Waited, ParseRetryAfter, AskedUntil
  <2>2. Greatest(0, v - sent) \in Nat
    BY <1>1 DEF Greatest
  <2>3. delay = Least(Greatest(0, v - sent), MaxDelay)
    BY <2>1, <2>2 DEF NextDelays, NoRetryAfter
  <2>4. CASE OnlyDates
    <3>1. v <= MaxDelay /\ Early = 0
      BY <1>5, <2>4 DEF OnlyDates, Early
    <3>2. Least(v, now + MaxDelay) <= sent + delay
      BY <1>1, <2>3, <3>1 DEF Least, Greatest
    <3> QED
      BY <1>1, <1>2, <2>1, <3>1, <3>2
  <2>5. CASE ~OnlyDates
    <3>1. Early = HoldBound
      BY <2>5 DEF Early
    <3>2. Least(v, now + MaxDelay) <= (sent + delay) + HoldBound
      BY <1>1, <2>3 DEF Least, Greatest
    <3> QED
      BY <2>1, <3>1, <3>2
  <2> QED
    BY <2>4, <2>5
<1> QED
  BY <1>1, <1>3, <1>4, <1>5

LEMMA RetryIsDue ==
  ASSUME NEW row \in Row, NEW n \in Nat, NEW due \in Nat
  PROVE  Settled(row, "failed_retry", n, due).fireAt = due
<1>1. Logged(row, n) \in Row
  BY LoggedRow
<1>2. \/ Settled(row, "failed_retry", n, due) =
           [Logged(row, n) EXCEPT !.status = "failed_retry", !.fireAt = due,
                                  !.attempts = n, !.lease = NoLease]
      \/ Settled(row, "failed_retry", n, due) =
           [Logged(row, n) EXCEPT !.status = "failed_retry", !.fireAt = due,
                                  !.attempts = @ + 1, !.lease = NoLease]
  BY StoreAssumption DEF Settled, PgRetried, MongoRetried, MemoryRetried
<1> QED
  BY <1>1, <1>2 DEF Row

LEMMA ConcludedAsked ==
  ASSUME Typed, HeadersOnResponses, NEW r \in Replicas, NEW d \in Deliveries, Conclude(r, d),
         clock <= tasks[r][d].sentAt + HoldBound
  PROVE  /\ Stage(r, d)' = "settling"
         /\ tasks'[r][d].verdict = "failed_retry" => asked'[d] <= tasks'[r][d].retryAt + Early
         /\ \A e \in Deliveries : e # d => asked'[e] = asked[e]
<1> DEFINE t == tasks[r][d]
           verdict(answer) == OutcomeStatus(Reason(answer), RetryOn(Reason(answer), t.attempt))
           delays(answer) == NextDelays(t.attempt, Waited(answer, t.sentAt))
           retryAts(answer) == IF verdict(answer) = "failed_retry"
                               THEN {t.sentAt + delay : delay \in delays(answer)}
                               ELSE {0}
<1>1. /\ t \in Task /\ t.attempt \in Nat /\ t.sentAt \in Nat /\ clock \in Nat
      /\ asked \in [Deliveries -> Nat]
  BY DEF Typed, TypeOK, Task
<1>2. PICK answer \in Answers :
        /\ \E retryAt \in retryAts(answer) :
             Becomes(r, d, [t EXCEPT !.stage = "settling", !.verdict = verdict(answer),
                                     !.retryAt = retryAt])
        /\ asked' = [asked EXCEPT ![d] = AskedUntil(answer.header, clock)]
  BY DEF Conclude
<1> HIDE DEF verdict, delays, retryAts
<1>3. PICK retryAt \in retryAts(answer) :
        Becomes(r, d, [t EXCEPT !.stage = "settling", !.verdict = verdict(answer),
                                !.retryAt = retryAt])
  BY <1>2
<1>4. tasks'[r][d] = [t EXCEPT !.stage = "settling", !.verdict = verdict(answer),
                               !.retryAt = retryAt]
  BY <1>3, OneTask DEF Typed
<1>5. /\ Stage(r, d)' = "settling" /\ tasks'[r][d].verdict = verdict(answer)
      /\ tasks'[r][d].retryAt = retryAt
  BY <1>1, <1>4 DEF Task, Stage
<1>6. /\ asked'[d] = AskedUntil(answer.header, clock)
      /\ \A e \in Deliveries : e # d => asked'[e] = asked[e]
  BY <1>1, <1>2
<1>7. verdict(answer) = "failed_retry" => AskedUntil(answer.header, clock) <= retryAt + Early
  <2> SUFFICES ASSUME verdict(answer) = "failed_retry"
               PROVE  AskedUntil(answer.header, clock) <= retryAt + Early
    OBVIOUS
  <2>1. PICK delay \in delays(answer) : retryAt = t.sentAt + delay
    BY <1>3 DEF retryAts
  <2>2. delay \in NextDelays(t.attempt, Waited(answer, t.sentAt))
    BY <2>1 DEF delays
  <2>3. AskedUntil(answer.header, clock) <= (t.sentAt + delay) + Early
    BY <1>1, <2>2, WaitIsKept
  <2> QED
    BY <2>1, <2>3
<1> QED
  BY <1>5, <1>6, <1>7

(* What a step of a task that does not fail does to the wait of its row.   *)
LEMMA TaskWaits ==
  ASSUME Typed, NEW r \in Replicas, NEW d \in Deliveries, TaskStep(r, d)
  PROVE  /\ stops' = stops /\ faults' \in {faults, faults + 1}
         /\ \A e \in Deliveries : posts'[e] # posts[e] => e = d /\ Stage(r, d) = "waiting"
         /\ \/ faults' = faults + 1
            \/ Stage(r, d) = "posting" /\ rows' = rows /\ Conclude(r, d)
            \/ /\ asked' = asked
               /\ \/ /\ Stage(r, d) \in {"queued", "waiting"} /\ rows' = rows
                     /\ \/ Stage(r, d)' \in {"waiting", "posting"}
                        \/ /\ Stage(r, d)' = "settling"
                           /\ tasks'[r][d].verdict = "dead_lettered"
                  \/ Stage(r, d) = "settling" /\ SettledBy(r, d) /\ Stage(r, d)' = "notifying"
                  \/ /\ Stage(r, d) = "unhandled" /\ AppendedBy(r, d)
                     /\ Stage(r, d)' \in {"none", "burying"}
                  \/ Stage(r, d) = "burying" /\ BuriedBy(r, d) /\ Stage(r, d)' = "none"
                  \/ Stage(r, d) = "notifying" /\ rows' = rows /\ Stage(r, d)' = "none"
<1>1. /\ tasks[r][d] \in Task /\ posts \in [Deliveries -> Nat]
  BY DEF Typed, TypeOK
<1>2. ASSUME NEW t, Becomes(r, d, t) PROVE tasks'[r][d] = t
  BY <1>2, OneTask DEF Typed
<1>3. ASSUME NEW stage, To(r, d, stage) PROVE Stage(r, d)' = stage
  <2>1. tasks'[r][d] = [tasks[r][d] EXCEPT !.stage = stage]
    BY <1>2, <1>3 DEF To
  <2> QED
    BY <1>1, <2>1 DEF Task, Stage
<1>4. ASSUME Ends(r, d) PROVE Stage(r, d)' = "none"
  BY <1>2, <1>4 DEF Ends, NoTask, Stage
<1> USE DEF history
<1>5. CASE Prepare(r, d) \/ Reject(r, d)
  <2>1. \/ tasks'[r][d] = [tasks[r][d] EXCEPT !.stage = "waiting", !.sentAt = clock]
        \/ tasks'[r][d] = [tasks[r][d] EXCEPT !.stage = "settling", !.sentAt = clock,
                                              !.verdict = "dead_lettered"]
    BY <1>2, <1>5 DEF Prepare, Reject
  <2>2. \/ Stage(r, d)' = "waiting"
        \/ Stage(r, d)' = "settling" /\ tasks'[r][d].verdict = "dead_lettered"
    BY <1>1, <2>1 DEF Task, Stage
  <2> QED
    BY <1>5, <2>2 DEF Prepare, Reject, EnterGate
<1>6. CASE Post(r, d)
  BY <1>1, <1>3, <1>6 DEF Post
<1>7. CASE Conclude(r, d)
  BY <1>7 DEF Conclude
<1>8. CASE Raise(r, d) \/ SettleFails(r, d) \/ QuarantineAppendFails(r, d) \/ BuryFails(r, d)
  BY <1>8 DEF Raise, SettleFails, QuarantineAppendFails, BuryFails, Fault
<1>9. CASE Settle(r, d)
  BY <1>3, <1>9 DEF Settle
<1>10. CASE QuarantineAppend(r, d)
  BY <1>3, <1>4, <1>10 DEF QuarantineAppend
<1>11. CASE Notify(r, d) \/ Bury(r, d)
  BY <1>4, <1>11 DEF Notify, Bury
<1> QED
  BY <1>5, <1>6, <1>7, <1>8, <1>9, <1>10, <1>11 DEF TaskStep

LEMMA NothingLost ==
  ASSUME Typed, faults' \in {faults, faults + 1}, stops' \in {stops, stops + 1}, Lost' = 0
  PROVE  Lost = 0 /\ faults' = faults /\ stops' = stops
<1>1. faults \in Nat /\ stops \in Nat
  BY DEF Typed, TypeOK
<1>2. faults' + stops' = 0
  BY DEF Lost
<1>3. (faults' = faults \/ faults' = faults + 1) /\ (stops' = stops \/ stops' = stops + 1)
  OBVIOUS
<1>4. faults = 0 /\ stops = 0 /\ faults' = faults /\ stops' = stops
  <2>1. CASE faults' = faults /\ stops' = stops
    BY <1>1, <1>2, <2>1
  <2>2. CASE faults' = faults + 1 /\ stops' = stops
    BY <1>1, <1>2, <2>2
  <2>3. CASE faults' = faults /\ stops' = stops + 1
    BY <1>1, <1>2, <2>3
  <2>4. CASE faults' = faults + 1 /\ stops' = stops + 1
    BY <1>1, <1>2, <2>4
  <2> QED
    BY <1>3, <2>1, <2>2, <2>3, <2>4
<1> QED
  BY <1>4 DEF Lost

(* A delivery whose wait nobody changes.                                   *)
LEMMA HeededAside ==
  ASSUME NEW d \in Deliveries, Heeded(d), Lost' = 0 => Lost = 0,
         asked'[d] = asked[d], rows'[d].fireAt = rows[d].fireAt,
         rows'[d].status = "absent" => rows[d].status = "absent",
         rows[d].status \in Terminal => rows'[d].status \in Terminal,
         \A r \in Replicas : tasks'[r][d] = tasks[r][d] \/ {Stage(r, d), Stage(r, d)'} \cap {"settling"} = {}
  PROVE  Heeded(d)'
<1> SUFFICES ASSUME Lost' = 0
             PROVE  /\ \A r \in Replicas :
                         Stage(r, d)' = "settling" /\ tasks'[r][d].verdict = "failed_retry" =>
                           asked'[d] <= tasks'[r][d].retryAt + Early
                    /\ \/ \E r \in Replicas : Stage(r, d)' = "settling"
                       \/ rows'[d].status \in Terminal
                       \/ asked'[d] <= rows'[d].fireAt + Early
                    /\ rows'[d].status = "absent" => asked'[d] = 0
  BY DEF Heeded, Early, OnlyDates
<1>1. \A r \in Replicas :
        Stage(r, d)' = "settling" <=> Stage(r, d) = "settling" /\ tasks'[r][d] = tasks[r][d]
  BY DEF Stage
<1>2. \A r \in Replicas : Stage(r, d) = "settling" => Stage(r, d)' = "settling"
  BY DEF Stage
<1> QED
  BY <1>1, <1>2 DEF Heeded

LEMMA HeededTask ==
  ASSUME HeadersOnResponses, Custody, SafeDeployment, Snapshots, NEW r \in Replicas,
         NEW d \in Deliveries, Heeded(d), TaskStep(r, d)
  PROVE  Heeded(d)'
<1> SUFFICES ASSUME Lost' = 0
             PROVE  /\ \A q \in Replicas :
                         Stage(q, d)' = "settling" /\ tasks'[q][d].verdict = "failed_retry" =>
                           asked'[d] <= tasks'[q][d].retryAt + Early
                    /\ \/ \E q \in Replicas : Stage(q, d)' = "settling"
                       \/ rows'[d].status \in Terminal
                       \/ asked'[d] <= rows'[d].fireAt + Early
                    /\ rows'[d].status = "absent" => asked'[d] = 0
  BY DEF Heeded, Early, OnlyDates
<1>1. /\ Typed /\ rows[d] \in Row /\ rows \in [Deliveries -> Row] /\ tasks[r][d] \in Task
      /\ tasks[r][d].attempt \in Nat /\ tasks[r][d].retryAt \in Nat
  BY DEF Custody, Typed, TypeOK, Task
<1>2. /\ \A q \in Replicas : q # r => tasks'[q][d] = tasks[q][d] /\ Stage(q, d)' = Stage(q, d)
      /\ Lost = 0 /\ faults' = faults
  <2>1. stops' = stops /\ faults' \in {faults, faults + 1}
    BY <1>1, TaskWaits
  <2> QED
    BY <1>1, <2>1, TaskFrame, NothingLost DEF Stage
<1>3. /\ \A q \in Replicas :
           Stage(q, d) = "settling" /\ tasks[q][d].verdict = "failed_retry" =>
             asked[d] <= tasks[q][d].retryAt + Early
      /\ \/ \E q \in Replicas : Stage(q, d) = "settling"
         \/ rows[d].status \in Terminal
         \/ asked[d] <= rows[d].fireAt + Early
      /\ rows[d].status = "absent" => asked[d] = 0
  BY <1>2 DEF Heeded
<1>4. ASSUME Stage(r, d) \in Holding
      PROVE  /\ rows[d].status = "in_flight" /\ clock <= tasks[r][d].since + HoldBound
             /\ \A q \in Replicas : q # r => Stage(q, d)' \notin Holding
  BY <1>2, <1>4, AloneAtWork DEF Custody, LeasedToOwner, Owns, Owning
<1>5. \A n, due \in Nat, status \in {"sent", "failed_retry", "dead_lettered"} :
        Settled(rows[d], status, n, due).status = status
  <2>1. rows[d] \in Row
    BY <1>1
  <2> QED
    BY <2>1, SettledStatus
<1>6. CASE Stage(r, d) = "posting" /\ rows' = rows /\ Conclude(r, d)
  <2>1. /\ tasks[r][d].since \in Nat /\ tasks[r][d].sentAt \in Nat /\ clock \in Nat
        /\ HoldBound \in Nat
    BY DispatchAssumption DEF Custody, Typed, TypeOK, Task
  <2>2. tasks[r][d].since <= tasks[r][d].sentAt
    BY <1>6 DEF Snapshots, SnapshotOf, Holding
  <2>3. clock <= tasks[r][d].sentAt + HoldBound
    BY <1>4, <1>6, <2>1, <2>2 DEF Holding
  <2>4. /\ Stage(r, d)' = "settling"
        /\ tasks'[r][d].verdict = "failed_retry" => asked'[d] <= tasks'[r][d].retryAt + Early
    BY <1>1, <1>6, <2>3, ConcludedAsked
  <2> QED
    BY <1>4, <1>6, <2>4 DEF Holding
<1>7. CASE /\ asked' = asked /\ Stage(r, d) \in {"queued", "waiting"} /\ rows' = rows
           /\ \/ Stage(r, d)' \in {"waiting", "posting"}
              \/ Stage(r, d)' = "settling" /\ tasks'[r][d].verdict = "dead_lettered"
  <2>1. \A q \in Replicas : q # r => Stage(q, d)' # "settling"
    BY <1>4, <1>7 DEF Holding
  <2> QED
    BY <1>2, <1>3, <1>7, <2>1
<1>8. CASE asked' = asked /\ Stage(r, d) = "settling" /\ SettledBy(r, d) /\ Stage(r, d)' = "notifying"
  <2>1. \A q \in Replicas : Stage(q, d)' # "settling"
    BY <1>4, <1>8 DEF Holding
  <2>2. rows'[d] = Settled(rows[d], tasks[r][d].verdict, tasks[r][d].attempt, tasks[r][d].retryAt)
    BY <1>1, <1>8 DEF SettledBy
  <2>3. tasks[r][d].verdict \in {"sent", "failed_retry", "dead_lettered"}
    BY <1>1, <1>8 DEF Typed, VerdictKnown, Task, Verdicts
  <2>4. rows'[d].status = tasks[r][d].verdict
    BY <1>1, <1>5, <2>2, <2>3
  <2>5. tasks[r][d].verdict = "failed_retry" => rows'[d].fireAt = tasks[r][d].retryAt
    BY <1>1, <2>2, RetryIsDue
  <2> QED
    BY <1>3, <1>8, <2>1, <2>3, <2>4, <2>5 DEF Terminal
<1>9. CASE /\ asked' = asked /\ Stage(r, d) = "unhandled" /\ AppendedBy(r, d)
           /\ Stage(r, d)' \in {"none", "burying"}
  <2>1. rows'[d] = Appended(rows[d], tasks[r][d].attempt)
    BY <1>1, <1>9 DEF AppendedBy
  <2>2. rows'[d].status = rows[d].status /\ rows'[d].fireAt = rows[d].fireAt
    BY <1>1, <2>1, AppendedRow
  <2> QED
    BY <1>2, <1>3, <1>9, <2>2
<1>10. CASE asked' = asked /\ Stage(r, d) = "burying" /\ BuriedBy(r, d) /\ Stage(r, d)' = "none"
  <2>1. rows'[d] = Settled(rows[d], "dead_lettered", tasks[r][d].attempt, 0)
    BY <1>1, <1>10 DEF BuriedBy
  <2>2. rows'[d].status = "dead_lettered"
    BY <1>1, <1>5, <2>1
  <2> QED
    BY <1>2, <1>3, <1>10, <2>2 DEF Terminal
<1>11. CASE asked' = asked /\ Stage(r, d) = "notifying" /\ rows' = rows /\ Stage(r, d)' = "none"
  BY <1>2, <1>3, <1>11
<1>12. faults' # faults + 1
  BY <1>2 DEF Custody, Typed, TypeOK
<1> QED
  BY <1>1, <1>6, <1>7, <1>8, <1>9, <1>10, <1>11, <1>12, TaskWaits

LEMMA OthersUnasked ==
  ASSUME Typed, NEW r \in Replicas, NEW d \in Deliveries, TaskStep(r, d),
         NEW e \in Deliveries, e # d
  PROVE  asked'[e] = asked[e]
<1>1. asked \in [Deliveries -> Nat]
  BY DEF Typed, TypeOK
<1>2. CASE Conclude(r, d)
  BY <1>1, <1>2 DEF Conclude
<1>3. CASE ~Conclude(r, d)
  BY <1>3 DEF TaskStep, Prepare, Reject, Raise, Post, Settle, SettleFails, Notify, QuarantineAppend,
              QuarantineAppendFails, Bury, BuryFails, history
<1> QED
  BY <1>2, <1>3

LEMMA HeedingStep ==
  HeadersOnResponses /\ SafeDeployment /\ Custody /\ Snapshots /\ Heeding /\ [Next]_vars => Heeding'
<1> SUFFICES ASSUME HeadersOnResponses, SafeDeployment, Custody, Snapshots, Heeding, [Next]_vars,
                    NEW e \in Deliveries
             PROVE  Heeded(e)'
  BY DEF Heeding
<1>1. Typed /\ Heeded(e)
  BY DEF Custody, Heeding
<1>2. CASE Advance \/ UNCHANGED vars
  BY <1>1, <1>2, HeededAside DEF Advance, vars, history, Lost
<1>3. ASSUME NEW d \in Deliveries, Enqueue(d) PROVE Heeded(e)'
  <2>1. /\ rows[d].status = "absent" /\ rows'[d] = [NoRow EXCEPT !.status = "pending", !.fireAt = clock]
        /\ \A f \in Deliveries : f # d => rows'[f] = rows[f]
        /\ asked' = asked /\ tasks' = tasks /\ faults' = faults /\ stops' = stops
        /\ clock \in Nat /\ asked[d] \in Nat /\ Early \in Nat
    BY <1>1, <1>3, EnqueuedRow, DispatchAssumption DEF Enqueue, Typed, TypeOK, history, Early
  <2>2. Lost' = Lost
    BY <2>1 DEF Lost
  <2>3. CASE e # d
    BY <1>1, <2>1, <2>2, <2>3, HeededAside
  <2>4. CASE e = d
    <3>1. rows'[d].status = "pending" /\ rows'[d].fireAt = clock
      BY <2>1 DEF NoRow
    <3>2. \A r \in Replicas : Stage(r, d) # "settling"
      BY <2>1 DEF Custody, LeasedToOwner, Owns, Owning, Holding
    <3>3. Lost' = 0 => asked'[d] = 0
      BY <1>1, <2>1, <2>2, <2>4 DEF Heeded
    <3>4. 0 <= clock + Early
      BY <2>1
    <3>5. /\ \A r \in Replicas : Stage(r, d)' # "settling"
          /\ Lost' = 0 => asked'[d] <= rows'[d].fireAt + Early
      BY <2>1, <3>1, <3>2, <3>3, <3>4 DEF Stage
    <3> QED
      BY <2>4, <3>1, <3>5 DEF Heeded, Early, OnlyDates
  <2> QED
    BY <2>3, <2>4
<1>4. ASSUME NEW r \in Replicas, Stop(r) PROVE Heeded(e)'
  <2>1. faults' = faults /\ stops' = stops + 1 /\ stops \in Nat
    BY <1>1, <1>4 DEF Stop, Typed, TypeOK
  <2>2. Lost' # 0
    BY <1>1, <2>1, NothingLost
  <2> QED
    BY <2>2 DEF Heeded
<1>5. ASSUME NEW r \in Replicas, TickStep(r) PROVE Heeded(e)'
  <2>1. asked' = asked
    BY <1>5 DEF TickStep, BeginTick, ReclaimStale, ReclaimFails, ThenClaim, ClaimBatch, ClaimFails,
                EndTick, Start, history
  <2>2. /\ rows'[e].fireAt = rows[e].fireAt
        /\ rows'[e].status = "absent" => rows[e].status = "absent"
        /\ rows[e].status \in Terminal => rows'[e].status \in Terminal
        /\ stops' = stops /\ faults' \in {faults, faults + 1}
        /\ \A q \in Replicas :
             \/ tasks'[q][e] = tasks[q][e]
             \/ Stage(q, e) = "none" /\ Stage(q, e)' = "queued"
    BY <1>5, TickSpends
  <2>3. Lost' = 0 => Lost = 0
    BY <1>1, <2>2, NothingLost
  <2> QED
    BY <1>1, <2>1, <2>2, <2>3, HeededAside
<1>6. ASSUME NEW r \in Replicas, NEW d \in Deliveries, TaskStep(r, d) PROVE Heeded(e)'
  <2>1. CASE e = d
    BY <1>1, <1>6, <2>1, HeededTask
  <2>2. CASE e # d
    <3>1. /\ rows'[e] = rows[e] /\ \A q \in Replicas : tasks'[q][e] = tasks[q][e]
      BY <1>1, <1>6, <2>2, TaskFrame
    <3>2. stops' = stops /\ faults' \in {faults, faults + 1}
      BY <1>1, <1>6, TaskWaits
    <3>3. Lost' = 0 => Lost = 0
      BY <1>1, <3>2, NothingLost
    <3>4. asked'[e] = asked[e]
      BY <1>1, <1>6, <2>2, OthersUnasked
    <3> QED
      BY <1>1, <3>1, <3>3, <3>4, HeededAside
  <2> QED
    BY <2>1, <2>2
<1> QED
  BY <1>2, <1>3, <1>4, <1>5, <1>6 DEF Next, ReplicaStep

(* What a POST finds: the wait is over, but for what the hold may eat up.  *)
LEMMA PostIsDue ==
  ASSUME SafeDeployment, Custody, Snapshots, Heeding, [Next]_vars,
         NEW d \in Deliveries, posts'[d] # posts[d], faults + stops = 0
  PROVE  clock + Early >= asked[d]
<1>1. Typed
  BY DEF Custody
<1>2. PICK r \in Replicas : Stage(r, d) = "waiting"
  <2>1. ASSUME NEW r \in Replicas, TickStep(r) PROVE posts' = posts
    BY <2>1, TickSpends
  <2>2. posts' = posts \/ \E r \in Replicas, e \in Deliveries : TaskStep(r, e)
    BY <2>1 DEF Next, ReplicaStep, Enqueue, Stop, Advance, vars, history
  <2> QED
    BY <1>1, <2>2, TaskWaits
<1>3. rows[d].status = "in_flight" /\ \A q \in Replicas : Stage(q, d) # "settling"
  <2>1. \A q \in Replicas : q # r => Stage(q, d) \notin Holding
    BY <1>2, AloneAtWork DEF Holding
  <2> QED
    BY <1>2, <2>1 DEF Custody, LeasedToOwner, Owns, Owning, Holding
<1>4. asked[d] <= rows[d].fireAt + Early
  BY <1>3 DEF Heeding, Heeded, Lost, Terminal
<1>5. rows[d].fireAt <= tasks[r][d].since /\ tasks[r][d].since <= clock
  BY <1>2 DEF Snapshots, SnapshotOf, Holding
<1>6. /\ rows[d].fireAt \in Nat /\ tasks[r][d].since \in Nat /\ clock \in Nat
      /\ asked[d] \in Nat /\ Early \in Nat
  BY <1>1, DispatchAssumption DEF Typed, TypeOK, Row, Task, Early
<1> QED
  BY <1>4, <1>5, <1>6

(* "429 with Retry-After waits exactly that long" (test_dispatcher_seams): *)
(* no POST of a delivery begins before the time its receiver asked for, as *)
(* long as nothing failed and the receiver names times that max_delay_s    *)
(* does not cap.                                                           *)
THEOREM DatesAreHonoured ==
  HeadersOnResponses /\ OnlyDates /\ SafeDeployment /\ Spec => RetryAfterHonoured
<1> SUFFICES ASSUME HeadersOnResponses, OnlyDates, SafeDeployment PROVE Spec => RetryAfterHonoured
  OBVIOUS
<1> DEFINE Honoured == \A d \in Deliveries :
             posts'[d] # posts[d] /\ faults + stops = 0 => clock >= asked[d]
<1>1. Custody /\ Snapshots /\ Heeding /\ [Next]_vars => [Honoured]_vars
  <2> SUFFICES ASSUME Custody, Snapshots, Heeding, [Next]_vars, NEW d \in Deliveries,
                      posts'[d] # posts[d], faults + stops = 0
               PROVE  clock >= asked[d]
    OBVIOUS
  <2>1. clock + Early >= asked[d]
    BY PostIsDue
  <2> QED
    BY <2>1 DEF Early, Custody, Typed, TypeOK
<1> QED
  BY <1>1, HeedingInit, HeedingStep, CustodyAlways, SnapshotsAlways, PTL DEF Spec, RetryAfterHonoured

(* For every header: a POST is early by no more than the time a task held  *)
(* its row, because send counts seconds from the clock it read before the  *)
(* POST.                                                                   *)
NearlyHonoured ==
  [][\A d \in Deliveries :
       posts'[d] # posts[d] /\ faults + stops = 0 => clock + HoldBound >= asked[d]]_vars

(* How early a retry may be, whatever Retry-After said.                    *)
THEOREM WaitsAreNearlyHonoured == HeadersOnResponses /\ SafeDeployment /\ Spec => NearlyHonoured
<1> SUFFICES ASSUME HeadersOnResponses, SafeDeployment PROVE Spec => NearlyHonoured
  OBVIOUS
<1> DEFINE Honoured == \A d \in Deliveries :
             posts'[d] # posts[d] /\ faults + stops = 0 => clock + HoldBound >= asked[d]
<1>1. Custody /\ Snapshots /\ Heeding /\ [Next]_vars => [Honoured]_vars
  <2> SUFFICES ASSUME Custody, Snapshots, Heeding, [Next]_vars, NEW d \in Deliveries,
                      posts'[d] # posts[d], faults + stops = 0
               PROVE  clock + HoldBound >= asked[d]
    OBVIOUS
  <2>1. clock + Early >= asked[d] /\ Early \in 0..HoldBound
    BY PostIsDue, DispatchAssumption DEF Early
  <2>2. clock \in Nat /\ asked[d] \in Nat /\ HoldBound \in Nat
    BY DispatchAssumption DEF Custody, Typed, TypeOK
  <2> QED
    BY <2>1, <2>2
<1> QED
  BY <1>1, HeedingInit, HeedingStep, CustodyAlways, SnapshotsAlways, PTL DEF Spec, NearlyHonoured
===============================================================================
