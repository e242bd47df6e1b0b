----------------------------- MODULE RedisProofs ------------------------------
(***************************************************************************)
(* Theorems about RedisStore, for every set of replicas and deliveries and *)
(* every value of the other constants.                                     *)
(***************************************************************************)
EXTENDS RedisStore, PolicyProofs, SequenceTheorems, TLAPS

-------------------------------------------------------------------------------
(* Type correctness.  A task in a settling call knows its verdict, and the *)
(* command it runs next is one of that verdict's pipeline.                 *)
Settles == {"push", "unlease"} \cup Midway

Shaped(t) ==
  /\ t.stage \in Settles => t.verdict # "none"
  /\ t.stage = "requeue" => t.verdict = "failed_retry"
  /\ t.stage \in {"unready", "expire"} => t.verdict # "failed_retry"
  /\ t.verdict = "failed_retry" => t.retryAt >= 1
  /\ t.stage = "posting" => t.sentAt >= 1
  /\ t.salvage => t.verdict = "dead_lettered"
  /\ t.stage \in Loading \cup {"queued", "posting"} => ~t.salvage

TaskShapes == \A r \in Replicas, d \in Deliveries : Shaped(tasks[r][d])

Typed == TypeOK /\ TaskShapes

LEMMA NoTaskFits == NoTask \in Task /\ Shaped(NoTask)
BY DEF NoTask, Task, Stages, Verdicts, Shaped, Settles, Midway, Loading

LEMMA OneTask ==
  ASSUME TypeOK, NEW r \in Replicas, NEW d \in Deliveries, NEW t, Becomes(r, d, t)
  PROVE  /\ t \in Task => tasks' \in [Replicas -> [Deliveries -> Task]]
         /\ tasks'[r][d] = t
         /\ \A q \in Replicas, e \in Deliveries :
              q # r \/ e # d => tasks'[q][e] = tasks[q][e]
BY DEF TypeOK, Becomes

LEMMA FitTask ==
  ASSUME Typed, NEW r \in Replicas, NEW d \in Deliveries, NEW t \in Task, Shaped(t),
         Becomes(r, d, t)
  PROVE  tasks' \in [Replicas -> [Deliveries -> Task]] /\ TaskShapes'
<1>1. /\ tasks' \in [Replicas -> [Deliveries -> Task]]
      /\ tasks'[r][d] = t
      /\ \A q \in Replicas, e \in Deliveries :
           q # r \/ e # d => tasks'[q][e] = tasks[q][e]
  BY OneTask DEF Typed
<1>2. TaskShapes'
  <2> SUFFICES ASSUME NEW q \in Replicas, NEW e \in Deliveries
               PROVE  Shaped(tasks'[q][e])
    BY DEF TaskShapes, Shaped
  <2>1. CASE q = r /\ e = d
    BY <1>1, <2>1
  <2>2. CASE q # r \/ e # d
    BY <1>1, <2>2 DEF Typed, TaskShapes
  <2> QED
    BY <2>1, <2>2
<1> QED
  BY <1>1, <1>2

(* A task that only changes its stage.                                     *)
LEMMA FitStage ==
  ASSUME Typed, NEW r \in Replicas, NEW d \in Deliveries, NEW stage \in Stages, To(r, d, stage),
         Shaped([tasks[r][d] EXCEPT !.stage = stage])
  PROVE  tasks' \in [Replicas -> [Deliveries -> Task]] /\ TaskShapes'
<1>1. tasks[r][d] \in Task
  BY DEF Typed, TypeOK
<1>2. [tasks[r][d] EXCEPT !.stage = stage] \in Task
  BY <1>1 DEF Task
<1> QED
  BY <1>2, FitTask DEF To

LEMMA PushedIsSeq ==
  ASSUME NEW list \in Seq(Nat), NEW n \in Nat
  PROVE  /\ Pushed(list, n) \in Seq(Nat)
         /\ Pushed(list, n) # <<>>
         /\ Pushed(list, n)[1] = n
<1> DEFINE whole == <<n>> \o list
           m     == Least(HistoryLimit, Len(list) + 1)
<1>1. /\ whole \in Seq(Nat) /\ Len(whole) = Len(list) + 1 /\ whole[1] = n
      /\ Len(list) \in Nat
  OBVIOUS
<1>2. m \in 1..Len(whole)
  BY <1>1, RedisAssumption DEF Least
<1> HIDE DEF whole, m
<1>3. m \in Int /\ \A i \in 1..m : whole[i] \in Nat
  BY <1>1, <1>2
<1>4. /\ SubSeq(whole, 1, m) \in Seq(Nat)
      /\ Len(SubSeq(whole, 1, m)) = m
      /\ SubSeq(whole, 1, m)[1] = whole[1]
  <2>1. /\ SubSeq(whole, 1, m) \in Seq(Nat)
        /\ Len(SubSeq(whole, 1, m)) = IF 1 <= m THEN m - 1 + 1 ELSE 0
        /\ \A i \in 1 .. m - 1 + 1 : SubSeq(whole, 1, m)[i] = whole[1 + i - 1]
    BY <1>3, SubSeqProperties
  <2>2. m >= 1 /\ 1 \in 1..(m - 1 + 1)
    BY <1>1, <1>2
  <2> QED
    BY <1>3, <2>1, <2>2
<1> QED
  BY <1>1, <1>2, <1>4 DEF Pushed, whole, m

LEMMA TypedInit == Init => Typed
<1> SUFFICES ASSUME Init PROVE Typed
  OBVIOUS
<1>1. NoHash \in Hash
  BY DEF NoHash, Hash, Status, Never
<1>2. <<>> \in Seq(Nat)
  OBVIOUS
<1> QED
  BY <1>1, <1>2, NoTaskFits DEF Init, Typed, TypeOK, TaskShapes, NotIn

LEMMA TypedProducer ==
  ASSUME Typed, NEW d \in Deliveries, ProducerStep(d) \/ Expire(d)
  PROVE  Typed'
<1>1. NoHash \in Hash /\ [NoHash EXCEPT !.status = "pending", !.fireAt = clock] \in Hash
  BY DEF NoHash, Hash, Status, Never, Typed, TypeOK
<1>2. hash[d].fireAt \in Nat
  BY DEF Typed, TypeOK, Hash
<1>3. CASE EnqueueHash(d)
  BY <1>1, <1>3 DEF EnqueueHash, Typed, TypeOK, TaskShapes, history
<1>4. CASE EnqueueReady(d)
  BY <1>2, <1>4 DEF EnqueueReady, Typed, TypeOK, TaskShapes, history
<1>5. CASE EnqueueFails(d)
  BY <1>5 DEF EnqueueFails, Fault, Typed, TypeOK, TaskShapes, history, redis
<1>6. CASE Expire(d)
  <2>1. <<>> \in Seq(Nat)
    OBVIOUS
  <2> QED
    BY <1>1, <1>6, <2>1 DEF Expire, Typed, TypeOK, TaskShapes, history
<1> QED
  BY <1>3, <1>4, <1>5, <1>6 DEF ProducerStep

(* The claim script and its effects on types.                              *)
LEMMA TypedTaken ==
  ASSUME Typed, NEW now \in Nat, NEW batch, Taken(batch, now), Overtakes(batch)
  PROVE  /\ ready' \in [Deliveries -> Nat] /\ inflight' \in [Deliveries -> Nat]
         /\ overtaken' \in [Deliveries -> Nat]
<1>1. now + LeaseTtl \in Nat /\ NotIn \in Nat
  BY RedisAssumption DEF NotIn
<1>2. ready' \in [Deliveries -> Nat] /\ inflight' \in [Deliveries -> Nat]
  BY <1>1 DEF Taken, Typed, TypeOK
<1>3. overtaken' \in [Deliveries -> Nat]
  BY DEF Overtakes, Typed, TypeOK
<1> QED
  BY <1>2, <1>3

LEMMA TypedTick ==
  ASSUME Typed, NEW r \in Replicas, TickStep(r)
  PROVE  Typed'
<1> USE DEF Typed
<1>1. nowRead[r] \in Nat /\ clock \in Nat
  BY DEF TypeOK
<1>2. CASE BeginTick(r) \/ EndTick(r) \/ Start(r)
  <2>1. /\ pc' \in [Replicas -> {"idle", "reclaim", "claim", "load", "gather", "down"}]
        /\ nowRead' \in [Replicas -> Nat]
    BY <1>2 DEF BeginTick, EndTick, Start, TypeOK
  <2>2. UNCHANGED <<clock, ready, inflight, hash, atts, producer, tasks, faults, stops,
                    torn, overtaken, posts>>
    BY <1>2 DEF BeginTick, EndTick, Start, redis, history
  <2> QED
    BY <2>1, <2>2 DEF TypeOK, TaskShapes
<1>3. CASE ReclaimStale(r) \/ ReclaimFails(r)
  <2>1. /\ pc' \in [Replicas -> {"idle", "reclaim", "claim", "load", "gather", "down"}]
        /\ nowRead' \in [Replicas -> Nat]
    BY <1>3 DEF ReclaimStale, ReclaimFails, ThenClaim, TypeOK
  <2>2. ready' \in [Deliveries -> Nat] /\ inflight' \in [Deliveries -> Nat]
    <3>1. CASE ReclaimStale(r)
      <4>1. ready' \in [Deliveries -> Nat]
        BY <1>1, <3>1 DEF ReclaimStale, TypeOK
      <4>2. inflight' \in [Deliveries -> Nat]
        BY <3>1 DEF ReclaimStale, NotIn, TypeOK
      <4> QED
        BY <4>1, <4>2
    <3>2. CASE ReclaimFails(r)
      BY <3>2 DEF ReclaimFails, TypeOK
    <3> QED
      BY <1>3, <3>1, <3>2
  <2>3. faults' \in Nat
    BY <1>3 DEF ReclaimStale, ReclaimFails, Fault, TypeOK
  <2>4. UNCHANGED <<clock, hash, atts, producer, tasks, stops, torn, overtaken, posts>>
    BY <1>3 DEF ReclaimStale, ReclaimFails, ThenClaim, history
  <2> QED
    BY <2>1, <2>2, <2>3, <2>4 DEF TypeOK, TaskShapes
<1>4. CASE ClaimIds(r)
  <2>1. PICK batch \in Batches(nowRead[r]) :
          /\ Taken(batch, nowRead[r])
          /\ Overtakes(batch)
          /\ tasks' = [tasks EXCEPT ![r] = [d \in Deliveries |->
               IF d \in batch THEN [NoTask EXCEPT !.stage = "leased", !.since = nowRead[r]]
                              ELSE @[d]]]
          /\ pc' = [pc EXCEPT ![r] = IF batch = {} THEN "idle" ELSE "load"]
    BY <1>4 DEF ClaimIds
  <2> DEFINE t == [NoTask EXCEPT !.stage = "leased", !.since = nowRead[r]]
  <2>2. t \in Task /\ Shaped(t)
    BY <1>1, NoTaskFits DEF NoTask, Task, Stages, Loading, Shaped, Settles, Sending, Midway
  <2> HIDE DEF t
  <2>3. \A q \in Replicas, d \in Deliveries : tasks'[q][d] \in {tasks[q][d], t}
    BY <2>1 DEF TypeOK, t
  <2>4. tasks' \in [Replicas -> [Deliveries -> Task]]
    BY <2>1, <2>2 DEF TypeOK, t
  <2>5. TaskShapes'
    BY <2>2, <2>3 DEF TaskShapes, Shaped
  <2>6. /\ pc' \in [Replicas -> {"idle", "reclaim", "claim", "load", "gather", "down"}]
        /\ nowRead' \in [Replicas -> Nat]
    BY <1>4, <2>1 DEF ClaimIds, TypeOK
  <2>7. UNCHANGED <<clock, hash, atts, producer, faults, stops, torn, posts>>
    BY <1>4 DEF ClaimIds
  <2>8. /\ ready' \in [Deliveries -> Nat] /\ inflight' \in [Deliveries -> Nat]
        /\ overtaken' \in [Deliveries -> Nat]
    BY <1>1, <2>1, TypedTaken
  <2> QED
    BY <2>4, <2>5, <2>6, <2>7, <2>8 DEF TypeOK
<1>5. CASE ClaimFails(r)
  <2>1. /\ tasks' \in [Replicas -> [Deliveries -> Task]]
        /\ \A q \in Replicas, d \in Deliveries : tasks'[q][d] \in {tasks[q][d], NoTask}
    BY <1>5, NoTaskFits DEF ClaimFails, TypeOK
  <2>2. TaskShapes'
    BY <2>1, NoTaskFits DEF TaskShapes
  <2>3. /\ ready' \in [Deliveries -> Nat] /\ inflight' \in [Deliveries -> Nat]
        /\ overtaken' \in [Deliveries -> Nat]
    <3>1. CASE UNCHANGED <<ready, inflight, overtaken>>
      BY <3>1 DEF TypeOK
    <3>2. CASE \E batch \in Batches(nowRead[r]) : Taken(batch, nowRead[r]) /\ Overtakes(batch)
      BY <1>1, <3>2, TypedTaken
    <3> QED
      BY <1>5, <3>1, <3>2 DEF ClaimFails
  <2>4. /\ pc' \in [Replicas -> {"idle", "reclaim", "claim", "load", "gather", "down"}]
        /\ nowRead' \in [Replicas -> Nat] /\ faults' \in Nat
    BY <1>5 DEF ClaimFails, Fault, TypeOK
  <2>5. UNCHANGED <<clock, hash, atts, producer, stops, torn, posts>>
    BY <1>5 DEF ClaimFails
  <2> QED
    BY <2>1, <2>2, <2>3, <2>4, <2>5 DEF TypeOK
<1>6. CASE StartTasks(r)
  <2> DEFINE moved(d) == IF Stage(r, d) = "claimed" THEN [tasks[r][d] EXCEPT !.stage = "queued"]
                                                     ELSE tasks[r][d]
  <2>1. ASSUME NEW d \in Deliveries
        PROVE  moved(d) \in Task /\ Shaped(moved(d))
    <3>1. tasks[r][d] \in Task /\ Shaped(tasks[r][d])
      BY DEF TypeOK, TaskShapes
    <3>2. CASE Stage(r, d) = "claimed"
      <4>1. moved(d) = [tasks[r][d] EXCEPT !.stage = "queued"]
        BY <3>2
      <4>2. moved(d) \in Task
        BY <3>1, <4>1 DEF Task, Stages, Sending
      <4>3. Shaped(moved(d))
        BY <3>1, <3>2, <4>1 DEF Task, Shaped, Settles, Midway, Loading, Stage
      <4> QED
        BY <4>2, <4>3
    <3> QED
      BY <3>1, <3>2
  <2>2. tasks' = [tasks EXCEPT ![r] = [d \in Deliveries |-> moved(d)]]
    BY <1>6 DEF StartTasks, TypeOK
  <2> HIDE DEF moved
  <2>3. tasks' \in [Replicas -> [Deliveries -> Task]]
    BY <2>1, <2>2 DEF TypeOK
  <2>4. \A q \in Replicas, d \in Deliveries : tasks'[q][d] \in {tasks[q][d], moved(d)}
    BY <2>2 DEF TypeOK
  <2>5. TaskShapes'
    BY <2>1, <2>4 DEF TaskShapes, Shaped
  <2>6. pc' \in [Replicas -> {"idle", "reclaim", "claim", "load", "gather", "down"}]
    BY <1>6 DEF StartTasks, TypeOK
  <2>7. UNCHANGED <<clock, ready, inflight, hash, atts, producer, nowRead, faults, stops,
                    torn, overtaken, posts>>
    BY <1>6 DEF StartTasks, redis, history
  <2> QED
    BY <2>3, <2>5, <2>6, <2>7 DEF TypeOK
<1> QED
  BY <1>2, <1>3, <1>4, <1>5, <1>6 DEF TickStep

(* What the steps of one task do to the rest of the state.                 *)
LEMMA TaskFrame ==
  ASSUME NEW r \in Replicas, NEW d \in Deliveries, SendStep(r, d) \/ SettleStep(r, d)
  PROVE  UNCHANGED <<clock, producer, pc, nowRead, stops, overtaken>>
BY DEF SendStep, SettleStep, Read, MarkInFlight, Post, Reject, Conclude, Raise, Note, NoteFails,
       Notify, CallFails, Push, Unlease, Unready, Requeue, Write, SetTtl, Moved, history

LEMMA ConcludedTask ==
  ASSUME Typed, NEW r \in Replicas, NEW d \in Deliveries, Conclude(r, d)
  PROVE  \E verdict \in {"sent", "failed_retry", "dead_lettered"}, retryAt \in Nat :
           /\ verdict = "failed_retry" => retryAt >= 1
           /\ Becomes(r, d, [tasks[r][d] EXCEPT !.stage = FirstCommand, !.verdict = verdict,
                                                !.retryAt = retryAt])
<1> DEFINE t == tasks[r][d]
           verdict(reason) == OutcomeStatus(reason, RetryOn(reason, t.attempt))
           retryAt(reason, delay) ==
             IF verdict(reason) = "failed_retry" THEN t.sentAt + delay ELSE 0
<1>1. t.attempt \in Nat /\ t.sentAt \in Nat /\ t.sentAt >= 1
  <2>1. t \in Task /\ Shaped(t) /\ t.stage = "posting"
    BY DEF Typed, TypeOK, TaskShapes, Conclude, Stage
  <2> QED
    BY <2>1 DEF Task, Shaped
<1>2. PICK reason \in Reasons, delay \in NextDelays(t.attempt, NoRetryAfter) :
        Becomes(r, d, [t EXCEPT !.stage = FirstCommand, !.verdict = verdict(reason),
                                !.retryAt = retryAt(reason, delay)])
  BY DEF Conclude
<1>3. delay \in Nat
  BY <1>1, <1>2, DelaysAreTimes
<1>4. verdict(reason) \in {"sent", "failed_retry", "dead_lettered"}
  BY <1>2, RedisAssumption, OutcomeIsVerdict DEF RetryOn
<1> HIDE DEF verdict
<1>5. /\ retryAt(reason, delay) \in Nat
      /\ verdict(reason) = "failed_retry" => retryAt(reason, delay) >= 1
  BY <1>1, <1>3
<1> HIDE DEF retryAt
<1> QED
  BY <1>2, <1>4, <1>5

LEMMA TypedSend ==
  ASSUME Typed, NEW r \in Replicas, NEW d \in Deliveries, SendStep(r, d)
  PROVE  Typed'
<1> DEFINE t == tasks[r][d]
<1>1. /\ t \in Task /\ Shaped(t) /\ Stage(r, d) = t.stage
      /\ hash[d] \in Hash /\ hash[d].attempts \in Nat /\ atts[d] \in Seq(Nat)
      /\ t.attempt \in Nat /\ clock \in Nat /\ clock >= 1
  BY DEF Typed, TypeOK, TaskShapes, Task, Hash, Stage
<1>2. UNCHANGED <<clock, producer, pc, nowRead, stops, overtaken>>
  BY TaskFrame
<1>3. tasks' \in [Replicas -> [Deliveries -> Task]] /\ TaskShapes'
  <2>1. CASE Ends(r, d)
    BY <2>1, NoTaskFits, FitTask DEF Ends
  <2>2. ASSUME NEW u \in Task, Shaped(u), Becomes(r, d, u)
        PROVE  tasks' \in [Replicas -> [Deliveries -> Task]] /\ TaskShapes'
    BY <2>2, FitTask
  <2>3. CASE Read(r, d)
    <3> DEFINE n == hash[d].attempts + 1
               u == [t EXCEPT !.stage = "loaded", !.attempt = n]
    <3>0. n \in Nat
      BY <1>1
    <3>3. Stage(r, d) = "leased" /\ (Ends(r, d) \/ Becomes(r, d, u))
      BY <2>3 DEF Read
    <3> HIDE DEF n
    <3>1. u \in Task
      BY <1>1, <3>0 DEF Task, Stages, Loading
    <3>2. Shaped(u)
      BY <1>1, <3>3 DEF Task, Shaped, Settles, Midway, Loading
    <3> QED
      BY <2>1, <2>2, <3>1, <3>2, <3>3
  <2>4. CASE MarkInFlight(r, d)
    <3>1. Shaped([t EXCEPT !.stage = "claimed"])
      BY <1>1, <2>4 DEF MarkInFlight, Task, Shaped, Settles, Midway, Loading
    <3> QED
      BY <2>4, <3>1, FitStage DEF MarkInFlight, Stages, Loading
  <2>5. CASE Post(r, d)
    <3> DEFINE u == [t EXCEPT !.stage = "posting", !.sentAt = clock]
    <3>1. u \in Task
      BY <1>1 DEF Task, Stages, Sending
    <3>2. Shaped(u)
      BY <1>1, <2>5 DEF Post, Task, Shaped, Settles, Midway, Loading
    <3> QED
      BY <2>2, <2>5, <3>1, <3>2 DEF Post
  <2>6. ASSUME NEW verdict \in {"sent", "failed_retry", "dead_lettered"}, NEW retryAt \in Nat,
               verdict = "failed_retry" => retryAt >= 1, ~t.salvage,
               Becomes(r, d, [t EXCEPT !.stage = FirstCommand, !.verdict = verdict,
                                       !.retryAt = retryAt])
        PROVE  tasks' \in [Replicas -> [Deliveries -> Task]] /\ TaskShapes'
    <3> DEFINE u == [t EXCEPT !.stage = FirstCommand, !.verdict = verdict, !.retryAt = retryAt]
    <3>1. u \in Task
      BY <1>1 DEF Task, Stages, Sending, Verdicts, FirstCommand
    <3>2. Shaped(u)
      BY <1>1, <2>6 DEF Task, Shaped, Settles, Midway, Loading, FirstCommand
    <3> QED
      BY <2>2, <2>6, <3>1, <3>2
  <2>7. CASE Reject(r, d)
    <3> DEFINE u == [t EXCEPT !.stage = FirstCommand, !.verdict = "dead_lettered"]
    <3>1. u \in Task
      BY <1>1 DEF Task, Stages, Sending, Verdicts, FirstCommand
    <3>2. Shaped(u)
      BY <1>1 DEF Task, Shaped, Settles, Midway, Loading, FirstCommand
    <3> QED
      BY <2>2, <2>7, <3>1, <3>2 DEF Reject
  <2>8. CASE Conclude(r, d)
    <3>1. ~t.salvage
      BY <1>1, <2>8 DEF Conclude, Shaped
    <3> QED
      BY <2>6, <2>8, <3>1, ConcludedTask
  <2>9. ASSUME To(r, d, "note")
        PROVE  tasks' \in [Replicas -> [Deliveries -> Task]] /\ TaskShapes'
    <3>1. Shaped([t EXCEPT !.stage = "note"])
      BY <1>1 DEF Task, Shaped, Settles, Midway, Loading
    <3> QED
      BY <2>9, <3>1, FitStage DEF Stages
  <2>10. CASE Note(r, d)
    <3> DEFINE u == [t EXCEPT !.stage = FirstCommand, !.verdict = "dead_lettered", !.salvage = TRUE]
    <3>1. u \in Task
      BY <1>1 DEF Task, Stages, Sending, Verdicts, FirstCommand
    <3>2. Shaped(u)
      BY <1>1 DEF Task, Shaped, Settles, Midway, Loading, FirstCommand
    <3> QED
      BY <2>1, <2>2, <2>10, <3>1, <3>2 DEF Note
  <2>11. CASE Raise(r, d) \/ NoteFails(r, d) \/ Notify(r, d) \/ CallFails(r, d)
    BY <2>1, <2>9, <2>11 DEF Raise, NoteFails, Notify, CallFails
  <2> QED
    BY <2>3, <2>4, <2>5, <2>7, <2>8, <2>10, <2>11 DEF SendStep
<1>4. ready' \in [Deliveries -> Nat] /\ inflight' \in [Deliveries -> Nat]
  BY DEF SendStep, Read, MarkInFlight, Post, Reject, Conclude, Raise, Note, NoteFails, Notify,
         CallFails, redis, Typed, TypeOK
<1>5. hash' \in [Deliveries -> Hash]
  <2>1. CASE MarkInFlight(r, d)
    <3>1. [hash[d] EXCEPT !.status = "in_flight"] \in Hash
      BY <1>1 DEF Hash, Status
    <3> QED
      BY <2>1, <3>1 DEF MarkInFlight, Typed, TypeOK
  <2>2. CASE ~MarkInFlight(r, d)
    BY <2>2 DEF SendStep, Read, Post, Reject, Conclude, Raise, Note, NoteFails, Notify,
                CallFails, redis, Typed, TypeOK
  <2> QED
    BY <2>1, <2>2
<1>6. atts' \in [Deliveries -> Seq(Nat)]
  <2>1. CASE Note(r, d)
    <3>1. Pushed(atts[d], t.attempt) \in Seq(Nat)
      BY <1>1, PushedIsSeq
    <3> QED
      BY <2>1, <3>1 DEF Note, Typed, TypeOK
  <2>2. CASE ~Note(r, d)
    BY <2>2 DEF SendStep, Read, MarkInFlight, Post, Reject, Conclude, Raise, NoteFails, Notify,
                CallFails, redis, Typed, TypeOK
  <2> QED
    BY <2>1, <2>2
<1>7. faults' \in Nat
  <2>1. CASE Raise(r, d) \/ NoteFails(r, d) \/ CallFails(r, d)
    BY <2>1 DEF Raise, NoteFails, CallFails, Fault, Typed, TypeOK
  <2>2. CASE ~(Raise(r, d) \/ NoteFails(r, d) \/ CallFails(r, d))
    <3>1. UNCHANGED faults
      BY <2>2 DEF SendStep, Read, MarkInFlight, Post, Reject, Conclude, Note, Notify
    <3> QED
      BY <3>1 DEF Typed, TypeOK
  <2> QED
    BY <2>1, <2>2
<1>8. torn' \in [Deliveries -> BOOLEAN]
  <2>1. CASE CallFails(r, d)
    <3>1. (torn[d] \/ Stage(r, d) \in Midway \cup {"landed"}) \in BOOLEAN
      OBVIOUS
    <3>2. torn' = [torn EXCEPT ![d] = torn[d] \/ Stage(r, d) \in Midway \cup {"landed"}]
      BY <2>1 DEF CallFails, Typed, TypeOK
    <3> QED
      BY <3>1, <3>2 DEF Typed, TypeOK
  <2>2. CASE ~CallFails(r, d)
    <3>1. UNCHANGED torn
      BY <2>2 DEF SendStep, Read, MarkInFlight, Post, Reject, Conclude, Raise, Note, NoteFails,
                  Notify, history
    <3> QED
      BY <3>1 DEF Typed, TypeOK
  <2> QED
    BY <2>1, <2>2
<1>9. posts' \in [Deliveries -> Nat]
  <2>1. CASE Post(r, d)
    BY <2>1 DEF Post, Typed, TypeOK
  <2>2. CASE ~Post(r, d)
    <3>1. UNCHANGED posts
      BY <2>2 DEF SendStep, Read, MarkInFlight, Reject, Conclude, Raise, Note, NoteFails,
                  Notify, CallFails, history
    <3> QED
      BY <3>1 DEF Typed, TypeOK
  <2> QED
    BY <2>1, <2>2
<1> QED
  BY <1>2, <1>3, <1>4, <1>5, <1>6, <1>7, <1>8, <1>9 DEF Typed, TypeOK

LEMMA TypedSettle ==
  ASSUME Typed, NEW r \in Replicas, NEW d \in Deliveries, SettleStep(r, d)
  PROVE  Typed'
<1> DEFINE t == tasks[r][d]
<1>1. /\ t \in Task /\ Shaped(t) /\ Stage(r, d) = t.stage
      /\ hash[d] \in Hash /\ atts[d] \in Seq(Nat)
      /\ t.attempt \in Nat /\ t.retryAt \in Nat /\ clock + Retention \in Nat
      /\ t.verdict \in Verdicts
  BY RedisAssumption DEF Typed, TypeOK, TaskShapes, Task, Hash, Stage
<1>2. UNCHANGED <<clock, producer, pc, nowRead, stops, overtaken, faults, torn, posts>>
  BY DEF SettleStep, Push, Unlease, Unready, Requeue, Write, SetTtl, Moved, history
<1>3. tasks' \in [Replicas -> [Deliveries -> Task]] /\ TaskShapes'
  <2>1. ASSUME NEW stage \in Stages, To(r, d, stage), Shaped([t EXCEPT !.stage = stage])
        PROVE  tasks' \in [Replicas -> [Deliveries -> Task]] /\ TaskShapes'
    BY <2>1, FitStage
  <2>2. CASE Push(r, d)
    <3>1. Shaped([t EXCEPT !.stage = "unlease"])
      BY <1>1, <2>2 DEF Push, Task, Shaped, Settles, Midway, Loading
    <3> QED
      BY <2>1, <2>2, <3>1 DEF Push, Moved, Stages, Sending
  <2>3. CASE Unlease(r, d)
    <3> DEFINE next == SecondCommand(t.verdict)
    <3>1. Shaped([t EXCEPT !.stage = next])
      BY <1>1, <2>3 DEF Unlease, SecondCommand, Task, Shaped, Settles, Midway, Loading
    <3>2. next \in Stages
      BY DEF SecondCommand, Stages, Midway
    <3>3. To(r, d, next)
      BY <2>3 DEF Unlease, Moved
    <3> QED
      BY <2>1, <3>1, <3>2, <3>3
  <2>4. CASE Unready(r, d) \/ Requeue(r, d)
    <3>1. Shaped([t EXCEPT !.stage = "write"])
      BY <1>1, <2>4 DEF Unready, Requeue, Task, Shaped, Settles, Midway, Loading
    <3> QED
      BY <2>1, <2>4, <3>1 DEF Unready, Requeue, Moved, Stages, Midway
  <2>5. CASE Write(r, d) /\ t.verdict # "failed_retry"
    <3>1. Shaped([t EXCEPT !.stage = "expire"])
      BY <1>1, <2>5 DEF Write, Task, Shaped, Settles, Midway, Loading
    <3> QED
      BY <2>1, <2>5, <3>1 DEF Write, Moved, Stages, Midway
  <2>6. CASE SetTtl(r, d) \/ (Write(r, d) /\ t.verdict = "failed_retry")
    <3>1. Shaped([t EXCEPT !.stage = "landed"])
      BY <1>1 DEF Task, Shaped, Settles, Midway, Loading
    <3> QED
      BY <2>1, <2>6, <3>1 DEF SetTtl, Write, Moved, Stages
  <2> QED
    BY <2>2, <2>3, <2>4, <2>5, <2>6 DEF SettleStep
<1>4. ready' \in [Deliveries -> Nat]
  <2>1. CASE Requeue(r, d)
    BY <1>1, <2>1 DEF Requeue, Typed, TypeOK
  <2>2. CASE Unready(r, d)
    BY <2>2 DEF Unready, NotIn, Typed, TypeOK
  <2>3. CASE ~(Requeue(r, d) \/ Unready(r, d))
    <3>1. UNCHANGED ready
      BY <2>3 DEF SettleStep, Push, Unlease, Write, SetTtl
    <3> QED
      BY <3>1 DEF Typed, TypeOK
  <2> QED
    BY <2>1, <2>2, <2>3
<1>5. inflight' \in [Deliveries -> Nat]
  <2>1. CASE Unlease(r, d)
    BY <2>1 DEF Unlease, NotIn, Typed, TypeOK
  <2>2. CASE ~Unlease(r, d)
    <3>1. UNCHANGED inflight
      BY <2>2 DEF SettleStep, Push, Unready, Requeue, Write, SetTtl
    <3> QED
      BY <3>1 DEF Typed, TypeOK
  <2> QED
    BY <2>1, <2>2
<1>6. hash' \in [Deliveries -> Hash]
  <2>1. CASE Write(r, d) /\ t.verdict = "failed_retry"
    <3> DEFINE h == [hash[d] EXCEPT !.status = t.verdict, !.attempts = t.attempt,
                                    !.fireAt = t.retryAt]
    <3>1. h \in Hash
      BY <1>1, <2>1 DEF Hash, Status
    <3>2. hash' = [hash EXCEPT ![d] = h]
      BY <2>1 DEF Write, Typed, TypeOK, Hash
    <3> QED
      BY <3>1, <3>2 DEF Typed, TypeOK
  <2>2. CASE Write(r, d) /\ t.verdict # "failed_retry"
    <3> DEFINE h == [hash[d] EXCEPT !.status = t.verdict, !.attempts = t.attempt]
    <3>1. t.verdict \in Terminal
      BY <1>1, <2>2 DEF Write, Shaped, Settles, Midway, Verdicts, Terminal
    <3>2. h \in Hash
      BY <1>1, <3>1 DEF Hash, Status
    <3>3. hash' = [hash EXCEPT ![d] = h]
      BY <2>2 DEF Write, Typed, TypeOK, Hash
    <3> QED
      BY <3>2, <3>3 DEF Typed, TypeOK
  <2>3. CASE SetTtl(r, d)
    <3> DEFINE h == [hash[d] EXCEPT !.expires =
                       IF hash[d].status = "absent" THEN @ ELSE clock + Retention]
    <3>1. clock + Retention \in Nat
      BY <1>1, RedisAssumption
    <3>2. h \in Hash
      BY <1>1, <3>1 DEF Hash
    <3>3. hash' = [hash EXCEPT ![d] = h]
      BY <2>3 DEF SetTtl, Typed, TypeOK
    <3> QED
      BY <3>2, <3>3 DEF Typed, TypeOK
  <2>4. CASE ~(Write(r, d) \/ SetTtl(r, d))
    BY <2>4 DEF SettleStep, Push, Unlease, Unready, Requeue, Typed, TypeOK
  <2> QED
    BY <2>1, <2>2, <2>3, <2>4
<1>7. atts' \in [Deliveries -> Seq(Nat)]
  <2>1. CASE Push(r, d)
    <3>1. Pushed(atts[d], t.attempt) \in Seq(Nat)
      BY <1>1, PushedIsSeq
    <3> QED
      BY <2>1, <3>1 DEF Push, Typed, TypeOK
  <2>2. CASE ~Push(r, d)
    BY <2>2 DEF SettleStep, Unlease, Unready, Requeue, Write, SetTtl, Typed, TypeOK
  <2> QED
    BY <2>1, <2>2
<1> QED
  BY <1>2, <1>3, <1>4, <1>5, <1>6, <1>7 DEF Typed, TypeOK

LEMMA TypedStep == Typed /\ [Next]_vars => Typed'
<1> SUFFICES ASSUME Typed, [Next]_vars PROVE Typed'
  OBVIOUS
<1>1. ASSUME NEW d \in Deliveries, ProducerStep(d) \/ Expire(d)
      PROVE  Typed'
  BY <1>1, TypedProducer
<1>2. ASSUME NEW r \in Replicas, TickStep(r)
      PROVE  Typed'
  BY <1>2, TypedTick
<1>3. ASSUME NEW r \in Replicas, NEW d \in Deliveries, SendStep(r, d) \/ SettleStep(r, d)
      PROVE  Typed'
  BY <1>3, TypedSend, TypedSettle
<1>4. ASSUME NEW r \in Replicas, Stop(r)
      PROVE  Typed'
  <2>1. /\ tasks' \in [Replicas -> [Deliveries -> Task]]
        /\ \A q \in Replicas, d \in Deliveries : tasks'[q][d] \in {tasks[q][d], NoTask}
    BY <1>4, NoTaskFits DEF Stop, Typed, TypeOK
  <2>2. TaskShapes'
    BY <2>1, NoTaskFits DEF TaskShapes, Typed
  <2>3. torn' \in [Deliveries -> BOOLEAN]
    <3>1. torn' = [d \in Deliveries |-> torn[d] \/ Stage(r, d) \in Midway]
      BY <1>4 DEF Stop
    <3>2. \A d \in Deliveries : (torn[d] \/ Stage(r, d) \in Midway) \in BOOLEAN
      OBVIOUS
    <3> QED
      BY <3>1, <3>2
  <2>4. UNCHANGED <<clock, ready, inflight, hash, atts, producer, faults, overtaken, posts>>
    BY <1>4 DEF Stop, redis
  <2>5. /\ pc' \in [Replicas -> {"idle", "reclaim", "claim", "load", "gather", "down"}]
        /\ nowRead' \in [Replicas -> Nat] /\ stops' \in Nat
    BY <1>4 DEF Stop, Typed, TypeOK
  <2> QED
    BY <2>1, <2>2, <2>3, <2>4, <2>5 DEF Typed, TypeOK
<1>5. CASE Advance
  BY <1>5 DEF Advance, redis, history, Typed, TypeOK, TaskShapes
<1>6. CASE UNCHANGED vars
  BY <1>6 DEF vars, redis, history, Typed, TypeOK, TaskShapes
<1> QED
  BY <1>1, <1>2, <1>3, <1>4, <1>5, <1>6 DEF Next, ReplicaStep

(* The state of the Redis keys and of every replica keeps its type:        *)
(* whatever claim, settle and reclaim calls interleave, and wherever they  *)
(* are cut.                                                                *)
THEOREM RedisTypes == Spec => []TypeOK
<1>1. Spec => []Typed
  BY TypedInit, TypedStep, PTL DEF Spec
<1>2. Typed => TypeOK
  BY DEF Typed
<1> QED
  BY <1>1, <1>2, PTL
===============================================================================
