-------------------------- MODULE RedisPromiseProofs ---------------------------
(***************************************************************************)
(* What replicas over Redis promise about attempts: theorems about the     *)
(* numbers of attempts, the due times and the receiver's load of           *)
(* RedisStore, for every set of replicas and deliveries, on top of the     *)
(* custody of CustodyProofs.                                               *)
(***************************************************************************)
EXTENDS CustodyProofs

-------------------------------------------------------------------------------
(* What one delivery sees of a step, and its tasks of theirs.              *)
Lost(d) == faults + stops + overtaken[d]

(* The replica forgets its task of it, or claim_batch returns with it.     *)
Fades(q, d) ==
  \/ tasks'[q][d] = tasks[q][d]
  \/ Stage(q, d)' = "none"
  \/ Stage(q, d) = "claimed" /\ tasks'[q][d] = [tasks[q][d] EXCEPT !.stage = "queued"]

Untouched(d) ==
  /\ ready'[d] = ready[d] /\ inflight'[d] = inflight[d]
  /\ hash'[d] = hash[d] /\ atts'[d] = atts[d] /\ posts'[d] = posts[d]

(* The step is about something else: no key of the delivery changes, and a *)
(* task of it ends only in a crash or with an exception.                   *)
Aside(d) ==
  /\ Untouched(d) /\ overtaken'[d] = overtaken[d]
  /\ producer'[d] = producer[d] \/ (producer[d] \in {"idle", "listing"} /\ producer'[d] = "raised")
  /\ \A q \in Replicas : Fades(q, d)
  /\ torn[d] => torn'[d]
  /\ ~torn'[d] => \A q \in Replicas : tasks'[q][d] = tasks[q][d] \/ Stage(q, d) \notin Midway
  /\ Lost(d) <= Lost(d)'
  /\ (\E q \in Replicas : Stage(q, d) # "none" /\ Stage(q, d)' = "none") => Lost(d) + 1 <= Lost(d)'
  /\ \/ clock' = clock
     \/ /\ clock' = clock + 1
        /\ \A q \in Replicas :
             Stage(q, d) \notin {"none", "landed"} => WithinHold(tasks[q][d].since)

Reclaimed(d) ==
  /\ inflight[d] # NotIn /\ inflight'[d] = NotIn /\ ready'[d] # NotIn
  /\ \A q \in Replicas : ~Holds(q, d) /\ tasks'[q][d] = tasks[q][d]
  /\ hash'[d] = hash[d] /\ atts'[d] = atts[d] /\ posts'[d] = posts[d]
  /\ producer'[d] = producer[d] /\ overtaken'[d] = overtaken[d] /\ torn'[d] = torn[d]
  /\ clock' = clock /\ Lost(d)' = Lost(d)

Claimed(d) ==
  /\ ready[d] # NotIn /\ ready[d] <= clock /\ ready'[d] = NotIn
  /\ \E r \in Replicas :
       /\ Stage(r, d) = "none"
       /\ \/ Stage(r, d)' = "none"
          \/ /\ Stage(r, d)' = "leased"
             /\ tasks'[r][d].since <= clock /\ clock <= tasks'[r][d].since + HoldBound
       /\ \A q \in Replicas \ {r} : tasks'[q][d] = tasks[q][d]
  /\ hash'[d] = hash[d] /\ atts'[d] = atts[d] /\ posts'[d] = posts[d]
  /\ producer'[d] = producer[d] /\ torn'[d] = torn[d]
  /\ overtaken'[d] = IF \E q \in Replicas : Stage(q, d) \in Midway THEN overtaken[d] + 1
                                                                  ELSE overtaken[d]
  /\ clock' = clock /\ Lost(d) <= Lost(d)'
  /\ (\E q \in Replicas : Stage(q, d) \in Midway) => Lost(d) + 1 <= Lost(d)'

LEMMA LostIsNat ==
  ASSUME TypeOK
  PROVE  /\ faults \in Nat /\ stops \in Nat /\ clock \in Nat
         /\ \A d \in Deliveries : Lost(d) \in Nat /\ overtaken[d] \in Nat
BY DEF TypeOK, Lost

(* A step that changes no key of the delivery and leaves its tasks alone.  *)
LEMMA AsideAlone ==
  ASSUME TypeOK, NEW d \in Deliveries,
         Untouched(d), overtaken'[d] = overtaken[d], producer'[d] = producer[d],
         torn'[d] = torn[d], clock' = clock,
         \A q \in Replicas : tasks'[q][d] = tasks[q][d],
         faults' \in {faults, faults + 1}, stops' = stops
  PROVE  Aside(d)
<1>1. Lost(d) <= Lost(d)'
  <2>1. faults \in Nat /\ stops \in Nat /\ overtaken[d] \in Nat
    BY DEF TypeOK
  <2> QED
    BY <2>1 DEF Lost
<1>2. \A q \in Replicas : Fades(q, d) /\ Stage(q, d)' = Stage(q, d)
  BY DEF Fades, Stage
<1> QED
  BY <1>1, <1>2 DEF Aside

LEMMA AsideOtherTask ==
  ASSUME Kept, NEW r \in Replicas, NEW e \in Deliveries, SendStep(r, e) \/ SettleStep(r, e),
         NEW d \in Deliveries \ {e}
  PROVE  Aside(d)
<1>1. Typed
  BY DEF Kept
<1>2. /\ \A q \in Replicas : tasks'[q][d] = tasks[q][d]
      /\ ready'[d] = ready[d] /\ inflight'[d] = inflight[d]
      /\ hash'[d] = hash[d] /\ torn'[d] = torn[d]
  BY <1>1, TaskAlone
<1>3. UNCHANGED <<clock, producer, stops, overtaken>>
  BY TaskFrame
<1>4. posts'[d] = posts[d] /\ atts'[d] = atts[d] /\ faults' \in {faults, faults + 1}
  <2>1. CASE Post(r, e)
    BY <1>1, <2>1 DEF Post, redis, Typed, TypeOK
  <2>2. CASE Push(r, e) \/ Note(r, e)
    BY <1>1, <2>2 DEF Push, Note, Moved, history, Typed, TypeOK
  <2>3. CASE ~Post(r, e) /\ ~Push(r, e) /\ ~Note(r, e)
    BY <2>3 DEF SendStep, SettleStep, Read, MarkInFlight, Reject, Conclude, Raise, NoteFails, Fault,
                Notify, CallFails, Unlease, Unready, Requeue, Write, SetTtl, Moved, redis, history
  <2> QED
    BY <2>1, <2>2, <2>3
<1> QED
  BY <1>1, <1>2, <1>3, <1>4, AsideAlone DEF Typed, Untouched

LEMMA AsideProducer ==
  ASSUME Kept, NEW e \in Deliveries, ProducerStep(e) \/ Expire(e), NEW d \in Deliveries,
         d # e \/ EnqueueFails(e)
  PROVE  Aside(d)
<1>1. TypeOK
  BY DEF Kept, Typed
<1>2. UNCHANGED <<clock, inflight, pc, nowRead, tasks, torn, overtaken, posts, stops>>
      /\ faults' \in {faults, faults + 1}
  BY DEF ProducerStep, EnqueueHash, EnqueueReady, EnqueueFails, Fault, Expire, history, redis
<1>3. CASE d # e
  <2>1. ready'[d] = ready[d] /\ hash'[d] = hash[d] /\ producer'[d] = producer[d] /\ atts'[d] = atts[d]
    BY <1>1, <1>3 DEF ProducerStep, EnqueueHash, EnqueueReady, EnqueueFails, Expire, redis, TypeOK
  <2> QED
    BY <1>1, <1>2, <2>1, AsideAlone DEF Untouched
<1>4. CASE d = e /\ EnqueueFails(e)
  <2>1. /\ UNCHANGED <<ready, hash, atts>>
        /\ producer[d] \in {"idle", "listing"} /\ producer'[d] = "raised"
    BY <1>1, <1>4 DEF EnqueueFails, redis, TypeOK
  <2>2. Lost(d) <= Lost(d)'
    <3>1. faults \in Nat /\ stops \in Nat /\ overtaken[d] \in Nat
      BY <1>1 DEF TypeOK
    <3> QED
      BY <1>2, <3>1 DEF Lost
  <2>3. \A q \in Replicas : Fades(q, d) /\ Stage(q, d)' = Stage(q, d)
    BY <1>2 DEF Fades, Stage
  <2> QED
    BY <1>2, <2>1, <2>2, <2>3 DEF Aside, Untouched
<1> QED
  BY <1>3, <1>4

LEMMA SeenOfTick ==
  ASSUME SafeDeployment, Kept, NEW r \in Replicas,
         \/ BeginTick(r) \/ ReclaimStale(r) \/ ReclaimFails(r) \/ StartTasks(r) \/ EndTick(r)
         \/ Start(r),
         NEW d \in Deliveries
  PROVE  Aside(d) \/ Reclaimed(d)
<1>1. Typed /\ Timed /\ TypeOK
  BY DEF Kept, Typed
<1>2. CASE BeginTick(r) \/ ReclaimFails(r) \/ EndTick(r) \/ Start(r)
  <2>1. UNCHANGED <<clock, ready, inflight, hash, atts, producer, overtaken, tasks, torn, stops, posts>>
        /\ faults' \in {faults, faults + 1}
    BY <1>2 DEF BeginTick, ReclaimFails, ThenClaim, EndTick, Start, Fault, redis, history
  <2> QED
    BY <1>1, <2>1, AsideAlone DEF Untouched
<1>3. CASE StartTasks(r)
  <2>1. UNCHANGED <<clock, ready, inflight, hash, atts, producer, overtaken, torn, stops, posts, faults>>
    BY <1>3 DEF StartTasks, redis, history
  <2>2. \A q \in Replicas :
          \/ tasks'[q][d] = tasks[q][d]
          \/ Stage(q, d) = "claimed" /\ tasks'[q][d] = [tasks[q][d] EXCEPT !.stage = "queued"]
    BY <1>1, <1>3 DEF StartTasks, TypeOK
  <2>3. \A q \in Replicas : Fades(q, d) /\ (Stage(q, d)' = "none" => Stage(q, d) = "none")
    <3> TAKE q \in Replicas
    <3>1. CASE tasks'[q][d] = tasks[q][d]
      BY <3>1 DEF Fades, Stage
    <3>2. CASE Stage(q, d) = "claimed" /\ tasks'[q][d] = [tasks[q][d] EXCEPT !.stage = "queued"]
      <4>1. tasks[q][d] \in Task
        BY <1>1 DEF TypeOK
      <4>2. Stage(q, d)' = "queued"
        BY <3>2, <4>1 DEF Stage, Task
      <4> QED
        BY <3>2, <4>2 DEF Fades
    <3> QED
      BY <2>2, <3>1, <3>2
  <2>4. \A q \in Replicas : tasks'[q][d] = tasks[q][d] \/ Stage(q, d) \notin Midway
    BY <2>2 DEF Midway
  <2>5. Lost(d)' = Lost(d) /\ Lost(d) \in Nat
    BY <1>1, <2>1, LostIsNat DEF Lost
  <2> QED
    BY <2>1, <2>3, <2>4, <2>5 DEF Aside, Untouched
<1>4. CASE ReclaimStale(r)
  <2>1. UNCHANGED <<clock, hash, atts, producer, overtaken, torn, stops, posts, faults, tasks>>
        /\ pc[r] = "reclaim"
    BY <1>4 DEF ReclaimStale, ThenClaim, history
  <2>2. CASE d \notin Stale(nowRead[r])
    <3>1. ready'[d] = ready[d] /\ inflight'[d] = inflight[d]
      BY <1>4, <2>2 DEF ReclaimStale
    <3> QED
      BY <1>1, <2>1, <3>1, AsideAlone DEF Untouched
  <2>3. CASE d \in Stale(nowRead[r])
    <3>1. /\ inflight[d] # NotIn /\ inflight'[d] = NotIn
          /\ ready'[d] = nowRead[r] /\ ready'[d] # NotIn
      BY <1>1, <1>4, <2>1, <2>3 DEF Stale, ReclaimStale, Timed, TypeOK, NotIn
    <3>2. \A q \in Replicas : ~Holds(q, d)
      BY <2>1, <2>3, StaleIsNobodys
    <3> QED
      BY <2>1, <3>1, <3>2 DEF Reclaimed, Lost
  <2> QED
    BY <2>2, <2>3
<1> QED
  BY <1>2, <1>3, <1>4

LEMMA SeenInBatch ==
  ASSUME Kept, NEW r \in Replicas, pc[r] = "claim", NEW batch \in Batches(nowRead[r]),
         Taken(batch, nowRead[r]), Overtakes(batch), NEW d \in batch,
         UNCHANGED <<clock, hash, atts, producer, stops, torn, posts>>,
         faults' \in {faults, faults + 1},
         \A q \in Replicas \ {r} : tasks'[q] = tasks[q],
         tasks'[r][d] \in {NoTask, [NoTask EXCEPT !.stage = "leased", !.since = nowRead[r]]}
  PROVE  Claimed(d)
<1>1. Typed /\ Timed /\ d \in Deliveries /\ ready[d] # NotIn /\ ready[d] <= nowRead[r]
  BY DEF Kept, Batches
<1>2. /\ nowRead[r] <= clock /\ clock <= nowRead[r] + HoldBound /\ Stage(r, d) = "none"
      /\ clock \in Nat /\ nowRead[r] \in Nat /\ ready[d] \in Nat
  BY <1>1 DEF Timed, Typed, TypeOK
<1>3. /\ ready'[d] = NotIn
      /\ overtaken'[d] = IF \E q \in Replicas : Stage(q, d) \in Midway THEN overtaken[d] + 1
                                                                      ELSE overtaken[d]
  BY <1>1 DEF Taken, Overtakes
<1>4. /\ Lost(d) <= Lost(d)'
      /\ (\E q \in Replicas : Stage(q, d) \in Midway) => Lost(d) + 1 <= Lost(d)'
  <2>1. faults \in Nat /\ stops \in Nat /\ overtaken[d] \in Nat
    BY <1>1 DEF Typed, TypeOK
  <2> QED
    BY <1>3, <2>1 DEF Lost
<1>5. \/ Stage(r, d)' = "none"
      \/ Stage(r, d)' = "leased" /\ tasks'[r][d].since = nowRead[r]
  <2>1. CASE tasks'[r][d] = NoTask
    BY <2>1 DEF Stage, NoTask
  <2>2. CASE tasks'[r][d] = [NoTask EXCEPT !.stage = "leased", !.since = nowRead[r]]
    BY <2>2 DEF Stage, NoTask
  <2> QED
    BY <2>1, <2>2
<1>6. ready[d] <= clock
  BY <1>1, <1>2
<1> QED
  BY <1>1, <1>2, <1>3, <1>4, <1>5, <1>6 DEF Claimed

LEMMA SeenOfClaim ==
  ASSUME Kept, NEW r \in Replicas, ClaimIds(r), NEW d \in Deliveries
  PROVE  Aside(d) \/ Claimed(d)
<1> DEFINE lease == [NoTask EXCEPT !.stage = "leased", !.since = nowRead[r]]
<1>1. Typed /\ TypeOK
  BY DEF Kept, Typed
<1>2. UNCHANGED <<clock, hash, atts, producer, torn, faults, stops, posts>> /\ pc[r] = "claim"
  BY DEF ClaimIds
<1>3. PICK batch \in Batches(nowRead[r]) :
        /\ Taken(batch, nowRead[r]) /\ Overtakes(batch)
        /\ tasks' = [tasks EXCEPT ![r] = [e \in Deliveries |-> IF e \in batch THEN lease ELSE @[e]]]
  BY DEF ClaimIds
<1>4. /\ \A q \in Replicas \ {r} : tasks'[q] = tasks[q]
      /\ tasks'[r][d] = IF d \in batch THEN lease ELSE tasks[r][d]
  BY <1>1, <1>3 DEF TypeOK
<1>5. CASE d \in batch
  BY <1>2, <1>3, <1>4, <1>5, SeenInBatch
<1>6. CASE d \notin batch
  <2>1. ready'[d] = ready[d] /\ inflight'[d] = inflight[d] /\ overtaken'[d] = overtaken[d]
    BY <1>3, <1>6 DEF Taken, Overtakes
  <2>2. \A q \in Replicas : tasks'[q][d] = tasks[q][d]
    BY <1>4, <1>6
  <2> QED
    BY <1>1, <1>2, <2>1, <2>2, AsideAlone DEF Untouched
<1> QED
  BY <1>5, <1>6

LEMMA SeenOfFailedClaim ==
  ASSUME Kept, NEW r \in Replicas, ClaimFails(r), NEW d \in Deliveries
  PROVE  Aside(d) \/ Claimed(d)
<1>1. Typed /\ Timed /\ TypeOK
  BY DEF Kept, Typed
<1>2. UNCHANGED <<clock, hash, atts, producer, torn, stops, posts>> /\ pc[r] \in {"claim", "load"}
      /\ faults' = faults + 1
  BY DEF ClaimFails, Fault
<1>3. /\ \A q \in Replicas \ {r} : tasks'[q] = tasks[q]
      /\ tasks'[r][d] = NoTask /\ Stage(r, d) \notin Midway
  BY <1>1, <1>2 DEF ClaimFails, TypeOK, Timed, Loading, Midway
<1>4. ASSUME ready'[d] = ready[d], inflight'[d] = inflight[d], overtaken'[d] = overtaken[d]
      PROVE  Aside(d)
  <2>1. Lost(d) + 1 = Lost(d)' /\ Lost(d) \in Nat
    <3>1. faults \in Nat /\ stops \in Nat /\ overtaken[d] \in Nat
      BY <1>1 DEF TypeOK
    <3> QED
      BY <1>2, <1>4, <3>1 DEF Lost
  <2>2. \A q \in Replicas : Fades(q, d)
    BY <1>3 DEF Fades, Stage, NoTask
  <2>3. \A q \in Replicas : tasks'[q][d] = tasks[q][d] \/ Stage(q, d) \notin Midway
    BY <1>3
  <2>4. Lost(d) <= Lost(d)' /\ Lost(d) + 1 <= Lost(d)'
    BY <2>1
  <2> QED
    BY <1>2, <1>4, <2>2, <2>3, <2>4 DEF Aside, Untouched
<1>5. CASE UNCHANGED <<ready, inflight, overtaken>>
  BY <1>4, <1>5
<1>6. ASSUME pc[r] = "claim", NEW batch \in Batches(nowRead[r]),
             Taken(batch, nowRead[r]), Overtakes(batch)
      PROVE  Aside(d) \/ Claimed(d)
  <2>1. CASE d \in batch
    BY <1>2, <1>3, <1>6, <2>1, SeenInBatch
  <2>2. CASE d \notin batch
    <3>1. ready'[d] = ready[d] /\ inflight'[d] = inflight[d] /\ overtaken'[d] = overtaken[d]
      BY <1>6, <2>2 DEF Taken, Overtakes
    <3> QED
      BY <1>4, <3>1
  <2> QED
    BY <2>1, <2>2
<1> QED
  BY <1>5, <1>6 DEF ClaimFails

LEMMA AsideStop ==
  ASSUME Kept, NEW r \in Replicas, Stop(r), NEW d \in Deliveries
  PROVE  Aside(d)
<1>1. TypeOK
  BY DEF Kept, Typed
<1>2. UNCHANGED <<clock, ready, inflight, hash, atts, producer, overtaken, faults, posts>>
      /\ stops' = stops + 1
  BY DEF Stop, redis
<1>3. /\ \A q \in Replicas \ {r} : tasks'[q] = tasks[q]
      /\ tasks'[r][d] = NoTask
      /\ torn'[d] = (torn[d] \/ Stage(r, d) \in Midway)
  BY <1>1 DEF Stop, TypeOK
<1>4. Lost(d) + 1 = Lost(d)' /\ Lost(d) \in Nat
  <2>1. faults \in Nat /\ stops \in Nat /\ overtaken[d] \in Nat
    BY <1>1 DEF TypeOK
  <2> QED
    BY <1>2, <2>1 DEF Lost
<1>5. Lost(d) <= Lost(d)' /\ Lost(d) + 1 <= Lost(d)'
  BY <1>4
<1>6. \A q \in Replicas : Fades(q, d)
  BY <1>3 DEF Fades, Stage, NoTask
<1>7. ~torn'[d] => \A q \in Replicas : tasks'[q][d] = tasks[q][d] \/ Stage(q, d) \notin Midway
  BY <1>3
<1> QED
  BY <1>2, <1>3, <1>5, <1>6, <1>7 DEF Aside, Untouched

LEMMA AsideAdvance ==
  ASSUME Kept, Advance, NEW d \in Deliveries
  PROVE  Aside(d)
<1>1. TypeOK
  BY DEF Kept, Typed
<1>2. /\ UNCHANGED <<ready, inflight, hash, atts, producer, pc, nowRead, tasks, torn, overtaken,
                     faults, stops, posts>>
      /\ clock' = clock + 1
      /\ \A q \in Replicas :
           Stage(q, d) \notin {"none", "landed"} => WithinHold(tasks[q][d].since)
  BY DEF Advance, redis, history
<1>3. Lost(d)' = Lost(d) /\ Lost(d) \in Nat
  BY <1>1, <1>2, LostIsNat DEF Lost
<1>4. \A q \in Replicas : Fades(q, d) /\ Stage(q, d)' = Stage(q, d)
  BY <1>2 DEF Fades, Stage
<1> QED
  BY <1>2, <1>3, <1>4 DEF Aside, Untouched

(* All that a step can be to a delivery.                                   *)
LEMMA Seen ==
  ASSUME SafeDeployment, Kept, [Next]_vars, NEW d \in Deliveries
  PROVE  \/ Aside(d) \/ Reclaimed(d) \/ Claimed(d)
         \/ EnqueueHash(d) \/ EnqueueReady(d) \/ Expire(d)
         \/ \E r \in Replicas : SendStep(r, d) \/ SettleStep(r, d)
<1>1. CASE UNCHANGED vars
  <2>1. UNCHANGED <<clock, ready, inflight, hash, atts, producer, tasks, torn, overtaken, posts,
                    faults, stops>>
    BY <1>1 DEF vars, redis, history
  <2> QED
    BY <2>1, AsideAlone DEF Kept, Typed, Untouched
<1>2. ASSUME NEW e \in Deliveries, ProducerStep(e) \/ Expire(e)
      PROVE  Aside(d) \/ EnqueueHash(d) \/ EnqueueReady(d) \/ Expire(d)
  BY <1>2, AsideProducer DEF ProducerStep
<1>3. ASSUME NEW r \in Replicas, TickStep(r)
      PROVE  Aside(d) \/ Reclaimed(d) \/ Claimed(d)
  BY <1>3, SeenOfTick, SeenOfClaim, SeenOfFailedClaim DEF TickStep
<1>4. ASSUME NEW r \in Replicas, NEW e \in Deliveries, SendStep(r, e) \/ SettleStep(r, e)
      PROVE  Aside(d) \/ \E q \in Replicas : SendStep(q, d) \/ SettleStep(q, d)
  BY <1>4, AsideOtherTask
<1>5. ASSUME NEW r \in Replicas, Stop(r)
      PROVE  Aside(d)
  BY <1>5, AsideStop
<1> QED
  BY <1>1, <1>2, <1>3, <1>4, <1>5, AsideAdvance DEF Next, ReplicaStep

-------------------------------------------------------------------------------
(* What one step of a task is to its delivery: the old and the new fields  *)
(* of the task, the keys, and the failures counted.                        *)
Carries(r, d) ==
  /\ tasks'[r][d].attempt = tasks[r][d].attempt /\ tasks'[r][d].sentAt = tasks[r][d].sentAt
  /\ tasks'[r][d].retryAt = tasks[r][d].retryAt /\ tasks'[r][d].verdict = tasks[r][d].verdict
  /\ tasks'[r][d].salvage = tasks[r][d].salvage

Logged(r, d) == atts'[d] = Pushed(atts[d], tasks[r][d].attempt)

(* Only the named keys change.                                             *)
SetsStay(d)  == ready'[d] = ready[d] /\ inflight'[d] = inflight[d]
CountStays(d) ==
  /\ hash'[d].attempts = hash[d].attempts /\ hash'[d].fireAt = hash[d].fireAt
  /\ hash'[d].status \in {hash[d].status, "in_flight"}
Unlogged(d)  == atts'[d] = atts[d]
Unposted(d)  == posts'[d] = posts[d]

Quits(r, d) ==
  /\ Stage(r, d) \in {"leased", "note", "landed"} \cup Settles /\ Stage(r, d)' = "none"
  /\ SetsStay(d) /\ hash'[d] = hash[d] /\ Unposted(d)
  /\ Unlogged(d) \/ (Stage(r, d) = "note" /\ Logged(r, d))
  /\ Lost(d) <= Lost(d)' /\ (Stage(r, d) \in Settles => Lost(d) + 1 <= Lost(d)')
  /\ ~torn'[d] => Stage(r, d) \notin Midway

Reads(r, d) ==
  /\ Stage(r, d) = "leased" /\ Stage(r, d)' = "loaded"
  /\ tasks'[r][d].attempt = hash[d].attempts + 1
  /\ Untouched(d) /\ Lost(d)' = Lost(d)

Marks(r, d) ==
  /\ Stage(r, d) = "loaded" /\ Stage(r, d)' = "claimed" /\ Carries(r, d)
  /\ SetsStay(d) /\ CountStays(d) /\ hash'[d].status = "in_flight"
  /\ hash'[d].expires = hash[d].expires
  /\ Unlogged(d) /\ Unposted(d) /\ Lost(d)' = Lost(d)

Posts(r, d) ==
  /\ Stage(r, d) = "queued" /\ Stage(r, d)' = "posting"
  /\ tasks'[r][d].attempt = tasks[r][d].attempt /\ tasks'[r][d].sentAt = clock
  /\ SetsStay(d) /\ hash'[d] = hash[d] /\ Unlogged(d) /\ posts'[d] = posts[d] + 1
  /\ Lost(d)' = Lost(d)

(* The outcome is known: rejected, answered, or given up by _quarantine.   *)
Judges(r, d) ==
  /\ Stage(r, d) \in {"queued", "posting", "note"} /\ Stage(r, d)' = "push"
  /\ tasks'[r][d].attempt = tasks[r][d].attempt
  /\ tasks'[r][d].verdict = "failed_retry" =>
       Stage(r, d) = "posting" /\ tasks[r][d].attempt < MaxAttempts
  /\ IF Stage(r, d) = "note" THEN tasks'[r][d].salvage /\ Logged(r, d) ELSE Unlogged(d)
  /\ SetsStay(d) /\ hash'[d] = hash[d] /\ Unposted(d) /\ Lost(d)' = Lost(d)

Stumbles(r, d) ==
  /\ Stage(r, d) \in {"queued", "posting", "landed"} \cup Settles /\ Stage(r, d)' = "note"
  /\ Carries(r, d) /\ Untouched(d) /\ Lost(d)' = Lost(d) + 1
  /\ ~torn'[d] => Stage(r, d) \notin Midway \cup {"landed"}

Logs(r, d) ==
  /\ Stage(r, d) = "push" /\ Stage(r, d)' = "unlease" /\ Carries(r, d)
  /\ SetsStay(d) /\ hash'[d] = hash[d] /\ Logged(r, d) /\ Unposted(d) /\ Lost(d)' = Lost(d)

Unleases(r, d) ==
  /\ Stage(r, d) = "unlease" /\ Stage(r, d)' = SecondCommand(tasks[r][d].verdict) /\ Carries(r, d)
  /\ inflight'[d] = NotIn /\ ready'[d] = ready[d]
  /\ hash'[d] = hash[d] /\ Unlogged(d) /\ Unposted(d) /\ Lost(d)' = Lost(d)

Delists(r, d) ==
  /\ Stage(r, d) = "unready" /\ Stage(r, d)' = "write" /\ Carries(r, d)
  /\ ready'[d] = NotIn /\ inflight'[d] = inflight[d]
  /\ hash'[d] = hash[d] /\ Unlogged(d) /\ Unposted(d) /\ Lost(d)' = Lost(d)

Lists(r, d) ==
  /\ Stage(r, d) = "requeue" /\ Stage(r, d)' = "write" /\ Carries(r, d)
  /\ ready'[d] = tasks[r][d].retryAt /\ inflight'[d] = inflight[d]
  /\ hash'[d] = hash[d] /\ Unlogged(d) /\ Unposted(d) /\ Lost(d)' = Lost(d)

Counts(r, d) ==
  /\ Stage(r, d) = "write" /\ Carries(r, d)
  /\ Stage(r, d)' = IF tasks[r][d].verdict = "failed_retry" THEN "landed" ELSE "expire"
  /\ hash'[d].attempts = tasks[r][d].attempt /\ hash'[d].status = tasks[r][d].verdict
  /\ hash'[d].fireAt = IF tasks[r][d].verdict = "failed_retry" THEN tasks[r][d].retryAt
                                                              ELSE hash[d].fireAt
  /\ hash'[d].expires = hash[d].expires
  /\ SetsStay(d) /\ Unlogged(d) /\ Unposted(d) /\ Lost(d)' = Lost(d)

Retires(r, d) ==
  /\ Stage(r, d) = "expire" /\ Stage(r, d)' = "landed" /\ Carries(r, d)
  /\ SetsStay(d) /\ CountStays(d) /\ hash'[d].status = hash[d].status
  /\ hash'[d].expires \in {hash[d].expires, clock + Retention}
  /\ Unlogged(d) /\ Unposted(d) /\ Lost(d)' = Lost(d)

(* And what it leaves alone.                                               *)
Only(r, d) ==
  /\ \A q \in Replicas \ {r} : tasks'[q][d] = tasks[q][d] /\ Stage(q, d)' = Stage(q, d)
  /\ Stage(r, d)' # "none" => tasks'[r][d].since = tasks[r][d].since
  /\ clock' = clock /\ producer'[d] = producer[d] /\ overtaken'[d] = overtaken[d]
  /\ torn[d] => torn'[d]

Turn(r, d) ==
  \/ Quits(r, d) \/ Reads(r, d) \/ Marks(r, d) \/ Posts(r, d) \/ Judges(r, d) \/ Stumbles(r, d)
  \/ Logs(r, d) \/ Unleases(r, d) \/ Delists(r, d) \/ Lists(r, d) \/ Counts(r, d) \/ Retires(r, d)

(* A task that changes its stage carries the rest along.                   *)
LEMMA Carried ==
  ASSUME Typed, NEW r \in Replicas, NEW d \in Deliveries, NEW stage, To(r, d, stage)
  PROVE  Stage(r, d)' = stage /\ Carries(r, d)
<1>1. tasks[r][d] \in Task
  BY DEF Typed, TypeOK
<1>2. tasks'[r][d] = [tasks[r][d] EXCEPT !.stage = stage]
  BY DEF To, Becomes, Typed, TypeOK
<1> QED
  BY <1>1, <1>2 DEF Task, Stage, Carries

(* RetryOn and OutcomeStatus: no retry once max_attempts is used up.       *)
LEMMA ConcludedWithin ==
  ASSUME Typed, NEW r \in Replicas, NEW d \in Deliveries, Conclude(r, d)
  PROVE  /\ Stage(r, d) = "posting" /\ Stage(r, d)' = "push"
         /\ tasks'[r][d].attempt = tasks[r][d].attempt
         /\ tasks'[r][d].verdict = "failed_retry" => tasks[r][d].attempt < MaxAttempts
<1> DEFINE t == tasks[r][d]
           verdict(reason) == OutcomeStatus(reason, RetryOn(reason, t.attempt))
           retryAt(reason, delay) ==
             IF verdict(reason) = "failed_retry" THEN t.sentAt + delay ELSE 0
           u(reason, delay) == [t EXCEPT !.stage = FirstCommand, !.verdict = verdict(reason),
                                         !.retryAt = retryAt(reason, delay)]
<1>1. PICK reason \in Reasons, delay \in NextDelays(t.attempt, NoRetryAfter) :
        Becomes(r, d, u(reason, delay))
  BY DEF Conclude
<1>2. verdict(reason) = "failed_retry" => t.attempt < MaxAttempts
  BY DEF OutcomeStatus, RetryOn, NoReason
<1>3. t \in Task /\ Stage(r, d) = "posting"
  BY DEF Typed, TypeOK, Conclude
<1>4. tasks'[r][d] = u(reason, delay)
  BY <1>1, OneTask DEF Typed
<1> HIDE DEF verdict, retryAt
<1>5. /\ u(reason, delay).stage = FirstCommand /\ u(reason, delay).attempt = t.attempt
      /\ u(reason, delay).verdict = verdict(reason)
  BY <1>3 DEF Task
<1> QED
  BY <1>2, <1>3, <1>4, <1>5 DEF Stage, FirstCommand

LEMMA TurnOfSend ==
  ASSUME Typed, NEW r \in Replicas, NEW d \in Deliveries,
         \/ Read(r, d) \/ MarkInFlight(r, d) \/ Post(r, d) \/ Reject(r, d) \/ Conclude(r, d)
         \/ Raise(r, d)
  PROVE  Turn(r, d)
<1> DEFINE t == tasks[r][d]
<1>1. /\ t \in Task /\ t.stage = Stage(r, d) /\ tasks'[r][d].stage = Stage(r, d)'
      /\ hash[d] \in Hash /\ posts[d] \in Nat
  BY DEF Typed, TypeOK, Stage
<1>2. UNCHANGED <<stops, overtaken>>
  BY TaskFrame DEF SendStep
<1>3. ASSUME faults' = faults PROVE Lost(d)' = Lost(d)
  BY <1>2, <1>3 DEF Lost
<1>4. CASE Read(r, d)
  <2>1. Stage(r, d) = "leased" /\ Untouched(d) /\ torn' = torn /\ Lost(d)' = Lost(d)
    BY <1>3, <1>4 DEF Read, redis, history, Untouched
  <2>2. CASE Ends(r, d)
    <3>1. Stage(r, d)' = "none" /\ Lost(d) <= Lost(d)'
      BY <2>1, <2>2, Forgotten, LostIsNat DEF Typed
    <3> QED
      BY <2>1, <3>1 DEF Turn, Quits, SetsStay, Untouched, Unlogged, Unposted, Settles, Midway
  <2>3. CASE Becomes(r, d, [t EXCEPT !.stage = "loaded", !.attempt = hash[d].attempts + 1])
    <3>1. tasks'[r][d] = [t EXCEPT !.stage = "loaded", !.attempt = hash[d].attempts + 1]
      BY <2>3, OneTask DEF Typed
    <3>2. tasks'[r][d].stage = "loaded" /\ tasks'[r][d].attempt = hash[d].attempts + 1
      BY <1>1, <3>1 DEF Task
    <3> QED
      BY <1>1, <2>1, <3>2 DEF Turn, Reads
  <2> QED
    BY <1>4, <2>2, <2>3 DEF Read
<1>5. CASE MarkInFlight(r, d)
  <2>1. hash'[d] = [hash[d] EXCEPT !.status = "in_flight"]
    BY <1>5 DEF MarkInFlight, Typed, TypeOK
  <2>2. CountStays(d) /\ hash'[d].status = "in_flight" /\ hash'[d].expires = hash[d].expires
    BY <1>1, <2>1 DEF Hash, CountStays
  <2>3. Stage(r, d) = "loaded" /\ Stage(r, d)' = "claimed" /\ Carries(r, d)
    BY <1>5, Carried DEF MarkInFlight
  <2>4. SetsStay(d) /\ Unlogged(d) /\ Unposted(d) /\ Lost(d)' = Lost(d)
    BY <1>3, <1>5 DEF MarkInFlight, history, SetsStay, Unlogged, Unposted
  <2> QED
    BY <2>2, <2>3, <2>4 DEF Turn, Marks
<1>6. CASE Post(r, d)
  <2>1. tasks'[r][d] = [t EXCEPT !.stage = "posting", !.sentAt = clock]
    BY <1>6, OneTask DEF Post, Typed
  <2>2. Stage(r, d)' = "posting" /\ tasks'[r][d].attempt = t.attempt /\ tasks'[r][d].sentAt = clock
    BY <1>1, <2>1 DEF Task
  <2>3. posts'[d] = posts[d] + 1
    BY <1>6 DEF Post, Typed, TypeOK
  <2>4. /\ Stage(r, d) = "queued" /\ SetsStay(d) /\ hash'[d] = hash[d] /\ Unlogged(d)
        /\ Lost(d)' = Lost(d)
    BY <1>3, <1>6 DEF Post, redis, SetsStay, Unlogged
  <2> QED
    BY <2>2, <2>3, <2>4 DEF Turn, Posts
<1>7. CASE Reject(r, d)
  <2>1. tasks'[r][d] = [t EXCEPT !.stage = FirstCommand, !.verdict = "dead_lettered"]
    BY <1>7, OneTask DEF Reject, Typed
  <2>2. /\ Stage(r, d)' = "push" /\ tasks'[r][d].attempt = t.attempt
        /\ tasks'[r][d].verdict = "dead_lettered"
    BY <1>1, <2>1 DEF Task, FirstCommand
  <2>3. /\ Stage(r, d) = "queued" /\ SetsStay(d) /\ hash'[d] = hash[d] /\ Unlogged(d)
        /\ Unposted(d) /\ Lost(d)' = Lost(d)
    BY <1>3, <1>7 DEF Reject, redis, history, SetsStay, Unlogged, Unposted
  <2> QED
    BY <2>2, <2>3 DEF Turn, Judges
<1>8. CASE Conclude(r, d)
  <2>1. /\ SetsStay(d) /\ hash'[d] = hash[d] /\ Unlogged(d)
        /\ Unposted(d) /\ Lost(d)' = Lost(d)
    BY <1>3, <1>8 DEF Conclude, redis, history, SetsStay, Unlogged, Unposted
  <2> QED
    BY <1>8, <2>1, ConcludedWithin DEF Turn, Judges
<1>9. CASE Raise(r, d)
  <2>1. Stage(r, d) \in {"queued", "posting"} /\ Stage(r, d)' = "note" /\ Carries(r, d)
    BY <1>9, Carried DEF Raise
  <2>2. Untouched(d) /\ faults' = faults + 1
    BY <1>9 DEF Raise, Fault, redis, history, Untouched
  <2>3. Lost(d)' = Lost(d) + 1
    <3>1. faults \in Nat /\ stops \in Nat /\ overtaken[d] \in Nat
      BY DEF Typed, TypeOK
    <3> QED
      BY <1>2, <2>2, <3>1 DEF Lost
  <2> QED
    BY <2>1, <2>2, <2>3 DEF Turn, Stumbles, Midway
<1> QED
  BY <1>4, <1>5, <1>6, <1>7, <1>8, <1>9

LEMMA TurnOfQuarantine ==
  ASSUME Typed, NEW r \in Replicas, NEW d \in Deliveries,
         Note(r, d) \/ NoteFails(r, d) \/ Notify(r, d) \/ CallFails(r, d)
  PROVE  Turn(r, d)
<1> DEFINE t == tasks[r][d]
<1>1. /\ t \in Task /\ t.stage = Stage(r, d) /\ tasks'[r][d].stage = Stage(r, d)'
  BY DEF Typed, TypeOK, Stage
<1>2. UNCHANGED <<stops, overtaken>> /\ Lost(d) \in Nat
  BY TaskFrame, LostIsNat DEF SendStep, Typed
<1>3. ASSUME faults' = faults PROVE Lost(d)' = Lost(d)
  BY <1>2, <1>3 DEF Lost
<1>4. ASSUME faults' = faults + 1 PROVE Lost(d)' = Lost(d) + 1
  <2>1. faults \in Nat /\ stops \in Nat /\ overtaken[d] \in Nat
    BY DEF Typed, TypeOK
  <2> QED
    BY <1>2, <1>4, <2>1 DEF Lost
<1>5. CASE Note(r, d)
  <2> DEFINE u == [t EXCEPT !.stage = FirstCommand, !.verdict = "dead_lettered", !.salvage = TRUE]
  <2>1. /\ Stage(r, d) = "note" /\ SetsStay(d) /\ hash'[d] = hash[d] /\ Logged(r, d)
        /\ Unposted(d) /\ Lost(d)' = Lost(d)
    BY <1>3, <1>5 DEF Note, history, SetsStay, Logged, Unposted, Typed, TypeOK
  <2>2. CASE Becomes(r, d, u)
    <3>1. tasks'[r][d] = u
      BY <2>2, OneTask DEF Typed
    <3>2. /\ Stage(r, d)' = "push" /\ tasks'[r][d].attempt = t.attempt
          /\ tasks'[r][d].verdict = "dead_lettered" /\ tasks'[r][d].salvage
      BY <1>1, <3>1 DEF Task, FirstCommand
    <3> QED
      BY <2>1, <3>2 DEF Turn, Judges
  <2>3. CASE Ends(r, d)
    <3>1. Stage(r, d)' = "none" /\ Lost(d) <= Lost(d)'
      BY <1>2, <2>1, <2>3, Forgotten
    <3> QED
      BY <2>1, <3>1 DEF Turn, Quits, Settles, Midway
  <2> QED
    BY <1>5, <2>2, <2>3 DEF Note
<1>6. CASE NoteFails(r, d) \/ Notify(r, d)
  <2>1. Stage(r, d) \in {"note", "landed"} /\ Stage(r, d)' = "none"
    BY <1>6, Forgotten DEF NoteFails, Notify
  <2>2. /\ SetsStay(d) /\ hash'[d] = hash[d] /\ Unlogged(d) /\ Unposted(d)
        /\ faults' \in {faults, faults + 1}
    BY <1>6 DEF NoteFails, Notify, Fault, redis, history, SetsStay, Unlogged, Unposted
  <2>3. Lost(d) <= Lost(d)'
    BY <1>2, <1>3, <1>4, <2>2
  <2> QED
    BY <2>1, <2>2, <2>3 DEF Turn, Quits, Settles, Midway
<1>7. CASE CallFails(r, d)
  <2>1. Stage(r, d) \in {"landed"} \cup Settles
    BY <1>7 DEF CallFails, Settles
  <2>2. /\ Untouched(d) /\ Lost(d)' = Lost(d) + 1
    BY <1>4, <1>7 DEF CallFails, Fault, redis, Untouched
  <2>3. ~torn'[d] => Stage(r, d) \notin Midway \cup {"landed"}
    BY <1>7 DEF CallFails, Typed, TypeOK
  <2>4. CASE Ends(r, d)
    <3>1. Stage(r, d)' = "none" /\ Lost(d) <= Lost(d)' /\ Lost(d) + 1 <= Lost(d)'
      BY <1>2, <2>2, <2>4, Forgotten
    <3> QED
      BY <2>1, <2>2, <2>3, <3>1 DEF Turn, Quits, Untouched, SetsStay, Unlogged, Unposted
  <2>5. CASE To(r, d, "note")
    BY <2>1, <2>2, <2>3, <2>5, Carried DEF Turn, Stumbles
  <2> QED
    BY <1>7, <2>4, <2>5 DEF CallFails
<1> QED
  BY <1>5, <1>6, <1>7

LEMMA TurnOfSettle ==
  ASSUME Typed, NEW r \in Replicas, NEW d \in Deliveries, SettleStep(r, d)
  PROVE  Turn(r, d)
<1> DEFINE t == tasks[r][d]
<1>1. hash[d] \in Hash /\ clock + Retention \in Nat
  BY RedisAssumption DEF Typed, TypeOK
<1>2. UNCHANGED <<clock, posts, faults, stops, overtaken>>
  BY DEF SettleStep, Push, Unlease, Unready, Requeue, Write, SetTtl, Moved, history
<1>3. Unposted(d) /\ Lost(d)' = Lost(d)
  BY <1>2 DEF Lost, Unposted
<1>4. CASE Push(r, d)
  <2>1. Logged(r, d) /\ SetsStay(d) /\ hash'[d] = hash[d]
    BY <1>4 DEF Push, Logged, SetsStay, Typed, TypeOK
  <2> QED
    BY <1>3, <1>4, <2>1, Carried DEF Push, Moved, Turn, Logs
<1>5. CASE Unlease(r, d)
  <2>1. Unlogged(d) /\ hash'[d] = hash[d] /\ ready'[d] = ready[d] /\ inflight'[d] = NotIn
    BY <1>5 DEF Unlease, Unlogged, Typed, TypeOK
  <2> QED
    BY <1>3, <1>5, <2>1, Carried DEF Unlease, Moved, Turn, Unleases
<1>6. CASE Unready(r, d)
  <2>1. Unlogged(d) /\ hash'[d] = hash[d] /\ ready'[d] = NotIn /\ inflight'[d] = inflight[d]
    BY <1>6 DEF Unready, Unlogged, Typed, TypeOK
  <2> QED
    BY <1>3, <1>6, <2>1, Carried DEF Unready, Moved, Turn, Delists
<1>7. CASE Requeue(r, d)
  <2>1. Unlogged(d) /\ hash'[d] = hash[d] /\ ready'[d] = t.retryAt /\ inflight'[d] = inflight[d]
    BY <1>7 DEF Requeue, Unlogged, Typed, TypeOK
  <2> QED
    BY <1>3, <1>7, <2>1, Carried DEF Requeue, Moved, Turn, Lists
<1>8. CASE Write(r, d)
  <2>1. Unlogged(d) /\ SetsStay(d) /\ Stage(r, d) = "write"
    BY <1>8 DEF Write, Unlogged, SetsStay
  <2>2. CASE t.verdict = "failed_retry"
    <3>1. hash'[d] = [hash[d] EXCEPT !.status = t.verdict, !.attempts = t.attempt,
                                     !.fireAt = t.retryAt]
      BY <1>8, <2>2 DEF Write, Typed, TypeOK
    <3>2. /\ hash'[d].status = t.verdict /\ hash'[d].attempts = t.attempt
          /\ hash'[d].fireAt = t.retryAt /\ hash'[d].expires = hash[d].expires
      BY <1>1, <3>1 DEF Hash
    <3>3. Stage(r, d)' = "landed" /\ Carries(r, d)
      BY <1>8, <2>2, Carried DEF Write, Moved
    <3> QED
      BY <1>3, <2>1, <2>2, <3>2, <3>3 DEF Turn, Counts
  <2>3. CASE t.verdict # "failed_retry"
    <3>1. hash'[d] = [hash[d] EXCEPT !.status = t.verdict, !.attempts = t.attempt]
      BY <1>8, <2>3 DEF Write, Typed, TypeOK
    <3>2. /\ hash'[d].status = t.verdict /\ hash'[d].attempts = t.attempt
          /\ hash'[d].fireAt = hash[d].fireAt /\ hash'[d].expires = hash[d].expires
      BY <1>1, <3>1 DEF Hash
    <3>3. Stage(r, d)' = "expire" /\ Carries(r, d)
      BY <1>8, <2>3, Carried DEF Write, Moved
    <3> QED
      BY <1>3, <2>1, <2>3, <3>2, <3>3 DEF Turn, Counts
  <2> QED
    BY <2>2, <2>3
<1>9. CASE SetTtl(r, d)
  <2>1. hash'[d] = [hash[d] EXCEPT !.expires =
                      IF hash[d].status = "absent" THEN hash[d].expires ELSE clock + Retention]
    BY <1>9 DEF SetTtl, Typed, TypeOK
  <2>2. CountStays(d) /\ hash'[d].status = hash[d].status
        /\ hash'[d].expires \in {hash[d].expires, clock + Retention}
    BY <1>1, <2>1 DEF Hash, CountStays
  <2>3. Unlogged(d) /\ SetsStay(d) /\ Stage(r, d) = "expire"
    BY <1>9 DEF SetTtl, Unlogged, SetsStay
  <2> QED
    BY <1>3, <1>9, <2>2, <2>3, Carried DEF SetTtl, Moved, Turn, Retires
<1> QED
  BY <1>4, <1>5, <1>6, <1>7, <1>8, <1>9 DEF SettleStep

LEMMA TurnOfTask ==
  ASSUME Typed, NEW r \in Replicas, NEW d \in Deliveries, SendStep(r, d) \/ SettleStep(r, d)
  PROVE  Turn(r, d) /\ Only(r, d)
<1>1. Turn(r, d)
  BY TurnOfSend, TurnOfQuarantine, TurnOfSettle DEF SendStep
<1>2. Only(r, d)
  BY TaskAlone, TaskFrame, TaskMoves DEF Only, Moves, Stage
<1> QED
  BY <1>1, <1>2

(* While no pipeline of it was cut, every task that is not done holds the  *)
(* delivery, except the one that has listed a retry and not yet counted it.*)
LEMMA HoldsWhole ==
  ASSUME Typed, NEW d \in Deliveries, ~torn[d], NEW r \in Replicas
  PROVE  /\ Keeps(r, d) <=>
              Stage(r, d) \in Loading \cup {"queued", "posting", "push", "unlease", "note"}
         /\ Closing(r, d) <=>
              /\ Stage(r, d) \in {"unready", "requeue", "write", "expire"}
              /\ Stage(r, d) = "write" => tasks[r][d].verdict # "failed_retry"
         /\ Stage(r, d) \in {"unready", "expire"} => tasks[r][d].verdict # "failed_retry"
         /\ Stage(r, d) = "requeue" => tasks[r][d].verdict = "failed_retry"
         /\ Stage(r, d) \in Stages
<1>1. tasks[r][d] \in Task /\ Shaped(tasks[r][d]) /\ tasks[r][d].stage = Stage(r, d)
  BY DEF Typed, TypeOK, TaskShapes, Stage
<1> QED
  BY <1>1 DEF Keeps, Closing, Shaped, Task

(* One holder, and nobody beside it.                                       *)
LEMMA OneHolder ==
  ASSUME Kept, NEW d \in Deliveries, NEW r \in Replicas, Holds(r, d)
  PROVE  ready[d] = NotIn /\ \A q \in Replicas \ {r} : ~Holds(q, d)
BY DEF Kept, Custody, Leased

-------------------------------------------------------------------------------
(* Numbers of attempts.  As long as no pipeline of it is cut and none is   *)
(* overtaken by a claim, the holder of a delivery is alone with it: its    *)
(* attempt is the one after the last counted, and nobody has a delivery    *)
(* that mark_sent or mark_dead has written.                                *)
Pending(r, d) == Stage(r, d) \in {"unready", "requeue", "write"}

Sole(d) ==
  \A r \in Replicas : Holds(r, d) => \A q \in Replicas \ {r} : Stage(q, d) \notin Midway

Current(d) ==
  \A r \in Replicas : Keeps(r, d) /\ Stage(r, d) # "leased" =>
    tasks[r][d].attempt = hash[d].attempts + 1

Closed(d) ==
  hash[d].status \in Terminal =>
    /\ ready[d] = NotIn /\ inflight[d] = NotIn
    /\ \A q \in Replicas : ~Keeps(q, d) /\ ~Pending(q, d)

Unused(d) ==
  /\ producer[d] = "idle" => hash[d].status = "absent"
  /\ producer[d] \in {"idle", "listing"} => hash[d].attempts = 0

Orderly(d) == Unused(d) /\ (~torn[d] /\ overtaken[d] = 0 => Sole(d) /\ Current(d) /\ Closed(d))

LEMMA OrderlyAside ==
  ASSUME Kept, NEW d \in Deliveries, Orderly(d), Aside(d)
  PROVE  Orderly(d)'
<1>1. Unused(d)'
  BY DEF Orderly, Unused, Aside, Untouched
<1> SUFFICES ASSUME ~torn'[d], overtaken'[d] = 0 PROVE Sole(d)' /\ Current(d)' /\ Closed(d)'
  BY <1>1 DEF Orderly
<1>2. ~torn[d] /\ overtaken[d] = 0 /\ Sole(d) /\ Current(d) /\ Closed(d)
  BY DEF Orderly, Aside
<1>3. ASSUME NEW q \in Replicas
      PROVE  /\ Keeps(q, d)' => Keeps(q, d) /\ Stage(q, d)' # "none"
             /\ Holds(q, d)' => Holds(q, d)
             /\ Stage(q, d)' \notin {"none", "queued"} => tasks'[q][d] = tasks[q][d]
             /\ Stage(q, d)' = "queued" =>
                  Stage(q, d) # "leased" /\ tasks'[q][d].attempt = tasks[q][d].attempt
  <2>1. CASE tasks'[q][d] = tasks[q][d]
    BY <1>2, <2>1 DEF Keeps, Holds, Closing, Stage, Loading
  <2>2. CASE Stage(q, d)' = "none"
    BY <2>2 DEF Keeps, Holds, Closing, Loading
  <2>3. CASE Stage(q, d) = "claimed" /\ tasks'[q][d] = [tasks[q][d] EXCEPT !.stage = "queued"]
    <3>1. tasks[q][d] \in Task
      BY DEF Kept, Typed, TypeOK
    <3>2. Stage(q, d)' = "queued" /\ tasks'[q][d].attempt = tasks[q][d].attempt
      BY <2>3, <3>1 DEF Task, Stage
    <3> QED
      BY <2>3, <3>2 DEF Keeps, Holds, Closing, Loading
  <2> QED
    BY <2>1, <2>2, <2>3 DEF Aside, Fades
<1>4. hash'[d] = hash[d] /\ ready'[d] = ready[d] /\ inflight'[d] = inflight[d]
  BY DEF Aside, Untouched
<1>5. Sole(d)'
  BY <1>2, <1>3 DEF Sole, Midway, Stage
<1>6. Current(d)'
  <2> SUFFICES ASSUME NEW q \in Replicas, Keeps(q, d)', Stage(q, d)' # "leased"
               PROVE  tasks'[q][d].attempt = hash'[d].attempts + 1
    BY DEF Current
  <2>1. Keeps(q, d) /\ Stage(q, d) # "leased" /\ tasks'[q][d].attempt = tasks[q][d].attempt
    BY <1>3 DEF Stage
  <2> QED
    BY <1>2, <1>4, <2>1 DEF Current
<1>7. Closed(d)'
  BY <1>2, <1>3, <1>4 DEF Closed, Pending, Stage
<1> QED
  BY <1>5, <1>6, <1>7

LEMMA OrderlyMoved ==
  ASSUME Kept, NEW d \in Deliveries, Orderly(d), Reclaimed(d) \/ Claimed(d)
  PROVE  Orderly(d)'
<1>1. Unused(d)' /\ hash'[d] = hash[d] /\ torn'[d] = torn[d]
  BY DEF Orderly, Unused, Reclaimed, Claimed
<1> SUFFICES ASSUME ~torn'[d], overtaken'[d] = 0 PROVE Sole(d)' /\ Current(d)' /\ Closed(d)'
  BY <1>1 DEF Orderly
<1>2. overtaken[d] \in Nat
  BY DEF Kept, Typed, TypeOK
<1>3. CASE Reclaimed(d)
  <2>1. \A q \in Replicas : ~Holds(q, d) /\ Stage(q, d)' = Stage(q, d) /\ ~Holds(q, d)'
    BY <1>3 DEF Reclaimed, Stage, Holds, Keeps, Closing
  <2>2. hash[d].status \notin Terminal
    BY <1>1, <1>3 DEF Reclaimed, Orderly, Closed
  <2> QED
    BY <1>1, <2>1, <2>2 DEF Sole, Current, Closed, Holds
<1>4. CASE Claimed(d)
  <2>1. overtaken[d] = 0 /\ \A q \in Replicas : Stage(q, d) \notin Midway
    BY <1>2, <1>4 DEF Claimed
  <2>2. hash[d].status \notin Terminal
    BY <1>1, <1>4, <2>1 DEF Claimed, Orderly, Closed
  <2>3. \A q \in Replicas : ~Holds(q, d)
    BY <1>4, OneHolder DEF Claimed
  <2>4. PICK r \in Replicas :
          /\ Stage(r, d)' \in {"none", "leased"}
          /\ \A q \in Replicas \ {r} : tasks'[q][d] = tasks[q][d]
    BY <1>4 DEF Claimed
  <2>5. \A q \in Replicas \ {r} : ~Holds(q, d)' /\ Stage(q, d)' = Stage(q, d)
    BY <1>1, <2>3, <2>4 DEF Holds, Keeps, Closing, Stage
  <2>6. Sole(d)'
    BY <2>1, <2>4, <2>5 DEF Sole, Midway
  <2>7. Current(d)'
    BY <2>4, <2>5 DEF Current, Holds, Keeps, Loading
  <2> QED
    BY <1>1, <2>2, <2>6, <2>7 DEF Closed
<1> QED
  BY <1>3, <1>4

LEMMA OrderlyProduced ==
  ASSUME Kept, NEW d \in Deliveries, Orderly(d), EnqueueHash(d) \/ EnqueueReady(d) \/ Expire(d)
  PROVE  Orderly(d)'
<1>1. Typed /\ Known(d)
  BY DEF Kept, Custody
<1>2. UNCHANGED <<inflight, tasks, torn, overtaken>>
  BY DEF EnqueueHash, EnqueueReady, Expire, history
<1>3. \A q \in Replicas : /\ Keeps(q, d)' = Keeps(q, d) /\ Holds(q, d)' = Holds(q, d)
                          /\ Stage(q, d)' = Stage(q, d)
  BY <1>2 DEF Holds, Keeps, Closing, Stage
<1>4. CASE EnqueueHash(d) \/ EnqueueReady(d)
  <2>1. \A q \in Replicas : Stage(q, d) = "none"
    BY <1>1, <1>4 DEF Known, EnqueueHash, EnqueueReady
  <2>2. hash'[d].status = "pending" /\ hash'[d].attempts = 0
    <3>1. CASE EnqueueHash(d)
      <4>1. hash'[d] = [NoHash EXCEPT !.status = "pending", !.fireAt = clock]
        BY <1>1, <3>1 DEF EnqueueHash, Typed, TypeOK
      <4> QED
        BY <4>1 DEF NoHash
    <3>2. CASE EnqueueReady(d)
      BY <1>1, <3>2 DEF EnqueueReady, Known, Orderly, Unused
    <3> QED
      BY <1>4, <3>1, <3>2
  <2>3. \A q \in Replicas : ~Holds(q, d) /\ ~Keeps(q, d)
    BY <2>1 DEF Holds, Keeps, Closing, Loading
  <2>4. producer'[d] # "idle"
    BY <1>1, <1>4 DEF EnqueueHash, EnqueueReady, Typed, TypeOK
  <2> QED
    BY <1>3, <2>2, <2>3, <2>4 DEF Orderly, Unused, Sole, Current, Closed, Terminal
<1>5. CASE Expire(d)
  <2>1. /\ hash'[d].status = "absent" /\ hash'[d].attempts = 0 /\ hash[d].expires # Never
        /\ ready' = ready
    BY <1>1, <1>5 DEF Expire, NoHash, Typed, TypeOK
  <2>2. ~torn[d] => \A q \in Replicas : ~Keeps(q, d)
    BY <1>1, <2>1 DEF Known
  <2> QED
    BY <1>2, <1>3, <2>1, <2>2 DEF Orderly, Unused, Sole, Current, Closed, Terminal
<1> QED
  BY <1>4, <1>5

LEMMA OrderlyInTask ==
  ASSUME Kept, NEW r \in Replicas, NEW d \in Deliveries, Orderly(d),
         SendStep(r, d) \/ SettleStep(r, d)
  PROVE  Orderly(d)'
<1>1. Typed /\ Leased(d) /\ Known(d)
  BY DEF Kept, Custody
<1>2. Turn(r, d) /\ Only(r, d) /\ Moves(r, d)
  BY <1>1, TurnOfTask, TaskMoves
<1>3. producer[d] = "done" /\ producer'[d] = "done"
  BY <1>1, <1>2 DEF Known, Moves, Only
<1> SUFFICES ASSUME ~torn'[d], overtaken'[d] = 0 PROVE Sole(d)' /\ Current(d)' /\ Closed(d)'
  BY <1>3 DEF Orderly, Unused
<1>4. ~torn[d] /\ Sole(d) /\ Current(d) /\ Closed(d)
  BY <1>2 DEF Orderly, Only
<1>5. \A q \in Replicas \ {r} :
        /\ tasks'[q][d] = tasks[q][d] /\ Stage(q, d)' = Stage(q, d)
        /\ Keeps(q, d)' = Keeps(q, d) /\ Holds(q, d)' = Holds(q, d)
  BY <1>2, <1>4 DEF Only, Keeps, Closing, Holds, Stage
<1>6. Keeps(r, d)' => Keeps(r, d)
  BY <1>2 DEF Moves
<1>7. Holds(r, d)' => Holds(r, d)
  BY <1>2 DEF Moves, Holds
<1>8. \A q \in Replicas :
        Keeps(q, d) <=> Stage(q, d) \in Loading \cup {"queued", "posting", "push", "unlease", "note"}
  BY <1>1, <1>4, HoldsWhole
<1>9. Sole(d)'
  <2>1. Stage(r, d)' \in Midway => Stage(r, d) \in Midway \cup {"unlease"}
    BY <1>2 DEF Turn, Quits, Reads, Marks, Posts, Judges, Stumbles, Logs, Unleases, Delists, Lists,
                Counts, Retires, Midway
  <2>2. ASSUME NEW q \in Replicas \ {r}, Holds(q, d)
        PROVE  Stage(r, d)' \notin Midway
    <3>1. Stage(r, d) \notin Midway /\ ~Keeps(r, d)
      BY <1>1, <1>4, <2>2 DEF Sole, Leased, Holds
    <3> QED
      BY <1>8, <2>1, <3>1
  <2> QED
    BY <1>4, <1>5, <1>7, <2>2 DEF Sole
<1>10. Current(d)'
  <2>1. ASSUME NEW q \in Replicas \ {r}, Keeps(q, d), Stage(q, d) # "leased"
        PROVE  tasks[q][d].attempt = hash'[d].attempts + 1
    <3>1. Stage(r, d) \notin Midway
      BY <1>4, <2>1 DEF Sole, Holds
    <3>2. hash'[d].attempts = hash[d].attempts
      BY <1>2, <3>1 DEF Turn, Quits, Reads, Marks, Posts, Judges, Stumbles, Logs, Unleases, Delists,
                        Lists, Counts, Retires, Untouched, CountStays, Midway
    <3> QED
      BY <1>4, <2>1, <3>2 DEF Current
  <2>2. ASSUME Keeps(r, d)', Stage(r, d)' # "leased"
        PROVE  tasks'[r][d].attempt = hash'[d].attempts + 1
    <3>1. Stage(r, d)' \notin {"none", "landed", "write", "expire", "unready", "requeue"}
      BY <2>2 DEF Keeps, Loading
    <3>2. CASE Reads(r, d)
      BY <3>2 DEF Reads, Untouched
    <3>3. CASE ~Reads(r, d)
      <4>1. /\ tasks'[r][d].attempt = tasks[r][d].attempt
            /\ hash'[d].attempts = hash[d].attempts /\ Stage(r, d) # "leased"
        BY <1>2, <3>1, <3>3 DEF Turn, Quits, Marks, Posts, Judges, Stumbles, Logs, Unleases, Delists,
             Lists, Counts, Retires, Untouched, CountStays, Carries, SecondCommand, Settles, Midway
      <4> QED
        BY <1>4, <1>6, <2>2, <4>1 DEF Current
    <3> QED
      BY <3>2, <3>3
  <2> QED
    BY <1>5, <2>1, <2>2 DEF Current
<1>11. Closed(d)'
  <2> SUFFICES ASSUME hash'[d].status \in Terminal
               PROVE  /\ ready'[d] = NotIn /\ inflight'[d] = NotIn
                      /\ \A q \in Replicas : ~Keeps(q, d)' /\ ~Pending(q, d)'
    BY DEF Closed
  <2>1. CASE Counts(r, d)
    <3>1. tasks[r][d].verdict # "failed_retry" /\ Stage(r, d) = "write"
      BY <2>1 DEF Counts, Terminal
    <3>2. Closing(r, d) /\ Stage(r, d)' = "expire"
      BY <1>1, <1>4, <2>1, <3>1, HoldsWhole DEF Counts
    <3>3. /\ ready[d] = NotIn /\ inflight[d] = NotIn
          /\ \A q \in Replicas \ {r} : ~Holds(q, d) /\ Stage(q, d) \notin Midway
      BY <1>1, <1>4, <3>2 DEF Leased, Sole, Holds
    <3>4. \A q \in Replicas \ {r} : ~Keeps(q, d)' /\ ~Pending(q, d)'
      BY <1>5, <3>3 DEF Holds, Pending, Midway
    <3>5. ~Keeps(r, d)' /\ ~Pending(r, d)'
      BY <3>2 DEF Keeps, Pending, Loading
    <3> QED
      BY <2>1, <3>3, <3>4, <3>5 DEF Counts, SetsStay
  <2>2. CASE ~Counts(r, d)
    <3>1. hash[d].status \in Terminal
      BY <1>2, <2>2 DEF Turn, Quits, Reads, Marks, Posts, Judges, Stumbles, Logs, Unleases, Delists,
                        Lists, Retires, Untouched, Terminal
    <3>2. /\ ready[d] = NotIn /\ inflight[d] = NotIn
          /\ \A q \in Replicas : ~Keeps(q, d) /\ ~Pending(q, d)
      BY <1>4, <3>1 DEF Closed
    <3>3. Stage(r, d) \in {"landed", "expire"}
      BY <1>2, <1>8, <2>2, <3>2
         DEF Turn, Quits, Reads, Marks, Posts, Judges, Stumbles, Logs, Unleases, Delists, Lists,
             Retires, Pending, Loading, Settles, Midway
    <3>4. SetsStay(d) /\ Stage(r, d)' \in {"none", "landed", "note"}
      BY <1>2, <2>2, <3>3
         DEF Turn, Quits, Reads, Marks, Posts, Judges, Stumbles, Logs, Unleases, Delists, Lists,
             Retires, Untouched, SetsStay
    <3>5. ~Pending(r, d)'
      BY <3>4 DEF Pending
    <3>6. \A q \in Replicas \ {r} : ~Pending(q, d)'
      BY <1>5, <3>2 DEF Pending
    <3> QED
      BY <1>5, <1>6, <3>2, <3>4, <3>5, <3>6 DEF SetsStay
  <2> QED
    BY <2>1, <2>2
<1> QED
  BY <1>9, <1>10, <1>11

Ordered == Kept /\ \A d \in Deliveries : Orderly(d)

LEMMA OrderedInit == Init => Ordered
<1> SUFFICES ASSUME Init PROVE Ordered
  OBVIOUS
<1>1. \A r \in Replicas, d \in Deliveries : ~Keeps(r, d) /\ ~Holds(r, d)
  BY DEF Init, Stage, NoTask, Keeps, Closing, Holds, Loading
<1>2. \A d \in Deliveries : hash[d].status = "absent" /\ hash[d].attempts = 0
  BY DEF Init, NoHash
<1> QED
  BY <1>1, <1>2, KeptInit DEF Ordered, Orderly, Unused, Sole, Current, Closed, Terminal

LEMMA OrderedStep == SafeDeployment /\ Ordered /\ [Next]_vars => Ordered'
<1> SUFFICES ASSUME SafeDeployment, Ordered, [Next]_vars PROVE Ordered'
  OBVIOUS
<1>1. Kept /\ Kept'
  BY KeptStep DEF Ordered
<1>2. ASSUME NEW d \in Deliveries PROVE Orderly(d)'
  BY <1>1, Seen, OrderlyAside, OrderlyMoved, OrderlyProduced, OrderlyInTask DEF Ordered
<1> QED
  BY <1>1, <1>2 DEF Ordered

LEMMA AlwaysOrdered == SafeDeployment /\ Spec => []Ordered
<1>1. CASE SafeDeployment
  <2>1. Ordered /\ [Next]_vars => Ordered'
    BY <1>1, OrderedStep
  <2> QED
    BY <2>1, OrderedInit, PTL DEF Spec
<1> QED
  BY <1>1

(* The attempt that send numbers from the hash, read after the claim       *)
(* script and with no transaction around the two, is the one after the     *)
(* last counted until it settles: unless a claim overtook a pipeline,      *)
(* nobody else counts while a task holds the delivery.                     *)
THEOREM AttemptsFollowTheCount == SafeDeployment /\ Spec => []SnapshotIsCurrent
<1>1. Ordered => SnapshotIsCurrent
  <2> SUFFICES ASSUME Ordered, NEW r \in Replicas, NEW d \in Deliveries,
                      Stage(r, d) \in Sending, ~torn[d], overtaken[d] = 0
               PROVE  tasks[r][d].attempt = hash[d].attempts + 1
    BY DEF SnapshotIsCurrent
  <2>1. Keeps(r, d) /\ Stage(r, d) # "leased"
    BY DEF Keeps, Sending
  <2> QED
    BY <2>1 DEF Ordered, Orderly, Current
<1> QED
  BY <1>1, AlwaysOrdered, PTL

LEMMA TerminalStep ==
  ASSUME SafeDeployment, Ordered, [Next]_vars, NEW d \in Deliveries,
         hash[d].status \in Terminal, ~torn[d], overtaken[d] = 0
  PROVE  hash'[d].status \in {hash[d].status, "absent"}
<1>1. Kept /\ Typed /\ Unused(d) /\ Closed(d)
  BY DEF Ordered, Orderly, Kept
<1>2. CASE Aside(d) \/ Reclaimed(d) \/ Claimed(d)
  BY <1>2 DEF Aside, Untouched, Reclaimed, Claimed
<1>3. CASE EnqueueHash(d)
  BY <1>1, <1>3 DEF EnqueueHash, Unused, Terminal
<1>4. CASE EnqueueReady(d)
  BY <1>4 DEF EnqueueReady
<1>5. CASE Expire(d)
  BY <1>1, <1>5 DEF Expire, NoHash, Typed, TypeOK
<1>6. ASSUME NEW r \in Replicas, SendStep(r, d) \/ SettleStep(r, d)
      PROVE  hash'[d].status \in {hash[d].status, "absent"}
  <2>1. Turn(r, d)
    BY <1>1, <1>6, TurnOfTask
  <2>2. ~Keeps(r, d) /\ ~Pending(r, d)
    BY <1>1 DEF Closed
  <2>3. ~Marks(r, d) /\ ~Counts(r, d)
    BY <2>2 DEF Marks, Counts, Keeps, Pending, Loading
  <2> QED
    BY <2>1, <2>3 DEF Turn, Quits, Reads, Posts, Judges, Stumbles, Logs, Unleases, Delists, Lists,
                      Retires, Untouched
<1> QED
  BY <1>1, <1>2, <1>3, <1>4, <1>5, <1>6, Seen

(* What mark_sent and mark_dead wrote stays until it expires: whoever      *)
(* could write again would hold the delivery, or have a retry of it still  *)
(* to count, and neither can be once the last attempt is written, unless a *)
(* pipeline was cut or overtaken.                                          *)
THEOREM TerminalStays == SafeDeployment /\ Spec => TerminalIsFinal
<1>1. CASE SafeDeployment
  <2>1. Ordered /\ [Next]_vars =>
          [\A d \in Deliveries :
             hash[d].status \in Terminal /\ ~torn[d] /\ overtaken[d] = 0 =>
               hash'[d].status \in {hash[d].status, "absent"}]_vars
    BY <1>1, TerminalStep
  <2> QED
    BY <1>1, <2>1, AlwaysOrdered, PTL DEF TerminalIsFinal, Spec
<1> QED
  BY <1>1

-------------------------------------------------------------------------------
(* Due times.  RECLAIM_LUA lists a delivery as due without looking at the  *)
(* time schedule_retry set, so nothing in the sets keeps that promise: a   *)
(* due time still to come means that nobody can be about to post.          *)
Rival(r, d) ==
  \/ Stage(r, d) \in Loading \cup {"queued", "posting"}
  \/ Stage(r, d) \in {"push", "unlease", "requeue"} /\ ~tasks[r][d].salvage

Waits(d, time) ==
  \/ time <= clock
  \/ /\ inflight[d] = NotIn /\ (ready[d] = NotIn \/ ready[d] >= time)
     /\ \A r \in Replicas : ~Rival(r, d)

Retrying(r, d) == Stage(r, d) = "write" /\ tasks[r][d].verdict = "failed_retry"

(* The due times that are set, or are listed and about to be.              *)
DueTimes(d) == {hash[d].fireAt} \cup {tasks[q][d].retryAt : q \in {p \in Replicas : Retrying(p, d)}}

Due(d) ==
  /\ \A time \in DueTimes(d) : Waits(d, time)
  /\ \A r \in Replicas, time \in DueTimes(d) :
       Stage(r, d) = "posting" => tasks[r][d].sentAt >= time

LEMMA DueTimesAreTimes ==
  ASSUME TypeOK, NEW d \in Deliveries
  PROVE  /\ DueTimes(d) \subseteq Nat /\ clock \in Nat /\ ready[d] \in Nat
         /\ \A r \in Replicas : tasks[r][d] \in Task /\ tasks[r][d].sentAt \in Nat
BY DEF TypeOK, DueTimes, Hash, Task

LEMMA RivalsHold ==
  ASSUME NEW r \in Replicas, NEW d \in Deliveries, Rival(r, d)
  PROVE  Holds(r, d)
BY DEF Rival, Holds, Keeps, Closing

(* What a time that waits does not see keeps it waiting.                   *)
LEMMA StillWaits ==
  ASSUME TypeOK, NEW d \in Deliveries, NEW time \in Nat, Waits(d, time),
         clock' \in {clock, clock + 1},
         inflight'[d] \in {inflight[d], NotIn}, ready'[d] \in {ready[d], NotIn},
         \A r \in Replicas : Rival(r, d)' => Rival(r, d)
  PROVE  Waits(d, time)'
<1>1. clock \in Nat
  BY DEF TypeOK
<1> QED
  BY <1>1 DEF Waits

LEMMA DueAside ==
  ASSUME Kept, NEW d \in Deliveries, Due(d), Aside(d)
  PROVE  Due(d)'
<1>1. TypeOK
  BY DEF Kept, Typed
<1>2. ASSUME NEW q \in Replicas
      PROVE  /\ Rival(q, d)' => Rival(q, d)
             /\ Stage(q, d)' \in {"posting", "write"} => tasks'[q][d] = tasks[q][d]
  <2>1. CASE tasks'[q][d] = tasks[q][d]
    BY <2>1 DEF Rival, Stage
  <2>2. CASE Stage(q, d)' = "none"
    BY <2>2 DEF Rival, Loading
  <2>3. CASE Stage(q, d) = "claimed" /\ tasks'[q][d] = [tasks[q][d] EXCEPT !.stage = "queued"]
    <3>1. Stage(q, d)' = "queued"
      BY <1>1, <2>3, DueTimesAreTimes DEF Task, Stage
    <3> QED
      BY <2>3, <3>1 DEF Rival, Loading
  <2> QED
    BY <2>1, <2>2, <2>3 DEF Aside, Fades
<1>3. DueTimes(d)' \subseteq DueTimes(d)
  BY <1>2 DEF DueTimes, Retrying, Stage, Aside, Untouched
<1>4. clock' \in {clock, clock + 1} /\ inflight'[d] = inflight[d] /\ ready'[d] = ready[d]
  BY DEF Aside, Untouched
<1>5. ASSUME NEW time \in DueTimes(d) PROVE Waits(d, time)'
  <2>1. time \in Nat /\ Waits(d, time)
    BY <1>1, DueTimesAreTimes DEF Due
  <2> QED
    BY <1>1, <1>2, <1>4, <2>1, StillWaits
<1>6. \A r \in Replicas, time \in DueTimes(d)' :
        Stage(r, d)' = "posting" => tasks'[r][d].sentAt >= time
  BY <1>2, <1>3 DEF Due, Stage
<1> QED
  BY <1>3, <1>5, <1>6 DEF Due

LEMMA DueMoved ==
  ASSUME Kept, NEW d \in Deliveries, Due(d), Reclaimed(d) \/ Claimed(d)
  PROVE  Due(d)'
<1>1. TypeOK /\ clock' = clock /\ hash'[d] = hash[d]
  BY DEF Kept, Typed, Reclaimed, Claimed
<1>2. ASSUME NEW q \in Replicas, Stage(q, d)' \in {"posting", "write"}
      PROVE  tasks'[q][d] = tasks[q][d]
  BY <1>2 DEF Reclaimed, Claimed
<1>3. DueTimes(d)' \subseteq DueTimes(d)
  BY <1>1, <1>2 DEF DueTimes, Retrying, Stage
<1>4. ASSUME NEW time \in DueTimes(d) PROVE time <= clock
  <2>1. time \in Nat /\ Waits(d, time) /\ clock \in Nat /\ ready[d] \in Nat
    BY <1>1, DueTimesAreTimes DEF Due
  <2>2. inflight[d] # NotIn \/ (ready[d] # NotIn /\ ready[d] <= clock)
    BY DEF Reclaimed, Claimed
  <2> QED
    BY <2>1, <2>2 DEF Waits
<1>5. \A time \in DueTimes(d)' : Waits(d, time)'
  BY <1>1, <1>3, <1>4 DEF Waits
<1>6. \A r \in Replicas, time \in DueTimes(d)' :
        Stage(r, d)' = "posting" => tasks'[r][d].sentAt >= time
  BY <1>2, <1>3 DEF Due, Stage
<1> QED
  BY <1>5, <1>6 DEF Due

LEMMA DueProduced ==
  ASSUME Kept, NEW d \in Deliveries, Due(d), EnqueueHash(d) \/ EnqueueReady(d) \/ Expire(d)
  PROVE  Due(d)'
<1>1. TypeOK /\ Known(d)
  BY DEF Kept, Typed, Custody
<1>2. UNCHANGED <<clock, inflight, tasks>>
  BY DEF EnqueueHash, EnqueueReady, Expire
<1>3. \A q \in Replicas : /\ Rival(q, d)' = Rival(q, d) /\ Retrying(q, d)' = Retrying(q, d)
                          /\ Stage(q, d)' = Stage(q, d)
  BY <1>2 DEF Rival, Retrying, Stage
<1>4. CASE EnqueueHash(d) \/ EnqueueReady(d)
  <2>1. /\ ready[d] = NotIn /\ inflight[d] = NotIn
        /\ \A q \in Replicas : Stage(q, d) = "none"
    BY <1>1, <1>4 DEF Known, EnqueueHash, EnqueueReady
  <2>2. DueTimes(d)' = {hash'[d].fireAt} /\ \A q \in Replicas : ~Rival(q, d)'
    BY <1>3, <2>1 DEF DueTimes, Retrying, Rival, Loading
  <2>3. Waits(d, hash[d].fireAt)'
    <3>1. CASE EnqueueHash(d)
      <4>1. hash'[d] = [NoHash EXCEPT !.status = "pending", !.fireAt = clock]
        BY <1>1, <3>1 DEF EnqueueHash, TypeOK
      <4>2. hash'[d].fireAt = clock /\ clock \in Nat
        BY <1>1, <4>1 DEF NoHash, TypeOK
      <4> QED
        BY <1>2, <4>2 DEF Waits
    <3>2. CASE EnqueueReady(d)
      <4>1. ready'[d] = hash[d].fireAt /\ hash' = hash /\ hash[d].fireAt \in Nat
        BY <1>1, <3>2 DEF EnqueueReady, TypeOK, Hash
      <4> QED
        BY <1>2, <2>1, <2>2, <4>1 DEF Waits
    <3> QED
      BY <1>4, <3>1, <3>2
  <2> QED
    BY <1>3, <2>1, <2>2, <2>3 DEF Due
<1>5. CASE Expire(d)
  <2>1. hash'[d] = NoHash /\ ready' = ready
    BY <1>1, <1>5 DEF Expire, TypeOK
  <2>2. DueTimes(d)' \subseteq DueTimes(d) \cup {0}
    BY <1>2, <1>3, <2>1 DEF DueTimes, NoHash
  <2>3. ASSUME NEW time \in DueTimes(d)' PROVE Waits(d, time)'
    <3>1. CASE time = 0
      BY <1>1, <1>2, <3>1 DEF Waits, TypeOK
    <3>2. CASE time \in DueTimes(d)
      <4>1. time \in Nat /\ Waits(d, time)
        BY <1>1, <3>2, DueTimesAreTimes DEF Due
      <4> QED
        BY <1>1, <1>2, <1>3, <2>1, <4>1, StillWaits
    <3> QED
      BY <2>2, <3>1, <3>2
  <2>4. \A r \in Replicas, time \in DueTimes(d)' :
          Stage(r, d)' = "posting" => tasks'[r][d].sentAt >= time
    BY <1>1, <1>2, <1>3, <2>2, DueTimesAreTimes DEF Due
  <2> QED
    BY <2>3, <2>4 DEF Due
<1> QED
  BY <1>4, <1>5

LEMMA DueInTask ==
  ASSUME Kept, NEW r \in Replicas, NEW d \in Deliveries, Due(d), SendStep(r, d) \/ SettleStep(r, d)
  PROVE  Due(d)'
<1>1. Typed /\ TypeOK /\ Leased(d)
  BY DEF Kept, Custody, Typed
<1>2. Turn(r, d) /\ Only(r, d) /\ Shaped(tasks[r][d]) /\ tasks[r][d].stage = Stage(r, d)
  BY <1>1, TurnOfTask DEF Typed, TaskShapes, Stage
<1>3. \A q \in Replicas \ {r} :
        /\ tasks'[q][d] = tasks[q][d] /\ Stage(q, d)' = Stage(q, d)
        /\ Rival(q, d)' = Rival(q, d) /\ Retrying(q, d)' = Retrying(q, d)
  BY <1>2 DEF Only, Rival, Retrying, Stage
<1>4. Rival(r, d)' => Rival(r, d)
  BY <1>2 DEF Turn, Quits, Reads, Marks, Posts, Judges, Stumbles, Logs, Unleases, Delists, Lists,
              Counts, Retires, Carries, SecondCommand, Rival, Loading, Shaped
<1>5. \A q \in Replicas : Rival(q, d)' => Rival(q, d)
  BY <1>3, <1>4
<1>6. clock' = clock /\ clock \in Nat
  BY <1>1, <1>2 DEF Only, TypeOK
<1>7. CASE Lists(r, d)
  <2>1. /\ Stage(r, d) = "requeue" /\ Stage(r, d)' = "write"
        /\ tasks[r][d].verdict = "failed_retry" /\ ~tasks[r][d].salvage
        /\ tasks'[r][d].retryAt = tasks[r][d].retryAt /\ tasks[r][d].retryAt \in Nat
        /\ hash'[d] = hash[d] /\ ready'[d] = tasks[r][d].retryAt /\ inflight'[d] = inflight[d]
    BY <1>1, <1>2, <1>7, DueTimesAreTimes DEF Lists, Carries, Shaped, Task
  <2>2. Rival(r, d) /\ Closing(r, d)
    BY <2>1 DEF Rival, Closing
  <2>3. inflight[d] = NotIn /\ \A q \in Replicas \ {r} : ~Rival(q, d)
    BY <1>1, <2>2, RivalsHold DEF Leased, Holds
  <2>4. \A q \in Replicas : ~Rival(q, d)'
    BY <1>3, <2>1, <2>3 DEF Rival, Loading
  <2>5. DueTimes(d)' \subseteq DueTimes(d) \cup {tasks[r][d].retryAt}
    BY <1>3, <2>1 DEF DueTimes
  <2>6. \A time \in DueTimes(d) : time <= clock
    BY <2>2 DEF Due, Waits
  <2>7. \A time \in DueTimes(d)' : Waits(d, time)'
    BY <1>6, <2>1, <2>3, <2>4, <2>5, <2>6 DEF Waits
  <2>8. \A q \in Replicas : Stage(q, d)' # "posting"
    BY <2>4 DEF Rival
  <2> QED
    BY <2>7, <2>8 DEF Due
<1>8. CASE ~Lists(r, d)
  <2>1. inflight'[d] \in {inflight[d], NotIn} /\ ready'[d] \in {ready[d], NotIn}
    BY <1>2, <1>8 DEF Turn, Quits, Reads, Marks, Posts, Judges, Stumbles, Logs, Unleases, Delists,
                      Counts, Retires, Untouched, SetsStay
  <2>2. Retrying(r, d)' => FALSE
    BY <1>2, <1>8 DEF Turn, Quits, Reads, Marks, Posts, Judges, Stumbles, Logs, Unleases, Delists,
                      Counts, Retires, Carries, SecondCommand, Retrying, Shaped
  <2>3. \/ hash'[d].fireAt = hash[d].fireAt
        \/ Retrying(r, d) /\ hash'[d].fireAt = tasks[r][d].retryAt
    BY <1>2, <1>8 DEF Turn, Quits, Reads, Marks, Posts, Judges, Stumbles, Logs, Unleases, Delists,
                      Counts, Retires, Untouched, CountStays, Retrying
  <2>4. DueTimes(d)' \subseteq DueTimes(d)
    BY <1>3, <2>2, <2>3 DEF DueTimes
  <2>5. ASSUME NEW time \in DueTimes(d) PROVE Waits(d, time)'
    <3>1. time \in Nat /\ Waits(d, time)
      BY <1>1, DueTimesAreTimes DEF Due
    <3> QED
      BY <1>1, <1>5, <1>6, <2>1, <3>1, StillWaits
  <2>6. ASSUME NEW time \in DueTimes(d), Stage(r, d)' = "posting"
        PROVE  tasks'[r][d].sentAt >= time
    <3>1. Posts(r, d)
      BY <1>2, <1>8, <2>6 DEF Turn, Quits, Reads, Marks, Judges, Stumbles, Logs, Unleases,
                              Delists, Counts, Retires, SecondCommand
    <3>2. tasks'[r][d].sentAt = clock /\ Rival(r, d)
      BY <3>1 DEF Posts, Rival
    <3>3. Waits(d, time)
      BY DEF Due
    <3>4. time <= clock /\ time \in Nat
      BY <1>1, <3>2, <3>3, DueTimesAreTimes DEF Waits
    <3> QED
      BY <1>6, <3>2, <3>4
  <2>7. \A q \in Replicas, time \in DueTimes(d)' :
          Stage(q, d)' = "posting" => tasks'[q][d].sentAt >= time
    <3> TAKE q \in Replicas, time \in DueTimes(d)'
    <3>1. CASE q = r
      BY <2>4, <2>6, <3>1
    <3>2. CASE q # r
      BY <1>3, <2>4, <3>2 DEF Due
    <3> QED
      BY <3>1, <3>2
  <2> QED
    BY <2>4, <2>5, <2>7 DEF Due
<1> QED
  BY <1>7, <1>8

Punctual == Kept /\ \A d \in Deliveries : Due(d)

LEMMA PunctualInit == Init => Punctual
<1> SUFFICES ASSUME Init PROVE Punctual
  OBVIOUS
<1>1. \A r \in Replicas, d \in Deliveries : Stage(r, d) = "none" /\ ~Retrying(r, d)
  BY DEF Init, Stage, NoTask, Retrying
<1>2. \A d \in Deliveries : DueTimes(d) = {0} /\ Waits(d, 0)
  BY <1>1 DEF DueTimes, Waits, Init, NoHash
<1> QED
  BY <1>1, <1>2, KeptInit DEF Punctual, Due

LEMMA PunctualStep == SafeDeployment /\ Punctual /\ [Next]_vars => Punctual'
<1> SUFFICES ASSUME SafeDeployment, Punctual, [Next]_vars PROVE Punctual'
  OBVIOUS
<1>1. Kept /\ Kept'
  BY KeptStep DEF Punctual
<1>2. ASSUME NEW d \in Deliveries PROVE Due(d)'
  BY <1>1, Seen, DueAside, DueMoved, DueProduced, DueInTask DEF Punctual
<1> QED
  BY <1>1, <1>2 DEF Punctual

(* No POST before the time the last schedule_retry set.  RECLAIM_LUA lists *)
(* what it takes back as due at once; but it takes back only what was in   *)
(* flight, and whoever sets a due time has taken the delivery out of there *)
(* and is the last to hold it.  Cut pipelines do not matter.               *)
THEOREM NoPostIsEarly == SafeDeployment /\ Spec => []BackoffRespected
<1>1. Punctual => BackoffRespected
  BY DEF Punctual, Due, DueTimes, BackoffRespected
<1>2. CASE SafeDeployment
  <2>1. Punctual /\ [Next]_vars => Punctual'
    BY <1>2, PunctualStep
  <2> QED
    BY <1>1, <2>1, PunctualInit, PTL DEF Spec
<1> QED
  BY <1>2

-------------------------------------------------------------------------------
(* The receiver's load.  While a delivery can be posted again its counter  *)
(* is below max_attempts, and at most one POST is not in the counter yet,  *)
(* beside those the failures and overtaking claims account for.            *)
Fresh(r, d) == Stage(r, d) \in Loading \cup {"queued"}

Exposed(r, d) == Stage(r, d) \in {"posting", "push", "unlease"} \/ Pending(r, d)

Alive(d) ==
  \/ ready[d] # NotIn \/ inflight[d] # NotIn
  \/ \E r \in Replicas : Keeps(r, d) \/ Stage(r, d) = "requeue"

(* The counter below its limit, and what it leaves uncounted.              *)
Counted(d) ==
  Alive(d) =>
    /\ hash[d].attempts < MaxAttempts
    /\ posts[d] <= hash[d].attempts + Lost(d) + 1
    /\ (\A r \in Replicas : ~Exposed(r, d)) => posts[d] <= hash[d].attempts + Lost(d)

(* A task that has posted knows of every POST; one that has not yet leaves *)
(* room for its own.                                                       *)
Numbered(r, d) ==
  /\ Exposed(r, d) \/ Stage(r, d) = "note" => posts[d] <= tasks[r][d].attempt + Lost(d)
  /\ Stage(r, d) \in Settles /\ tasks[r][d].verdict = "failed_retry" =>
       tasks[r][d].attempt < MaxAttempts
  /\ Fresh(r, d) =>
       /\ posts[d] <= hash[d].attempts + Lost(d)
       /\ \A q \in Replicas : Pending(q, d) => posts[d] + 1 <= tasks[q][d].attempt + Lost(d)
       /\ Stage(r, d) # "leased" =>
            tasks[r][d].attempt <= MaxAttempts /\ posts[d] + 1 <= tasks[r][d].attempt + Lost(d)

Loaded(d) ==
  /\ producer[d] # "done" => posts[d] = 0
  /\ ~torn[d] =>
       /\ posts[d] <= MaxAttempts + Lost(d)
       /\ Counted(d)
       /\ \A r \in Replicas : Numbered(r, d)

LEMMA LoadNumbers ==
  ASSUME TypeOK, NEW d \in Deliveries
  PROVE  /\ posts[d] \in Nat /\ hash[d].attempts \in Nat /\ Lost(d) \in Nat /\ MaxAttempts \in Nat
         /\ MaxAttempts >= 1
         /\ \A r \in Replicas : tasks[r][d].attempt \in Nat /\ tasks[r][d] \in Task
BY PolicyAssumption DEF TypeOK, Hash, Task, Lost

LEMMA LostStaysNat ==
  ASSUME TypeOK', NEW d \in Deliveries
  PROVE  Lost(d)' \in Nat
BY DEF TypeOK, Lost

(* More failures make room.                                                *)
LEMMA LoadedAside ==
  ASSUME Kept, Kept', NEW d \in Deliveries, Loaded(d), Aside(d)
  PROVE  Loaded(d)'
<1>1. TypeOK /\ TypeOK'
  BY DEF Kept, Typed
<1>2. /\ posts'[d] = posts[d] /\ hash'[d] = hash[d] /\ Lost(d) <= Lost(d)'
      /\ ready'[d] = ready[d] /\ inflight'[d] = inflight[d]
  BY DEF Aside, Untouched
<1>3. producer'[d] # "done" => posts'[d] = 0
  BY DEF Aside, Untouched, Loaded
<1> SUFFICES ASSUME ~torn'[d]
             PROVE  /\ posts'[d] <= MaxAttempts + Lost(d)'
                    /\ Counted(d)'
                    /\ \A r \in Replicas : Numbered(r, d)'
  BY <1>3 DEF Loaded
<1>4. ~torn[d] /\ posts[d] <= MaxAttempts + Lost(d) /\ Counted(d) /\ \A r \in Replicas : Numbered(r, d)
  BY DEF Aside, Loaded
<1>5. /\ posts[d] \in Nat /\ hash[d].attempts \in Nat /\ Lost(d) \in Nat /\ MaxAttempts \in Nat
      /\ Lost(d)' \in Nat
  BY <1>1, LoadNumbers, LostStaysNat
<1>6. ASSUME NEW q \in Replicas
      PROVE  \/ tasks'[q][d] = tasks[q][d] /\ Stage(q, d)' = Stage(q, d)
             \/ Stage(q, d) # "none" /\ Stage(q, d)' = "none"
             \/ Stage(q, d) = "claimed" /\ Stage(q, d)' = "queued"
                  /\ tasks'[q][d].attempt = tasks[q][d].attempt
             \/ Stage(q, d) = "none" /\ Stage(q, d)' = "none"
  <2>1. CASE Stage(q, d) = "claimed" /\ tasks'[q][d] = [tasks[q][d] EXCEPT !.stage = "queued"]
    <3>1. tasks[q][d] \in Task
      BY <1>1, LoadNumbers
    <3> QED
      BY <2>1, <3>1 DEF Task, Stage
  <2> QED
    BY <2>1 DEF Aside, Fades, Stage
<1>7. \A q \in Replicas :
        /\ Keeps(q, d)' => Keeps(q, d)
        /\ Stage(q, d)' = "requeue" => Stage(q, d) = "requeue"
        /\ Exposed(q, d)' => Exposed(q, d) /\ tasks'[q][d] = tasks[q][d]
        /\ Pending(q, d)' => Pending(q, d) /\ tasks'[q][d] = tasks[q][d]
        /\ Fresh(q, d)' => Fresh(q, d) /\ (Stage(q, d)' # "leased" => Stage(q, d) # "leased")
                           /\ tasks'[q][d].attempt = tasks[q][d].attempt
        /\ Stage(q, d)' \in Settles \cup {"note"} =>
             tasks'[q][d] = tasks[q][d] /\ Stage(q, d)' = Stage(q, d)
        /\ Exposed(q, d) => Exposed(q, d)' \/ (Stage(q, d) # "none" /\ Stage(q, d)' = "none")
  BY <1>4, <1>6 DEF Keeps, Exposed, Pending, Fresh, Loading, Settles, Midway, Stage
<1>8. posts'[d] <= MaxAttempts + Lost(d)'
  BY <1>2, <1>4, <1>5
<1>9. Counted(d)'
  <2> SUFFICES ASSUME Alive(d)'
               PROVE  /\ hash'[d].attempts < MaxAttempts
                      /\ posts'[d] <= hash'[d].attempts + Lost(d)' + 1
                      /\ (\A r \in Replicas : ~Exposed(r, d)') => posts'[d] <= hash'[d].attempts + Lost(d)'
    BY DEF Counted
  <2>1. Alive(d)
    BY <1>2, <1>7 DEF Alive
  <2>2. /\ hash[d].attempts < MaxAttempts
        /\ posts[d] <= hash[d].attempts + Lost(d) + 1
        /\ (\A r \in Replicas : ~Exposed(r, d)) => posts[d] <= hash[d].attempts + Lost(d)
    BY <1>4, <2>1 DEF Counted
  <2>3. ASSUME NEW q \in Replicas, Exposed(q, d), \A r \in Replicas : ~Exposed(r, d)'
        PROVE  Lost(d) + 1 <= Lost(d)'
    BY <1>7, <2>3 DEF Aside
  <2>4. (\A r \in Replicas : ~Exposed(r, d)') => posts[d] <= hash[d].attempts + Lost(d)'
    BY <1>2, <1>5, <2>2, <2>3
  <2> QED
    BY <1>2, <1>5, <2>2, <2>4
<1>10. ASSUME NEW r \in Replicas PROVE Numbered(r, d)'
  <2>1. Numbered(r, d) /\ tasks[r][d].attempt \in Nat
    BY <1>1, <1>4, LoadNumbers
  <2>2. Exposed(r, d)' \/ Stage(r, d)' = "note" => posts'[d] <= tasks'[r][d].attempt + Lost(d)'
    BY <1>2, <1>5, <1>7, <2>1 DEF Numbered
  <2>3. Stage(r, d)' \in Settles /\ tasks'[r][d].verdict = "failed_retry" =>
          tasks'[r][d].attempt < MaxAttempts
    BY <1>7, <2>1 DEF Numbered
  <2>4. ASSUME Fresh(r, d)'
        PROVE  /\ posts'[d] <= hash'[d].attempts + Lost(d)'
               /\ \A q \in Replicas : Pending(q, d)' => posts'[d] + 1 <= tasks'[q][d].attempt + Lost(d)'
               /\ Stage(r, d)' # "leased" =>
                    tasks'[r][d].attempt <= MaxAttempts /\ posts'[d] + 1 <= tasks'[r][d].attempt + Lost(d)'
    <3>1. /\ Fresh(r, d) /\ (Stage(r, d)' # "leased" => Stage(r, d) # "leased")
          /\ tasks'[r][d].attempt = tasks[r][d].attempt
      BY <1>7, <2>4
    <3>2. posts'[d] <= hash'[d].attempts + Lost(d)'
      BY <1>2, <1>5, <2>1, <3>1 DEF Numbered
    <3>3. ASSUME NEW q \in Replicas, Pending(q, d)'
          PROVE  posts'[d] + 1 <= tasks'[q][d].attempt + Lost(d)'
      <4>1. Pending(q, d) /\ tasks'[q][d] = tasks[q][d] /\ tasks[q][d].attempt \in Nat
        BY <1>1, <1>7, <3>3, LoadNumbers
      <4>2. posts[d] + 1 <= tasks[q][d].attempt + Lost(d)
        BY <2>1, <3>1, <4>1 DEF Numbered
      <4> QED
        BY <1>2, <1>5, <4>1, <4>2
    <3>4. Stage(r, d)' # "leased" =>
            tasks'[r][d].attempt <= MaxAttempts /\ posts'[d] + 1 <= tasks'[r][d].attempt + Lost(d)'
      BY <1>2, <1>5, <2>1, <3>1 DEF Numbered
    <3> QED
      BY <3>2, <3>3, <3>4
  <2> QED
    BY <2>2, <2>3, <2>4 DEF Numbered
<1> QED
  BY <1>8, <1>9, <1>10

LEMMA LoadedReclaimed ==
  ASSUME Kept, NEW d \in Deliveries, Loaded(d), Reclaimed(d)
  PROVE  Loaded(d)'
<1>1. \A q \in Replicas :
        /\ tasks'[q][d] = tasks[q][d] /\ Stage(q, d)' = Stage(q, d)
        /\ Exposed(q, d)' = Exposed(q, d) /\ Pending(q, d)' = Pending(q, d)
        /\ Fresh(q, d)' = Fresh(q, d)
  BY DEF Reclaimed, Stage, Exposed, Pending, Fresh
<1>2. /\ hash'[d] = hash[d] /\ posts'[d] = posts[d] /\ torn'[d] = torn[d]
      /\ producer'[d] = producer[d] /\ Lost(d)' = Lost(d) /\ Alive(d)
  BY DEF Reclaimed, Alive
<1>3. \A r \in Replicas : Numbered(r, d) => Numbered(r, d)'
  BY <1>1, <1>2 DEF Numbered
<1>4. Counted(d) => Counted(d)'
  BY <1>1, <1>2 DEF Counted
<1> QED
  BY <1>2, <1>3, <1>4 DEF Loaded

(* A claim that overtakes a pipeline makes room for the POST it may lead   *)
(* to; any other one finds every POST counted.                             *)
LEMMA LoadedClaimed ==
  ASSUME Kept, Kept', NEW d \in Deliveries, Loaded(d), Claimed(d)
  PROVE  Loaded(d)'
<1>1. TypeOK /\ TypeOK' /\ Typed
  BY DEF Kept, Typed
<1>2. /\ hash'[d] = hash[d] /\ posts'[d] = posts[d] /\ torn'[d] = torn[d]
      /\ producer'[d] = producer[d] /\ Lost(d) <= Lost(d)' /\ Alive(d)
  BY DEF Claimed, Alive
<1> SUFFICES ASSUME ~torn[d]
             PROVE  /\ posts[d] <= MaxAttempts + Lost(d)'
                    /\ Counted(d)'
                    /\ \A r \in Replicas : Numbered(r, d)'
  BY <1>2 DEF Loaded
<1>3. posts[d] <= MaxAttempts + Lost(d) /\ Counted(d) /\ \A r \in Replicas : Numbered(r, d)
  BY DEF Loaded
<1>4. /\ posts[d] \in Nat /\ hash[d].attempts \in Nat /\ Lost(d) \in Nat /\ MaxAttempts \in Nat
      /\ Lost(d)' \in Nat
  BY <1>1, LoadNumbers, LostStaysNat
<1>5. \A q \in Replicas : ~Holds(q, d)
  BY OneHolder DEF Claimed
<1>6. PICK r \in Replicas :
        /\ Stage(r, d) = "none" /\ Stage(r, d)' \in {"none", "leased"}
        /\ \A q \in Replicas \ {r} : tasks'[q][d] = tasks[q][d] /\ Stage(q, d)' = Stage(q, d)
  BY DEF Claimed, Stage
<1>7. \A q \in Replicas :
        /\ Pending(q, d)' => Pending(q, d) /\ tasks'[q][d] = tasks[q][d]
        /\ Exposed(q, d)' = Exposed(q, d)
        /\ Exposed(q, d) => Pending(q, d) /\ tasks'[q][d] = tasks[q][d]
        /\ Stage(q, d)' # "note"
        /\ Stage(q, d)' \in Settles => tasks'[q][d] = tasks[q][d] /\ Stage(q, d) \in Settles
        /\ Fresh(q, d)' => Stage(q, d)' = "leased"
  <2> TAKE q \in Replicas
  <2>1. Stage(q, d) \notin Loading \cup {"queued", "posting", "push", "unlease", "note"}
    BY <1>1, <1>5, HoldsWhole DEF Holds
  <2>2. CASE q = r
    BY <1>6, <2>2 DEF Pending, Exposed, Fresh, Loading, Settles, Midway
  <2>3. CASE q # r
    BY <1>6, <2>1, <2>3 DEF Pending, Exposed, Fresh, Loading, Settles, Midway
  <2> QED
    BY <2>2, <2>3
<1>8. ASSUME NEW q \in Replicas, Pending(q, d)
      PROVE  /\ Lost(d) + 1 <= Lost(d)' /\ posts[d] <= tasks[q][d].attempt + Lost(d)
             /\ tasks[q][d].attempt \in Nat
  <2>1. Stage(q, d) \in Midway
    BY <1>8 DEF Pending, Midway
  <2> QED
    BY <1>1, <1>3, <1>8, <2>1, LoadNumbers DEF Claimed, Numbered, Exposed
<1>9. /\ hash[d].attempts < MaxAttempts /\ posts[d] <= hash[d].attempts + Lost(d) + 1
      /\ posts[d] <= hash[d].attempts + Lost(d)'
  <2>1. /\ hash[d].attempts < MaxAttempts /\ posts[d] <= hash[d].attempts + Lost(d) + 1
        /\ (\A q \in Replicas : ~Exposed(q, d)) => posts[d] <= hash[d].attempts + Lost(d)
    BY <1>2, <1>3 DEF Counted
  <2>2. CASE \E q \in Replicas : Pending(q, d)
    <3>1. Lost(d) + 1 <= Lost(d)'
      BY <1>8, <2>2
    <3> QED
      BY <1>4, <2>1, <3>1
  <2>3. CASE \A q \in Replicas : ~Pending(q, d)
    BY <1>2, <1>4, <1>7, <2>1, <2>3
  <2> QED
    BY <2>2, <2>3
<1>10. Counted(d)'
  BY <1>2, <1>4, <1>9 DEF Counted
<1>11. ASSUME NEW q \in Replicas PROVE Numbered(q, d)'
  <2>1. Numbered(q, d)
    BY <1>3
  <2>2. Exposed(q, d)' \/ Stage(q, d)' = "note" => posts'[d] <= tasks'[q][d].attempt + Lost(d)'
    <3> SUFFICES ASSUME Exposed(q, d) PROVE posts[d] <= tasks'[q][d].attempt + Lost(d)'
      BY <1>2, <1>7
    <3> QED
      BY <1>2, <1>4, <1>7, <1>8
  <2>3. Stage(q, d)' \in Settles /\ tasks'[q][d].verdict = "failed_retry" =>
          tasks'[q][d].attempt < MaxAttempts
    BY <1>7, <2>1 DEF Numbered
  <2>4. \A p \in Replicas : Pending(p, d)' => posts'[d] + 1 <= tasks'[p][d].attempt + Lost(d)'
    <3> SUFFICES ASSUME NEW p \in Replicas, Pending(p, d)'
                 PROVE  posts[d] + 1 <= tasks'[p][d].attempt + Lost(d)'
      BY <1>2
    <3> QED
      BY <1>4, <1>7, <1>8
  <2> QED
    BY <1>2, <1>7, <1>9, <2>2, <2>3, <2>4 DEF Numbered
<1> QED
  BY <1>2, <1>3, <1>4, <1>10, <1>11

LEMMA LoadedProduced ==
  ASSUME Kept, NEW d \in Deliveries, Orderly(d), Loaded(d),
         EnqueueHash(d) \/ EnqueueReady(d) \/ Expire(d)
  PROVE  Loaded(d)'
<1>1. TypeOK /\ Typed /\ Known(d)
  BY DEF Kept, Typed, Custody
<1>2. UNCHANGED <<inflight, tasks, torn, posts, faults, stops, overtaken>>
  BY DEF EnqueueHash, EnqueueReady, Expire, history
<1>3. /\ Lost(d)' = Lost(d)
      /\ \A q \in Replicas :
           /\ Stage(q, d)' = Stage(q, d) /\ Keeps(q, d)' = Keeps(q, d)
           /\ Exposed(q, d)' = Exposed(q, d) /\ Pending(q, d)' = Pending(q, d)
           /\ Fresh(q, d)' = Fresh(q, d)
  BY <1>2 DEF Lost, Stage, Keeps, Exposed, Pending, Fresh
<1>4. posts[d] \in Nat /\ Lost(d) \in Nat /\ MaxAttempts \in Nat /\ MaxAttempts >= 1
  BY <1>1, LoadNumbers
<1>5. CASE EnqueueHash(d) \/ EnqueueReady(d)
  <2>1. /\ \A q \in Replicas : Stage(q, d) = "none"
        /\ ready[d] = NotIn /\ inflight[d] = NotIn /\ posts[d] = 0
    BY <1>1, <1>5 DEF Known, Loaded, EnqueueHash, EnqueueReady
  <2>2. hash'[d].attempts = 0
    <3>1. CASE EnqueueHash(d)
      <4>1. hash'[d] = [NoHash EXCEPT !.status = "pending", !.fireAt = clock]
        BY <1>1, <3>1 DEF EnqueueHash, TypeOK
      <4> QED
        BY <4>1 DEF NoHash
    <3>2. CASE EnqueueReady(d)
      BY <1>1, <3>2 DEF EnqueueReady, Orderly, Unused
    <3> QED
      BY <1>5, <3>1, <3>2
  <2>3. \A q \in Replicas : Numbered(q, d)'
    BY <1>3, <2>1 DEF Numbered, Exposed, Pending, Settles, Midway, Fresh, Loading
  <2>4. Counted(d)'
    BY <1>2, <1>3, <1>4, <2>1, <2>2 DEF Counted
  <2> QED
    BY <1>2, <1>3, <1>4, <2>1, <2>3, <2>4 DEF Loaded
<1>6. CASE Expire(d)
  <2>1. ready' = ready /\ producer' = producer /\ hash[d].expires # Never
    BY <1>6 DEF Expire
  <2> SUFFICES ASSUME ~torn[d] PROVE Counted(d)' /\ \A r \in Replicas : Numbered(r, d)'
    BY <1>2, <1>3, <2>1 DEF Loaded
  <2>2. /\ ready[d] = NotIn /\ inflight[d] = NotIn
        /\ \A q \in Replicas : ~Keeps(q, d) /\ Stage(q, d) # "requeue"
    BY <1>1, <2>1 DEF Known
  <2>3. ~Alive(d)'
    BY <1>2, <1>3, <2>1, <2>2 DEF Alive
  <2>4. \A q \in Replicas : ~Fresh(q, d)
    BY <1>1, <2>2, HoldsWhole DEF Fresh
  <2>5. \A q \in Replicas : Numbered(q, d)'
    BY <1>2, <1>3, <2>4 DEF Numbered, Loaded
  <2> QED
    BY <2>3, <2>5 DEF Counted
<1> QED
  BY <1>5, <1>6

(* The three parts of it, for one step of one task.                        *)
LEMMA CountedInTask ==
  ASSUME Kept, Kept', NEW r \in Replicas, NEW d \in Deliveries, Loaded(d),
         SendStep(r, d) \/ SettleStep(r, d), ~torn[d], ~torn'[d]
  PROVE  posts'[d] <= MaxAttempts + Lost(d)' /\ Counted(d)'
<1>1. Typed /\ TypeOK /\ TypeOK' /\ Leased(d)
  BY DEF Kept, Typed, Custody
<1>2. Turn(r, d) /\ Only(r, d)
  BY <1>1, TurnOfTask
<1>3. posts[d] <= MaxAttempts + Lost(d) /\ Counted(d) /\ Numbered(r, d)
  BY DEF Loaded
<1>4. /\ posts[d] \in Nat /\ hash[d].attempts \in Nat /\ Lost(d) \in Nat /\ MaxAttempts \in Nat
      /\ Lost(d)' \in Nat /\ tasks[r][d].attempt \in Nat
  BY <1>1, LoadNumbers, LostStaysNat
<1>5. \A q \in Replicas \ {r} :
        /\ Stage(q, d)' = Stage(q, d) /\ Keeps(q, d)' = Keeps(q, d)
        /\ Exposed(q, d)' = Exposed(q, d)
  BY <1>2 DEF Only, Keeps, Exposed, Pending, Stage
<1>6. \A q \in Replicas :
        Keeps(q, d) <=> Stage(q, d) \in Loading \cup {"queued", "posting", "push", "unlease", "note"}
  BY <1>1, HoldsWhole
<1>7. CASE Posts(r, d)
  <2>1. /\ Fresh(r, d) /\ Stage(r, d) # "leased" /\ Keeps(r, d) /\ Exposed(r, d)'
        /\ posts'[d] = posts[d] + 1 /\ hash'[d] = hash[d] /\ Lost(d)' = Lost(d)
    BY <1>6, <1>7 DEF Posts, Fresh, Exposed
  <2>2. /\ posts[d] <= hash[d].attempts + Lost(d)
        /\ tasks[r][d].attempt <= MaxAttempts /\ posts[d] + 1 <= tasks[r][d].attempt + Lost(d)
    BY <1>3, <2>1 DEF Numbered
  <2>3. hash[d].attempts < MaxAttempts
    BY <1>3, <2>1 DEF Counted, Alive
  <2>4. Counted(d)'
    BY <1>4, <2>1, <2>2, <2>3 DEF Counted
  <2>5. posts'[d] <= MaxAttempts + Lost(d)'
    BY <1>4, <2>1, <2>2
  <2> QED
    BY <2>4, <2>5
<1>8. CASE Counts(r, d)
  <2>1. /\ Exposed(r, d) /\ posts'[d] = posts[d] /\ Lost(d)' = Lost(d)
        /\ hash'[d].attempts = tasks[r][d].attempt /\ Stage(r, d) = "write"
        /\ ready'[d] = ready[d] /\ inflight'[d] = inflight[d]
    BY <1>8 DEF Counts, Exposed, Pending, Unposted, SetsStay
  <2>2. posts[d] <= tasks[r][d].attempt + Lost(d)
    BY <1>3, <2>1 DEF Numbered
  <2>3. CASE tasks[r][d].verdict = "failed_retry"
    <3>1. tasks[r][d].attempt < MaxAttempts
      BY <1>3, <2>1, <2>3 DEF Numbered, Settles, Midway
    <3> QED
      BY <1>3, <1>4, <2>1, <2>2, <3>1 DEF Counted
  <2>4. CASE tasks[r][d].verdict # "failed_retry"
    <3>1. Closing(r, d) /\ Stage(r, d)' = "expire"
      BY <1>1, <1>8, <2>1, <2>4, HoldsWhole DEF Counts
    <3>2. /\ ready[d] = NotIn /\ inflight[d] = NotIn
          /\ \A q \in Replicas \ {r} : ~Keeps(q, d) /\ ~Closing(q, d)
      BY <1>1, <3>1 DEF Leased, Holds
    <3>3. \A q \in Replicas \ {r} : Stage(q, d) # "requeue"
      BY <1>1, <3>2, HoldsWhole
    <3>4. ~Keeps(r, d)'
      BY <3>1 DEF Keeps, Loading
    <3>5. ~Alive(d)'
      BY <1>5, <2>1, <3>1, <3>2, <3>3, <3>4 DEF Alive
    <3> QED
      BY <1>3, <1>4, <2>1, <3>5 DEF Counted
  <2> QED
    BY <2>3, <2>4
<1>9. CASE ~Posts(r, d) /\ ~Counts(r, d)
  <2>1. posts'[d] = posts[d] /\ hash'[d].attempts = hash[d].attempts
    BY <1>2, <1>9 DEF Turn, Quits, Reads, Marks, Judges, Stumbles, Logs, Unleases, Delists, Lists,
                      Retires, Untouched, Unposted, CountStays
  <2>2. Lost(d) <= Lost(d)'
    BY <1>2, <1>4, <1>9 DEF Turn, Quits, Reads, Marks, Judges, Stumbles, Logs, Unleases, Delists,
                            Lists, Retires
  <2>3. Exposed(r, d) => Exposed(r, d)' \/ Lost(d) + 1 <= Lost(d)'
    <3>1. CASE Quits(r, d) \/ Stumbles(r, d)
      BY <1>4, <3>1 DEF Quits, Stumbles, Exposed, Pending, Settles, Midway
    <3>2. CASE ~Quits(r, d) /\ ~Stumbles(r, d)
      BY <1>2, <1>9, <3>2 DEF Turn, Reads, Marks, Judges, Logs, Unleases, Delists, Lists, Retires,
                              Exposed, Pending, SecondCommand
    <3> QED
      BY <3>1, <3>2
  <2>4. Alive(d)' => Alive(d)
    <3>1. CASE Lists(r, d) \/ Unleases(r, d)
      BY <1>6, <3>1 DEF Lists, Unleases, Alive
    <3>2. CASE ~Lists(r, d) /\ ~Unleases(r, d)
      <4>1. /\ ready'[d] \in {ready[d], NotIn} /\ inflight'[d] = inflight[d]
            /\ Stage(r, d)' # "requeue"
        BY <1>2, <1>9, <3>2 DEF Turn, Quits, Reads, Marks, Judges, Stumbles, Logs, Delists, Retires,
                                Untouched, SetsStay
      <4>2. Keeps(r, d)' => Keeps(r, d)
        BY <1>1, TaskMoves DEF Moves
      <4> QED
        BY <1>5, <4>1, <4>2 DEF Alive
    <3> QED
      BY <3>1, <3>2
  <2>5. posts'[d] <= MaxAttempts + Lost(d)'
    BY <1>3, <1>4, <2>1, <2>2
  <2>6. Counted(d)'
    <3> SUFFICES ASSUME Alive(d)'
                 PROVE  /\ hash'[d].attempts < MaxAttempts
                        /\ posts'[d] <= hash'[d].attempts + Lost(d)' + 1
                        /\ (\A q \in Replicas : ~Exposed(q, d)') =>
                             posts'[d] <= hash'[d].attempts + Lost(d)'
      BY DEF Counted
    <3>1. /\ hash[d].attempts < MaxAttempts
          /\ posts[d] <= hash[d].attempts + Lost(d) + 1
          /\ (\A q \in Replicas : ~Exposed(q, d)) => posts[d] <= hash[d].attempts + Lost(d)
      BY <1>3, <2>4 DEF Counted
    <3>2. (\A q \in Replicas : ~Exposed(q, d)') =>
            (\A q \in Replicas : ~Exposed(q, d)) \/ Lost(d) + 1 <= Lost(d)'
      BY <1>5, <2>3
    <3> QED
      BY <1>4, <2>1, <2>2, <3>1, <3>2
  <2> QED
    BY <2>5, <2>6
<1> QED
  BY <1>7, <1>8, <1>9

LEMMA NumberedInTask ==
  ASSUME Kept, Kept', NEW r \in Replicas, NEW d \in Deliveries, Loaded(d),
         SendStep(r, d) \/ SettleStep(r, d), ~torn[d], ~torn'[d]
  PROVE  Numbered(r, d)'
<1> DEFINE n == tasks[r][d].attempt
<1>1. Typed /\ TypeOK /\ TypeOK'
  BY DEF Kept, Typed
<1>2. Turn(r, d) /\ Only(r, d)
  BY <1>1, TurnOfTask
<1>3. Counted(d) /\ Numbered(r, d)
  BY DEF Loaded
<1>4. /\ posts[d] \in Nat /\ hash[d].attempts \in Nat /\ Lost(d) \in Nat /\ MaxAttempts \in Nat
      /\ Lost(d)' \in Nat /\ n \in Nat
  BY <1>1, LoadNumbers, LostStaysNat
<1> HIDE DEF n
<1>5. CASE Quits(r, d) \/ Counts(r, d) \/ Retires(r, d)
  BY <1>5 DEF Quits, Counts, Retires, Carries, Numbered, Exposed, Pending, Fresh, Loading, Settles,
              Midway
<1>6. CASE Reads(r, d) \/ Marks(r, d)
  <2>1. /\ Fresh(r, d) /\ Stage(r, d)' \in {"loaded", "claimed"}
        /\ posts'[d] = posts[d] /\ hash'[d].attempts = hash[d].attempts /\ Lost(d)' = Lost(d)
    BY <1>6 DEF Reads, Marks, Fresh, Loading, Untouched, CountStays, Unposted
  <2>2. /\ posts[d] <= hash[d].attempts + Lost(d)
        /\ \A q \in Replicas : Pending(q, d) => posts[d] + 1 <= tasks[q][d].attempt + Lost(d)
    BY <1>3, <2>1 DEF Numbered
  <2>3. \A q \in Replicas : Pending(q, d)' => Pending(q, d) /\ tasks'[q][d] = tasks[q][d]
    BY <1>2, <2>1 DEF Only, Pending
  <2>4. tasks'[r][d].attempt <= MaxAttempts /\ posts[d] + 1 <= tasks'[r][d].attempt + Lost(d)
    <3>1. CASE Reads(r, d)
      <4>1. tasks'[r][d].attempt = hash[d].attempts + 1 /\ Keeps(r, d)
        BY <3>1 DEF Reads, Keeps, Loading
      <4>2. hash[d].attempts < MaxAttempts
        BY <1>3, <4>1 DEF Counted, Alive
      <4> QED
        BY <1>4, <2>2, <4>1, <4>2
    <3>2. CASE Marks(r, d)
      <4>1. tasks'[r][d].attempt = tasks[r][d].attempt /\ Stage(r, d) # "leased"
        BY <3>2 DEF Marks, Carries
      <4> QED
        BY <1>3, <2>1, <4>1 DEF Numbered
    <3> QED
      BY <1>6, <3>1, <3>2
  <2>5. ~Exposed(r, d)' /\ Stage(r, d)' # "note" /\ Stage(r, d)' \notin Settles
    BY <2>1 DEF Exposed, Pending, Settles, Midway
  <2> QED
    BY <2>1, <2>2, <2>3, <2>4, <2>5 DEF Numbered
<1>7. CASE Posts(r, d)
  <2>1. /\ Fresh(r, d) /\ Stage(r, d) # "leased" /\ Stage(r, d)' = "posting"
        /\ posts'[d] = posts[d] + 1 /\ tasks'[r][d].attempt = n /\ Lost(d)' = Lost(d)
    BY <1>7 DEF Posts, Fresh, n
  <2>2. posts'[d] <= tasks'[r][d].attempt + Lost(d)'
    BY <1>3, <2>1 DEF Numbered, n
  <2> QED
    BY <2>1, <2>2 DEF Numbered, Fresh, Loading, Settles, Midway
<1>8. CASE Judges(r, d)
  <2>1. /\ Stage(r, d) \in {"queued", "posting", "note"} /\ Stage(r, d)' = "push"
        /\ posts'[d] = posts[d] /\ tasks'[r][d].attempt = n /\ Lost(d)' = Lost(d)
        /\ tasks'[r][d].verdict = "failed_retry" => n < MaxAttempts
    BY <1>8 DEF Judges, Unposted, n
  <2>2. posts[d] <= n + Lost(d)
    <3>1. CASE Stage(r, d) = "queued"
      <4>1. posts[d] + 1 <= n + Lost(d)
        BY <1>3, <3>1 DEF Numbered, Fresh, n
      <4> QED
        BY <1>4, <4>1
    <3>2. CASE Stage(r, d) \in {"posting", "note"}
      BY <1>3, <3>2 DEF Numbered, Exposed, n
    <3> QED
      BY <2>1, <3>1, <3>2
  <2> QED
    BY <2>1, <2>2 DEF Numbered, Fresh, Loading
<1>9. CASE Stumbles(r, d)
  <2>1. /\ Stage(r, d) \in {"queued", "posting", "push", "unlease"} /\ Stage(r, d)' = "note"
        /\ posts'[d] = posts[d] /\ tasks'[r][d].attempt = n /\ Lost(d)' = Lost(d) + 1
    BY <1>9 DEF Stumbles, Settles, Midway, Untouched, Carries, n
  <2>2. posts[d] <= n + Lost(d)
    <3>1. CASE Stage(r, d) = "queued"
      <4>1. posts[d] + 1 <= n + Lost(d)
        BY <1>3, <3>1 DEF Numbered, Fresh, n
      <4> QED
        BY <1>4, <4>1
    <3>2. CASE Stage(r, d) \in {"posting", "push", "unlease"}
      BY <1>3, <3>2 DEF Numbered, Exposed, n
    <3> QED
      BY <2>1, <3>1, <3>2
  <2>3. posts'[d] <= tasks'[r][d].attempt + Lost(d)'
    BY <1>4, <2>1, <2>2
  <2> QED
    BY <2>1, <2>3 DEF Numbered, Fresh, Loading, Settles, Midway
<1>10. CASE Logs(r, d) \/ Unleases(r, d) \/ Delists(r, d) \/ Lists(r, d)
  <2>1. /\ Exposed(r, d) /\ Stage(r, d) \in Settles
        /\ Stage(r, d)' \in {"unlease", "requeue", "unready", "write"}
        /\ posts'[d] = posts[d] /\ tasks'[r][d].attempt = n /\ Lost(d)' = Lost(d)
        /\ tasks'[r][d].verdict = tasks[r][d].verdict
    BY <1>10 DEF Logs, Unleases, Delists, Lists, SecondCommand, Unposted, Exposed, Pending, Settles,
                 Midway, Carries, n
  <2>2. ~Fresh(r, d)'
    BY <2>1 DEF Fresh, Loading
  <2> QED
    BY <1>3, <2>1, <2>2 DEF Numbered, n
<1> QED
  BY <1>2, <1>5, <1>6, <1>7, <1>8, <1>9, <1>10 DEF Turn

LEMMA OthersNumbered ==
  ASSUME Kept, Kept', NEW r \in Replicas, NEW d \in Deliveries, Loaded(d),
         SendStep(r, d) \/ SettleStep(r, d), ~torn[d], ~torn'[d], NEW q \in Replicas \ {r}
  PROVE  Numbered(q, d)'
<1>1. Typed /\ TypeOK /\ TypeOK' /\ Leased(d)
  BY DEF Kept, Typed, Custody
<1>2. Turn(r, d) /\ Only(r, d)
  BY <1>1, TurnOfTask
<1>3. Numbered(q, d) /\ Numbered(r, d)
  BY DEF Loaded
<1>4. /\ posts[d] \in Nat /\ hash[d].attempts \in Nat /\ Lost(d) \in Nat /\ Lost(d)' \in Nat
      /\ \A p \in Replicas : tasks[p][d].attempt \in Nat
  BY <1>1, LoadNumbers, LostStaysNat
<1>5. /\ tasks'[q][d] = tasks[q][d] /\ Stage(q, d)' = Stage(q, d)
      /\ Exposed(q, d)' = Exposed(q, d) /\ Pending(q, d)' = Pending(q, d)
      /\ Fresh(q, d)' = Fresh(q, d)
  BY <1>2 DEF Only, Exposed, Pending, Fresh, Stage
<1>6. \A p \in Replicas :
        Keeps(p, d) <=> Stage(p, d) \in Loading \cup {"queued", "posting", "push", "unlease", "note"}
  BY <1>1, HoldsWhole
<1>7. Lost(d) <= Lost(d)' /\ (posts'[d] = posts[d] \/ Posts(r, d))
  BY <1>2, <1>4 DEF Turn, Quits, Reads, Marks, Posts, Judges, Stumbles, Logs, Unleases, Delists,
                    Lists, Counts, Retires, Untouched, Unposted
<1>8. Exposed(q, d) \/ Stage(q, d) = "note" => posts'[d] <= tasks[q][d].attempt + Lost(d)'
  <2>1. CASE posts'[d] = posts[d]
    BY <1>3, <1>4, <1>7, <2>1 DEF Numbered
  <2>2. CASE Posts(r, d)
    <3>1. Keeps(r, d) /\ Fresh(r, d) /\ posts'[d] = posts[d] + 1 /\ Lost(d)' = Lost(d)
      BY <1>6, <2>2 DEF Posts, Fresh
    <3>2. ~Keeps(q, d)
      BY <1>1, <3>1 DEF Leased, Holds
    <3>3. Pending(q, d) => posts[d] + 1 <= tasks[q][d].attempt + Lost(d)
      BY <1>3, <3>1 DEF Numbered
    <3>4. Exposed(q, d) \/ Stage(q, d) = "note" => Pending(q, d)
      BY <1>6, <3>2 DEF Exposed
    <3> QED
      BY <3>1, <3>3, <3>4
  <2> QED
    BY <1>7, <2>1, <2>2
<1>9. ASSUME Fresh(q, d)
      PROVE  /\ posts'[d] <= hash'[d].attempts + Lost(d)'
             /\ \A p \in Replicas : Pending(p, d)' => posts'[d] + 1 <= tasks'[p][d].attempt + Lost(d)'
             /\ Stage(q, d) # "leased" =>
                  tasks[q][d].attempt <= MaxAttempts /\ posts'[d] + 1 <= tasks[q][d].attempt + Lost(d)'
  <2>1. Keeps(q, d)
    BY <1>6, <1>9 DEF Fresh
  <2>2. ~Keeps(r, d) /\ ~Closing(r, d)
    BY <1>1, <2>1 DEF Leased, Holds
  <2>3. Stage(r, d) \in {"none", "landed", "write"}
    BY <1>1, <2>2, HoldsWhole DEF Stages, Sending, Midway
  <2>4. Quits(r, d) \/ Counts(r, d)
    BY <1>2, <2>3 DEF Turn, Reads, Marks, Posts, Judges, Stumbles, Logs, Unleases, Delists,
                      Lists, Retires, Settles, Midway
  <2>5. posts'[d] = posts[d] /\ ~Pending(r, d)'
    BY <2>4 DEF Quits, Counts, Unposted, Pending
  <2>6. /\ posts[d] <= hash[d].attempts + Lost(d)
        /\ \A p \in Replicas : Pending(p, d) => posts[d] + 1 <= tasks[p][d].attempt + Lost(d)
        /\ Stage(q, d) # "leased" =>
             tasks[q][d].attempt <= MaxAttempts /\ posts[d] + 1 <= tasks[q][d].attempt + Lost(d)
    BY <1>3, <1>9 DEF Numbered
  <2>7. posts'[d] <= hash'[d].attempts + Lost(d)'
    <3>1. CASE Quits(r, d)
      BY <1>4, <1>7, <2>5, <2>6, <3>1 DEF Quits
    <3>2. CASE Counts(r, d)
      <4>1. hash'[d].attempts = tasks[r][d].attempt /\ Lost(d)' = Lost(d) /\ Pending(r, d)
        BY <3>2 DEF Counts, Pending
      <4> QED
        BY <1>4, <2>5, <2>6, <4>1
    <3> QED
      BY <2>4, <3>1, <3>2
  <2>8. \A p \in Replicas : Pending(p, d)' => Pending(p, d) /\ tasks'[p][d] = tasks[p][d]
    BY <1>2, <2>5 DEF Only, Pending
  <2>9. \A p \in Replicas : Pending(p, d)' => posts'[d] + 1 <= tasks'[p][d].attempt + Lost(d)'
    BY <1>4, <1>7, <2>5, <2>6, <2>8
  <2> QED
    BY <1>4, <1>7, <2>5, <2>6, <2>7, <2>9
<1>10. Stage(q, d) \in Settles /\ tasks[q][d].verdict = "failed_retry" => tasks[q][d].attempt < MaxAttempts
  BY <1>3 DEF Numbered
<1> QED
  BY <1>5, <1>8, <1>9, <1>10 DEF Numbered

LEMMA LoadedInTask ==
  ASSUME Kept, Kept', NEW r \in Replicas, NEW d \in Deliveries, Loaded(d),
         SendStep(r, d) \/ SettleStep(r, d)
  PROVE  Loaded(d)'
<1>1. Typed /\ Known(d)
  BY DEF Kept, Custody
<1>2. Only(r, d) /\ Moves(r, d)
  BY <1>1, TurnOfTask, TaskMoves
<1>3. producer'[d] = "done"
  BY <1>1, <1>2 DEF Known, Moves, Only
<1> SUFFICES ASSUME ~torn'[d]
             PROVE  /\ posts'[d] <= MaxAttempts + Lost(d)' /\ Counted(d)'
                    /\ \A q \in Replicas : Numbered(q, d)'
  BY <1>3 DEF Loaded
<1>4. ~torn[d]
  BY <1>2 DEF Only
<1> QED
  BY <1>4, CountedInTask, NumberedInTask, OthersNumbered

Bounded == Ordered /\ \A d \in Deliveries : Loaded(d)

LEMMA BoundedInit == Init => Bounded
<1> SUFFICES ASSUME Init PROVE Bounded
  OBVIOUS
<1>1. \A r \in Replicas, d \in Deliveries :
        ~Keeps(r, d) /\ Stage(r, d) = "none"
  BY DEF Init, Stage, NoTask, Keeps, Loading
<1>2. \A d \in Deliveries :
        /\ posts[d] = 0 /\ Lost(d) = 0 /\ ready[d] = NotIn /\ inflight[d] = NotIn
  BY DEF Init, Lost
<1>3. \A d \in Deliveries : Counted(d) /\ \A r \in Replicas : Numbered(r, d)
  BY <1>1, <1>2 DEF Counted, Alive, Numbered, Exposed, Pending, Fresh, Settles, Midway, Loading
<1>4. 0 <= MaxAttempts + 0
  BY PolicyAssumption
<1> QED
  BY <1>2, <1>3, <1>4, OrderedInit DEF Bounded, Loaded

LEMMA BoundedStep == SafeDeployment /\ Bounded /\ [Next]_vars => Bounded'
<1> SUFFICES ASSUME SafeDeployment, Bounded, [Next]_vars PROVE Bounded'
  OBVIOUS
<1>1. Ordered /\ Ordered'
  BY OrderedStep DEF Bounded
<1>2. ASSUME NEW d \in Deliveries PROVE Loaded(d)'
  BY <1>1, Seen, LoadedAside, LoadedReclaimed, LoadedClaimed, LoadedProduced, LoadedInTask
     DEF Bounded, Ordered
<1> QED
  BY <1>1, <1>2 DEF Bounded

(* A receiver gets max_attempts POSTs of a delivery, and one more for each *)
(* exception, each crash and each claim that overtook a pipeline, as long  *)
(* as no pipeline of it was cut: send posts before it counts, and whatever *)
(* makes it forget a POST is one of these.                                 *)
THEOREM ReceiverIsSpared == SafeDeployment /\ Spec => []ReceiverLoadBounded
<1>1. Bounded => ReceiverLoadBounded
  <2> SUFFICES ASSUME Bounded, NEW d \in Deliveries, ~torn[d]
               PROVE  posts[d] <= MaxAttempts + faults + stops + overtaken[d]
    BY DEF ReceiverLoadBounded
  <2>1. posts[d] <= MaxAttempts + (faults + stops + overtaken[d])
    BY DEF Bounded, Loaded, Lost
  <2>2. /\ posts[d] \in Nat /\ faults \in Nat /\ stops \in Nat /\ overtaken[d] \in Nat
        /\ MaxAttempts \in Nat
    BY PolicyAssumption DEF Bounded, Ordered, Kept, Typed, TypeOK
  <2> QED
    BY <2>1, <2>2
<1>2. CASE SafeDeployment
  <2>1. Bounded /\ [Next]_vars => Bounded'
    BY <1>2, BoundedStep
  <2> QED
    BY <1>1, <2>1, BoundedInit, PTL DEF Spec
<1> QED
  BY <1>2

-------------------------------------------------------------------------------
(* The attempt list and the counter.  A claim that overtakes a pipeline    *)
(* numbers its attempt from a counter that is still to move, so that the   *)
(* numbers under way spread out, by one with each such claim.              *)

(* The counter, and what the pipelines under way are going to make it.     *)
Numbers(d) ==
  {hash[d].attempts} \cup {tasks[q][d].attempt : q \in {p \in Replicas : Pending(p, d)}}

Latest(d) == IF atts[d] = <<>> THEN 0 ELSE atts[d][1]

Ahead(d) ==
  \A x \in Numbers(d) : x <= Latest(d) + overtaken[d] /\ (x > 0 => atts[d] # <<>>)

Apart(d) == \A x, y \in Numbers(d) : x <= y + overtaken[d] + 1

(* The one task that can start a pipeline is no further off.               *)
Near(r, d) ==
  Keeps(r, d) =>
    /\ \A x, y \in Numbers(d) : x <= y + overtaken[d]
    /\ Stage(r, d) # "leased" =>
         \A x \in Numbers(d) : /\ tasks[r][d].attempt <= x + overtaken[d] + 1
                               /\ x + 1 <= tasks[r][d].attempt + overtaken[d]
    /\ Stage(r, d) = "unlease" => Latest(d) = tasks[r][d].attempt

Spread(d) == ~torn[d] => Ahead(d) /\ Apart(d) /\ \A r \in Replicas : Near(r, d)

(* Tasks that are not done do not outlive HoldBound, nor the hash.         *)
Busy(r, d) == Stage(r, d) \notin {"none", "landed"}

Lasting(d) ==
  ~torn[d] =>
    \A r \in Replicas : Busy(r, d) =>
      /\ clock <= tasks[r][d].since + HoldBound
      /\ hash[d].expires # Never =>
           ~SingleReplica /\ tasks[r][d].since + Retention <= hash[d].expires

LEMMA SpreadNumbers ==
  ASSUME TypeOK, NEW d \in Deliveries
  PROVE  /\ Numbers(d) \subseteq Nat /\ hash[d].attempts \in Numbers(d) /\ overtaken[d] \in Nat
         /\ Latest(d) \in Nat
         /\ \A r \in Replicas : tasks[r][d] \in Task /\ tasks[r][d].attempt \in Nat
<1>1. /\ hash[d].attempts \in Nat /\ overtaken[d] \in Nat
      /\ \A r \in Replicas : tasks[r][d] \in Task /\ tasks[r][d].attempt \in Nat
  BY DEF TypeOK, Hash, Task
<1>2. atts[d] \in Seq(Nat)
  BY DEF TypeOK
<1>3. Latest(d) \in Nat
  BY <1>2 DEF Latest
<1> QED
  BY <1>1, <1>3 DEF Numbers

(* What brings no new number, and nothing newer to the list.               *)
LEMMA SpreadStays ==
  ASSUME TypeOK, NEW d \in Deliveries, Spread(d), torn[d] => torn'[d],
         ~torn'[d] => Numbers(d)' \subseteq Numbers(d),
         overtaken'[d] = overtaken[d], atts'[d] = atts[d],
         ~torn'[d] => \A r \in Replicas : Keeps(r, d)' =>
           /\ Keeps(r, d)
           /\ Stage(r, d)' # "leased" =>
                Stage(r, d) # "leased" /\ tasks'[r][d].attempt = tasks[r][d].attempt
           /\ Stage(r, d)' = "unlease" => Stage(r, d) = "unlease"
  PROVE  Spread(d)'
<1> SUFFICES ASSUME ~torn'[d] PROVE Ahead(d)' /\ Apart(d)' /\ \A r \in Replicas : Near(r, d)'
  BY DEF Spread
<1>1. Ahead(d) /\ Apart(d) /\ Numbers(d)' \subseteq Numbers(d) /\ Latest(d)' = Latest(d)
  BY DEF Spread, Latest
<1>2. Ahead(d)' /\ Apart(d)'
  BY <1>1 DEF Ahead, Apart
<1>3. ASSUME NEW r \in Replicas PROVE Near(r, d)'
  <2>1. Near(r, d)
    BY DEF Spread
  <2> QED
    BY <1>1, <2>1 DEF Near
<1> QED
  BY <1>2, <1>3

LEMMA SpreadAside ==
  ASSUME Kept, NEW d \in Deliveries, Spread(d), Aside(d)
  PROVE  Spread(d)'
<1>1. TypeOK
  BY DEF Kept, Typed
<1>2. /\ torn[d] => torn'[d]
      /\ overtaken'[d] = overtaken[d] /\ atts'[d] = atts[d] /\ hash'[d] = hash[d]
  BY DEF Aside, Untouched
<1>3. ASSUME NEW q \in Replicas, ~torn'[d]
      PROVE  /\ Pending(q, d)' => Pending(q, d) /\ tasks'[q][d] = tasks[q][d]
             /\ Keeps(q, d)' =>
                  /\ Keeps(q, d)
                  /\ Stage(q, d)' # "leased" =>
                       Stage(q, d) # "leased" /\ tasks'[q][d].attempt = tasks[q][d].attempt
                  /\ Stage(q, d)' = "unlease" => Stage(q, d) = "unlease"
  <2>1. CASE tasks'[q][d] = tasks[q][d]
    BY <1>2, <1>3, <2>1 DEF Pending, Keeps, Stage
  <2>2. CASE Stage(q, d)' = "none"
    BY <2>2 DEF Pending, Keeps, Loading
  <2>3. CASE Stage(q, d) = "claimed" /\ tasks'[q][d] = [tasks[q][d] EXCEPT !.stage = "queued"]
    <3>1. tasks[q][d] \in Task
      BY <1>1, SpreadNumbers
    <3>2. Stage(q, d)' = "queued" /\ tasks'[q][d].attempt = tasks[q][d].attempt
      BY <2>3, <3>1 DEF Task, Stage
    <3> QED
      BY <2>3, <3>2 DEF Pending, Keeps, Loading
  <2> QED
    BY <2>1, <2>2, <2>3 DEF Aside, Fades
<1>4. ~torn'[d] => Numbers(d)' \subseteq Numbers(d)
  BY <1>2, <1>3 DEF Numbers
<1> QED
  BY <1>1, <1>2, <1>3, <1>4, SpreadStays

LEMMA SpreadMoved ==
  ASSUME Kept, NEW d \in Deliveries, Spread(d), Reclaimed(d) \/ Claimed(d)
  PROVE  Spread(d)'
<1>1. TypeOK
  BY DEF Kept, Typed
<1>2. atts'[d] = atts[d] /\ hash'[d] = hash[d] /\ torn'[d] = torn[d]
  BY DEF Reclaimed, Claimed
<1>3. CASE Reclaimed(d)
  <2>1. overtaken'[d] = overtaken[d] /\ \A q \in Replicas : tasks'[q][d] = tasks[q][d]
    BY <1>3 DEF Reclaimed
  <2>2. Numbers(d)' \subseteq Numbers(d)
    BY <1>2, <2>1 DEF Numbers, Pending, Stage
  <2>3. \A q \in Replicas : Keeps(q, d)' = Keeps(q, d) /\ Stage(q, d)' = Stage(q, d)
    BY <1>2, <2>1 DEF Keeps, Stage
  <2> QED
    BY <1>1, <1>2, <2>1, <2>2, <2>3, SpreadStays
<1>4. CASE Claimed(d)
  <2> SUFFICES ASSUME ~torn[d] PROVE Ahead(d)' /\ Apart(d)' /\ \A r \in Replicas : Near(r, d)'
    BY <1>2 DEF Spread
  <2>1. Ahead(d) /\ Apart(d)
    BY DEF Spread
  <2>2. PICK r \in Replicas :
          /\ Stage(r, d) = "none" /\ Stage(r, d)' \in {"none", "leased"}
          /\ \A q \in Replicas \ {r} : tasks'[q][d] = tasks[q][d] /\ Stage(q, d)' = Stage(q, d)
    BY <1>4 DEF Claimed, Stage
  <2>3. Numbers(d)' \subseteq Numbers(d) /\ Latest(d)' = Latest(d)
    BY <1>2, <2>2 DEF Numbers, Pending, Latest
  <2>4. /\ Numbers(d) \subseteq Nat /\ overtaken[d] \in Nat /\ Latest(d) \in Nat
        /\ overtaken'[d] \in {overtaken[d], overtaken[d] + 1}
    BY <1>1, <1>4, SpreadNumbers DEF Claimed
  <2>5. \A x, y \in Numbers(d) : x <= y + overtaken'[d]
    <3>1. CASE \E q \in Replicas : Stage(q, d) \in Midway
      <4>1. overtaken'[d] = overtaken[d] + 1
        BY <1>4, <3>1 DEF Claimed
      <4>2. \A x, y \in Numbers(d) : x <= y + overtaken[d] + 1
        BY <2>1 DEF Apart
      <4> QED
        BY <2>4, <4>1, <4>2
    <3>2. CASE \A q \in Replicas : Stage(q, d) \notin Midway
      <4>1. \A x \in Numbers(d) : x = hash[d].attempts
        BY <3>2 DEF Numbers, Pending, Midway
      <4> QED
        BY <2>4, <4>1
    <3> QED
      BY <3>1, <3>2
  <2>6. Ahead(d)'
    <3>1. \A x \in Numbers(d) : x <= Latest(d) + overtaken'[d] /\ (x > 0 => atts[d] # <<>>)
      BY <2>1, <2>4 DEF Ahead
    <3> QED
      BY <1>2, <2>3, <3>1 DEF Ahead
  <2>7. Apart(d)'
    <3>1. \A x, y \in Numbers(d) : x <= y + overtaken'[d] + 1
      BY <2>4, <2>5
    <3> QED
      BY <2>3, <3>1 DEF Apart
  <2>8. ASSUME NEW q \in Replicas PROVE Near(q, d)'
    <3>1. ~Holds(q, d)
      BY <1>4, OneHolder DEF Claimed
    <3>2. Keeps(q, d)' => Stage(q, d)' = "leased"
      BY <1>2, <2>2, <3>1 DEF Holds, Keeps, Loading
    <3> QED
      BY <2>3, <2>5, <3>2 DEF Near
  <2> QED
    BY <2>6, <2>7, <2>8
<1> QED
  BY <1>3, <1>4

(* A hash that expires takes its attempt list along, and no pipeline of it *)
(* is under way any more: the tasks that could be are of the time before   *)
(* the time to live was set.                                               *)
Outlasting == SingleReplica \/ HoldBound < Retention

LEMMA SpreadProduced ==
  ASSUME Outlasting, Kept, NEW d \in Deliveries, Orderly(d), Spread(d), Lasting(d),
         EnqueueHash(d) \/ EnqueueReady(d) \/ Expire(d)
  PROVE  Spread(d)'
<1>1. TypeOK /\ Known(d)
  BY DEF Kept, Typed, Custody
<1>2. UNCHANGED <<tasks, torn, overtaken, clock>>
  BY DEF EnqueueHash, EnqueueReady, Expire, history
<1>3. \A q \in Replicas :
        /\ tasks'[q][d] = tasks[q][d] /\ Stage(q, d)' = Stage(q, d)
        /\ Keeps(q, d)' = Keeps(q, d) /\ Pending(q, d)' = Pending(q, d)
  BY <1>2 DEF Stage, Keeps, Pending
<1>4. ASSUME \A q \in Replicas : ~Busy(q, d), hash'[d].attempts = 0
      PROVE  Spread(d)'
  <2>1. \A q \in Replicas : ~Pending(q, d)' /\ (Keeps(q, d)' => torn'[d])
    BY <1>2, <1>3, <1>4 DEF Busy, Pending, Keeps, Loading
  <2>2. Numbers(d)' = {0}
    BY <1>4, <2>1 DEF Numbers
  <2>3. overtaken'[d] \in Nat
    BY <1>1, <1>2, SpreadNumbers
  <2>4. Latest(d)' \in Nat
    <3>1. atts'[d] = atts[d] \/ atts'[d] = <<>>
      BY <1>1 DEF EnqueueHash, EnqueueReady, Expire, TypeOK
    <3> QED
      BY <1>1, <3>1, SpreadNumbers DEF Latest
  <2> QED
    BY <2>1, <2>2, <2>3, <2>4 DEF Spread, Ahead, Apart, Near
<1>5. CASE EnqueueHash(d)
  <2>1. hash'[d] = [NoHash EXCEPT !.status = "pending", !.fireAt = clock]
    BY <1>1, <1>5 DEF EnqueueHash, TypeOK
  <2>2. hash'[d].attempts = 0
    BY <2>1 DEF NoHash
  <2>3. \A q \in Replicas : ~Busy(q, d)
    BY <1>1, <1>5 DEF Known, EnqueueHash, Busy
  <2> QED
    BY <1>4, <2>2, <2>3
<1>6. CASE EnqueueReady(d)
  <2>1. UNCHANGED <<hash, atts>>
    BY <1>6 DEF EnqueueReady
  <2>2. Numbers(d)' \subseteq Numbers(d)
    BY <1>3, <2>1 DEF Numbers
  <2> QED
    BY <1>1, <1>2, <1>3, <2>1, <2>2, SpreadStays
<1>7. CASE Expire(d)
  <2>1. /\ hash'[d].attempts = 0
        /\ hash[d].expires # Never /\ hash[d].expires <= clock
    BY <1>1, <1>7 DEF Expire, NoHash, TypeOK
  <2>2. CASE torn[d]
    BY <1>2, <2>2 DEF Spread
  <2>3. CASE ~torn[d]
    <3>1. ASSUME NEW q \in Replicas, Busy(q, d) PROVE FALSE
      <4>1. /\ clock <= tasks[q][d].since + HoldBound
            /\ ~SingleReplica /\ tasks[q][d].since + Retention <= hash[d].expires
        BY <2>1, <2>3, <3>1 DEF Lasting
      <4>2. /\ clock \in Nat /\ tasks[q][d].since \in Nat /\ hash[d].expires \in Nat
            /\ HoldBound \in Nat /\ Retention \in Nat
        BY <1>1, RedisAssumption DEF TypeOK, Task, Hash
      <4>3. HoldBound < Retention
        BY <4>1 DEF Outlasting
      <4> QED
        BY <2>1, <4>1, <4>2, <4>3
    <3> QED
      BY <1>4, <2>1, <3>1
  <2> QED
    BY <2>2, <2>3
<1> QED
  BY <1>5, <1>6, <1>7

(* Steps of a task that neither log, nor read the counter, nor start a     *)
(* pipeline.                                                               *)
LEMMA SpreadCarried ==
  ASSUME Kept, NEW r \in Replicas, NEW d \in Deliveries, Spread(d), Only(r, d),
         ~torn[d], ~torn'[d], Unlogged(d),
         \/ Quits(r, d) \/ Marks(r, d) \/ Posts(r, d) \/ Judges(r, d) \/ Stumbles(r, d)
         \/ Delists(r, d) \/ Lists(r, d) \/ Counts(r, d) \/ Retires(r, d)
  PROVE  Spread(d)'
<1>1. Typed /\ TypeOK
  BY DEF Kept, Typed
<1>2. \A q \in Replicas \ {r} :
        /\ tasks'[q][d] = tasks[q][d] /\ Stage(q, d)' = Stage(q, d)
        /\ Keeps(q, d)' = Keeps(q, d) /\ Pending(q, d)' = Pending(q, d)
  BY DEF Only, Keeps, Pending
<1>3. /\ Pending(r, d)' => Pending(r, d) /\ tasks'[r][d].attempt = tasks[r][d].attempt
      /\ hash'[d].attempts = hash[d].attempts
           \/ (Pending(r, d) /\ hash'[d].attempts = tasks[r][d].attempt)
  BY DEF Quits, Marks, Posts, Judges, Stumbles, Delists, Lists, Counts, Retires, Pending, CountStays,
         Untouched, Carries
<1>4. Numbers(d)' \subseteq Numbers(d)
  <2> SUFFICES ASSUME NEW x \in Numbers(d)' PROVE x \in Numbers(d)
    OBVIOUS
  <2>1. \/ x = hash'[d].attempts
        \/ \E q \in Replicas : Pending(q, d)' /\ x = tasks'[q][d].attempt
    BY DEF Numbers
  <2>2. \A q \in Replicas : Pending(q, d)' => Pending(q, d) /\ tasks'[q][d].attempt = tasks[q][d].attempt
    BY <1>2, <1>3
  <2> QED
    BY <1>3, <2>1, <2>2 DEF Numbers
<1>5. \A q \in Replicas :
        Keeps(q, d) <=> Stage(q, d) \in Loading \cup {"queued", "posting", "push", "unlease", "note"}
  BY <1>1, HoldsWhole
<1>6. Keeps(r, d)' =>
        /\ Keeps(r, d) /\ Stage(r, d) # "leased" /\ tasks'[r][d].attempt = tasks[r][d].attempt
        /\ Stage(r, d)' # "unlease"
  <2>1. Stage(r, d)' \notin {"none", "landed", "write", "expire"} =>
          /\ Stage(r, d) \in {"loaded", "queued", "posting", "note", "push", "unlease"}
          /\ tasks'[r][d].attempt = tasks[r][d].attempt /\ Stage(r, d)' # "unlease"
    BY DEF Quits, Marks, Posts, Judges, Stumbles, Delists, Lists, Counts, Retires, Carries, Settles,
           Midway
  <2> QED
    BY <1>5, <2>1 DEF Keeps, Loading
<1> QED
  BY <1>1, <1>2, <1>4, <1>6, SpreadStays DEF Only, Unlogged

LEMMA SpreadInTask ==
  ASSUME Kept, NEW r \in Replicas, NEW d \in Deliveries, Spread(d),
         SendStep(r, d) \/ SettleStep(r, d)
  PROVE  Spread(d)'
<1> DEFINE n == tasks[r][d].attempt
<1>1. Typed /\ TypeOK /\ Leased(d)
  BY DEF Kept, Typed, Custody
<1>2. Turn(r, d) /\ Only(r, d)
  BY <1>1, TurnOfTask
<1> SUFFICES ASSUME ~torn'[d] PROVE Spread(d)'
  BY DEF Spread
<1>3. ~torn[d] /\ overtaken'[d] = overtaken[d]
  BY <1>2 DEF Only
<1>4. Ahead(d) /\ Apart(d) /\ \A q \in Replicas : Near(q, d)
  BY <1>3 DEF Spread
<1>5. /\ Numbers(d) \subseteq Nat /\ hash[d].attempts \in Numbers(d) /\ overtaken[d] \in Nat
      /\ Latest(d) \in Nat /\ n \in Nat /\ atts[d] \in Seq(Nat)
  BY <1>1, SpreadNumbers DEF TypeOK
<1> HIDE DEF n
<1>6. \A q \in Replicas :
        Keeps(q, d) <=> Stage(q, d) \in Loading \cup {"queued", "posting", "push", "unlease", "note"}
  BY <1>1, <1>3, HoldsWhole
<1>7. \A q \in Replicas \ {r} :
        /\ tasks'[q][d] = tasks[q][d] /\ Stage(q, d)' = Stage(q, d)
        /\ Keeps(q, d)' = Keeps(q, d) /\ Pending(q, d)' = Pending(q, d)
  BY <1>2, <1>3 DEF Only, Keeps, Pending
<1>8. Keeps(r, d) => \A q \in Replicas \ {r} : ~Keeps(q, d)'
  BY <1>1, <1>7 DEF Leased, Holds
<1>9. Logged(r, d) => Latest(d)' = n /\ atts'[d] # <<>>
  <2>1. Pushed(atts[d], n) # <<>> /\ Pushed(atts[d], n)[1] = n
    BY <1>5, PushedIsSeq
  <2> QED
    BY <2>1 DEF Logged, Latest, n
(* The list gets the number of the task that keeps the delivery.           *)
<1>10. ASSUME Keeps(r, d), Stage(r, d) # "leased", Logged(r, d),
              hash'[d] = hash[d], ~Pending(r, d)',
              Keeps(r, d)' => tasks'[r][d].attempt = n
       PROVE  Spread(d)'
  <2>1. Numbers(d)' \subseteq Numbers(d)
    BY <1>7, <1>10 DEF Numbers
  <2>2. /\ \A x, y \in Numbers(d) : x <= y + overtaken[d]
        /\ \A x \in Numbers(d) : n <= x + overtaken[d] + 1 /\ x + 1 <= n + overtaken[d]
    BY <1>4, <1>10 DEF Near, n
  <2>3. Ahead(d)'
    <3>1. \A x \in Numbers(d) : x <= n + overtaken[d]
      BY <1>5, <2>2
    <3> QED
      BY <1>3, <1>9, <1>10, <2>1, <3>1 DEF Ahead
  <2>4. Apart(d)'
    BY <1>3, <1>4, <2>1 DEF Apart
  <2>5. Near(r, d)'
    BY <1>3, <1>9, <1>10, <2>1, <2>2 DEF Near
  <2> QED
    BY <1>8, <1>10, <2>3, <2>4, <2>5 DEF Spread, Near
<1>11. CASE Unlogged(d) /\ ~Reads(r, d) /\ ~Unleases(r, d) /\ ~Logs(r, d)
  BY <1>2, <1>3, <1>11, SpreadCarried DEF Turn
<1>12. CASE Logs(r, d) \/ (Stage(r, d) = "note" /\ Logged(r, d) /\ (Quits(r, d) \/ Judges(r, d)))
  <2>1. /\ Stage(r, d) \in {"push", "note"} /\ Logged(r, d) /\ hash'[d] = hash[d]
        /\ Stage(r, d)' \in {"none", "push", "unlease"}
        /\ Stage(r, d)' # "none" => tasks'[r][d].attempt = n
    BY <1>12 DEF Logs, Quits, Judges, Carries, n
  <2>2. Keeps(r, d) /\ Stage(r, d) # "leased" /\ ~Pending(r, d)'
    BY <1>6, <2>1 DEF Pending
  <2>3. Keeps(r, d)' => tasks'[r][d].attempt = n
    BY <2>1 DEF Keeps, Loading
  <2> QED
    BY <1>10, <2>1, <2>2, <2>3
<1>13. CASE Reads(r, d)
  <2>1. /\ Keeps(r, d) /\ tasks'[r][d].attempt = hash[d].attempts + 1 /\ hash'[d] = hash[d]
        /\ Latest(d)' = Latest(d) /\ atts'[d] = atts[d] /\ ~Pending(r, d)' /\ Stage(r, d)' = "loaded"
    BY <1>6, <1>13 DEF Reads, Untouched, Latest, Pending, Loading
  <2>2. Numbers(d)' \subseteq Numbers(d)
    BY <1>7, <2>1 DEF Numbers
  <2>3. \A x, y \in Numbers(d) : x <= y + overtaken[d]
    BY <1>4, <2>1 DEF Near
  <2>4. \A x \in Numbers(d) : /\ hash[d].attempts + 1 <= x + overtaken[d] + 1
                              /\ x + 1 <= hash[d].attempts + 1 + overtaken[d]
    <3> TAKE x \in Numbers(d)
    <3>1. hash[d].attempts <= x + overtaken[d] /\ x <= hash[d].attempts + overtaken[d]
      BY <1>5, <2>3
    <3> QED
      BY <1>5, <3>1
  <2>5. Near(r, d)'
    BY <1>3, <2>1, <2>2, <2>3, <2>4 DEF Near
  <2>6. Ahead(d)' /\ Apart(d)'
    BY <1>3, <1>4, <2>1, <2>2 DEF Ahead, Apart
  <2> QED
    BY <1>8, <2>1, <2>5, <2>6 DEF Spread, Near
<1>14. CASE Unleases(r, d)
  <2>1. /\ Keeps(r, d) /\ Stage(r, d) = "unlease" /\ hash'[d] = hash[d]
        /\ tasks'[r][d].attempt = n /\ atts'[d] = atts[d] /\ Latest(d)' = Latest(d)
        /\ Stage(r, d)' \in {"unready", "requeue"}
    BY <1>6, <1>14 DEF Unleases, Unlogged, Latest, Carries, SecondCommand, n
  <2>2. /\ \A x, y \in Numbers(d) : x <= y + overtaken[d]
        /\ \A x \in Numbers(d) : n <= x + overtaken[d] + 1 /\ x + 1 <= n + overtaken[d]
        /\ Latest(d) = n
    BY <1>4, <2>1 DEF Near, n
  <2>3. Numbers(d)' \subseteq Numbers(d) \cup {n}
    <3> SUFFICES ASSUME NEW x \in Numbers(d)' PROVE x \in Numbers(d) \cup {n}
      OBVIOUS
    <3>1. \/ x = hash[d].attempts
          \/ \E q \in Replicas : Pending(q, d)' /\ x = tasks'[q][d].attempt
      BY <2>1 DEF Numbers
    <3> QED
      BY <1>7, <2>1, <3>1 DEF Numbers
  <2>4. Ahead(d)'
    <3>1. \A x \in Numbers(d) \cup {n} : x <= Latest(d) + overtaken[d]
      BY <1>4, <1>5, <2>2 DEF Ahead
    <3>2. \A x \in Numbers(d) \cup {n} : x > 0 => atts[d] # <<>>
      BY <1>4, <1>5, <2>2 DEF Ahead, Latest
    <3> QED
      BY <1>3, <2>1, <2>3, <3>1, <3>2 DEF Ahead
  <2>5. Apart(d)'
    <3>1. \A x, y \in Numbers(d) \cup {n} : x <= y + overtaken[d] + 1
      <4>1. \A x \in Numbers(d) : n <= x + overtaken[d] + 1 /\ x <= n + overtaken[d] + 1
        BY <1>5, <2>2
      <4>2. \A x, y \in Numbers(d) : x <= y + overtaken[d] + 1
        BY <1>4 DEF Apart
      <4>3. n <= n + overtaken[d] + 1
        BY <1>5
      <4> QED
        BY <4>1, <4>2, <4>3
    <3> QED
      BY <1>3, <2>3, <3>1 DEF Apart
  <2>6. ~Keeps(r, d)'
    BY <2>1 DEF Keeps, Loading
  <2> QED
    BY <1>8, <2>1, <2>4, <2>5, <2>6 DEF Spread, Near
<1>15. Unlogged(d) \/ Logs(r, d) \/ (Stage(r, d) = "note" /\ Logged(r, d) /\ (Quits(r, d) \/ Judges(r, d)))
  BY <1>2 DEF Turn, Quits, Reads, Marks, Posts, Judges, Stumbles, Unleases, Delists, Lists, Counts,
              Retires, Untouched, Unlogged
<1> QED
  BY <1>11, <1>12, <1>13, <1>14, <1>15

LEMMA LastingElsewhere ==
  ASSUME Kept, NEW d \in Deliveries, Lasting(d), Aside(d) \/ Reclaimed(d) \/ Claimed(d)
  PROVE  Lasting(d)'
<1>1. TypeOK /\ Known(d)
  BY DEF Kept, Typed, Custody
<1>2. hash'[d] = hash[d] /\ (torn[d] => torn'[d])
  BY DEF Aside, Untouched, Reclaimed, Claimed
<1> SUFFICES ASSUME ~torn'[d], NEW q \in Replicas, Busy(q, d)'
             PROVE  /\ clock' <= tasks'[q][d].since + HoldBound
                    /\ hash'[d].expires # Never =>
                         ~SingleReplica /\ tasks'[q][d].since + Retention <= hash'[d].expires
  BY DEF Lasting
<1>3. /\ Busy(q, d) => clock <= tasks[q][d].since + HoldBound
      /\ Busy(q, d) /\ hash[d].expires # Never =>
           ~SingleReplica /\ tasks[q][d].since + Retention <= hash[d].expires
  BY <1>2 DEF Lasting
<1>4. /\ clock \in Nat /\ HoldBound \in Nat /\ tasks[q][d] \in Task /\ tasks[q][d].since \in Nat
  BY <1>1, RedisAssumption DEF TypeOK, Task
<1>5. CASE Aside(d)
  <2>1. Busy(q, d) /\ tasks'[q][d].since = tasks[q][d].since
    <3>1. CASE tasks'[q][d] = tasks[q][d]
      BY <3>1 DEF Busy, Stage
    <3>2. CASE Stage(q, d) = "claimed" /\ tasks'[q][d] = [tasks[q][d] EXCEPT !.stage = "queued"]
      BY <1>4, <3>2 DEF Busy, Stage, Task
    <3> QED
      BY <1>5, <3>1, <3>2 DEF Aside, Fades, Busy
  <2>2. clock' = clock \/ (clock' = clock + 1 /\ clock < tasks[q][d].since + HoldBound)
    BY <1>5, <2>1 DEF Aside, Busy, WithinHold
  <2>3. clock' <= tasks[q][d].since + HoldBound
    BY <1>3, <1>4, <2>1, <2>2
  <2> QED
    BY <1>2, <1>3, <2>1, <2>3
<1>6. CASE Reclaimed(d)
  <2>1. tasks'[q][d] = tasks[q][d] /\ clock' = clock
    BY <1>6 DEF Reclaimed
  <2> QED
    BY <1>2, <1>3, <2>1 DEF Busy, Stage
<1>7. CASE Claimed(d)
  <2>1. clock' = clock /\ hash[d].expires = Never
    BY <1>1, <1>2, <1>7 DEF Claimed, Known
  <2>2. tasks'[q][d] = tasks[q][d] \/ clock <= tasks'[q][d].since + HoldBound
    <3>1. PICK r \in Replicas :
            /\ \/ Stage(r, d)' = "none"
               \/ /\ Stage(r, d)' = "leased"
                  /\ tasks'[r][d].since <= clock /\ clock <= tasks'[r][d].since + HoldBound
            /\ \A p \in Replicas \ {r} : tasks'[p][d] = tasks[p][d]
      BY <1>7 DEF Claimed
    <3> QED
      BY <3>1 DEF Busy
  <2> QED
    BY <1>2, <1>3, <2>1, <2>2 DEF Busy, Stage
<1> QED
  BY <1>5, <1>6, <1>7

LEMMA LastingProduced ==
  ASSUME Kept, NEW d \in Deliveries, Lasting(d), EnqueueHash(d) \/ EnqueueReady(d) \/ Expire(d)
  PROVE  Lasting(d)'
<1>1. TypeOK /\ Known(d)
  BY DEF Kept, Typed, Custody
<1>2. UNCHANGED <<tasks, torn, clock>>
  BY DEF EnqueueHash, EnqueueReady, Expire, history
<1>3. CASE EnqueueHash(d)
  <2>1. \A q \in Replicas : ~Busy(q, d)'
    BY <1>1, <1>2, <1>3 DEF Known, EnqueueHash, Busy, Stage
  <2> QED
    BY <2>1 DEF Lasting
<1>4. CASE EnqueueReady(d) \/ Expire(d)
  <2>1. hash'[d].expires \in {hash[d].expires, Never}
    BY <1>1, <1>4 DEF EnqueueReady, Expire, NoHash, TypeOK
  <2> QED
    BY <1>2, <2>1 DEF Lasting, Busy, Stage
<1> QED
  BY <1>3, <1>4

LEMMA LastingInTask ==
  ASSUME Kept, NEW r \in Replicas, NEW d \in Deliveries, Lasting(d),
         SendStep(r, d) \/ SettleStep(r, d)
  PROVE  Lasting(d)'
<1>1. Typed /\ Timed /\ TypeOK
  BY DEF Kept, Typed
<1>2. Turn(r, d) /\ Only(r, d)
  BY <1>1, TurnOfTask
<1> SUFFICES ASSUME ~torn'[d], NEW q \in Replicas, Busy(q, d)'
             PROVE  /\ clock' <= tasks'[q][d].since + HoldBound
                    /\ hash'[d].expires # Never =>
                         ~SingleReplica /\ tasks'[q][d].since + Retention <= hash'[d].expires
  BY DEF Lasting
<1>3. ~torn[d] /\ clock' = clock
  BY <1>2 DEF Only
<1>4. Busy(r, d)' => Busy(r, d)
  BY <1>2 DEF Turn, Quits, Reads, Marks, Posts, Judges, Stumbles, Logs, Unleases, Delists, Lists,
              Counts, Retires, Settles, Midway, Busy
<1>5. Busy(q, d) /\ tasks'[q][d].since = tasks[q][d].since
  <2>1. CASE q = r
    BY <1>2, <1>4, <2>1 DEF Only, Busy
  <2>2. CASE q # r
    BY <1>2, <2>2 DEF Only, Busy
  <2> QED
    BY <2>1, <2>2
<1>6. /\ clock <= tasks[q][d].since + HoldBound
      /\ hash[d].expires # Never =>
           ~SingleReplica /\ tasks[q][d].since + Retention <= hash[d].expires
  BY <1>3, <1>5 DEF Lasting
<1>7. CASE hash'[d].expires = hash[d].expires
  BY <1>3, <1>5, <1>6, <1>7
<1>8. CASE Retires(r, d) /\ hash'[d].expires = clock + Retention
  <2>1. q # r /\ ~SingleReplica
    BY <1>8 DEF Retires, Busy, SingleReplica
  <2>2. tasks[q][d].since <= clock
    BY <1>1, <1>5 DEF Timed, Busy
  <2>3. clock \in Nat /\ tasks[q][d].since \in Nat /\ Retention \in Nat
    BY <1>1, RedisAssumption DEF TypeOK, Task
  <2>4. tasks[q][d].since + Retention <= clock + Retention
    BY <2>2, <2>3
  <2> QED
    BY <1>3, <1>5, <1>6, <1>8, <2>1, <2>4
<1>9. hash'[d].expires = hash[d].expires \/ (Retires(r, d) /\ hash'[d].expires = clock + Retention)
  BY <1>2 DEF Turn, Quits, Reads, Marks, Posts, Judges, Stumbles, Logs, Unleases, Delists, Lists,
              Counts, Retires, Untouched
<1> QED
  BY <1>7, <1>8, <1>9

Evidenced == Ordered /\ \A d \in Deliveries : Spread(d) /\ Lasting(d)

LEMMA EvidencedInit == Init => Evidenced
<1> SUFFICES ASSUME Init PROVE Evidenced
  OBVIOUS
<1>1. \A r \in Replicas, d \in Deliveries : ~Keeps(r, d) /\ ~Busy(r, d) /\ ~Pending(r, d)
  BY DEF Init, Stage, NoTask, Keeps, Busy, Pending, Loading
<1>2. \A d \in Deliveries : Numbers(d) = {0} /\ Latest(d) = 0 /\ overtaken[d] = 0
  BY <1>1 DEF Init, NoHash, Numbers, Latest
<1> QED
  BY <1>1, <1>2, OrderedInit DEF Evidenced, Spread, Ahead, Apart, Near, Lasting

LEMMA EvidencedStep ==
  SafeDeployment /\ Outlasting /\ Evidenced /\ [Next]_vars => Evidenced'
<1> SUFFICES ASSUME SafeDeployment, Outlasting, Evidenced, [Next]_vars PROVE Evidenced'
  OBVIOUS
<1>1. Ordered /\ Ordered' /\ Kept
  BY OrderedStep DEF Evidenced, Ordered
<1>2. ASSUME NEW d \in Deliveries PROVE Spread(d)' /\ Lasting(d)'
  <2>1. Spread(d)'
    BY <1>1, Seen, SpreadAside, SpreadMoved, SpreadProduced, SpreadInTask DEF Evidenced, Ordered
  <2>2. Lasting(d)'
    BY <1>1, Seen, LastingElsewhere, LastingProduced, LastingInTask DEF Evidenced
  <2> QED
    BY <2>1, <2>2
<1> QED
  BY <1>1, <1>2 DEF Evidenced

(* No counter without its evidence: every settling call logs the attempt   *)
(* before it counts it, the list and the counter expire together, and each *)
(* claim that overtakes a pipeline may put the log one behind.  The hash   *)
(* must outlast the tasks: a pipeline that writes to an expired hash makes *)
(* a counter whose list is gone.                                           *)
THEOREM NoCountWithoutLog == SafeDeployment /\ Outlasting /\ Spec => []LogLeads
<1>1. Evidenced => LogLeads
  <2> SUFFICES ASSUME Evidenced, NEW d \in Deliveries, hash[d].attempts > 0, ~torn[d]
               PROVE  atts[d] # <<>> /\ hash[d].attempts <= atts[d][1] + overtaken[d]
    BY DEF LogLeads
  <2>1. hash[d].attempts \in Numbers(d)
    BY SpreadNumbers DEF Evidenced, Ordered, Kept, Typed
  <2> QED
    BY <2>1 DEF Evidenced, Spread, Ahead, Latest
<1>2. CASE SafeDeployment /\ Outlasting
  <2>1. Evidenced /\ [Next]_vars => Evidenced'
    BY <1>2, EvidencedStep
  <2> QED
    BY <1>1, <2>1, EvidencedInit, PTL DEF Spec
<1> QED
  BY <1>2
===============================================================================
