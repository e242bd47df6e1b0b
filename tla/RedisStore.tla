------------------------------ MODULE RedisStore ------------------------------
(***************************************************************************)
(* Replicas of the dispatch engine over RedisWebhookDeliveryStore.  Redis  *)
(* keeps a ready set and an in-flight set, both scored by time, a hash and *)
(* a list of attempts per delivery.  Claim and reclaim are scripts, atomic *)
(* on the server; everything else is a pipeline without a transaction.     *)
(* Each of its commands is a step here, named by the stage that runs it:   *)
(* commands of other clients may come in between, and a crash or a broken  *)
(* connection may leave the rest unsent.                                   *)
(*                                                                         *)
(* The worker gate, the host semaphores and what answers mean are those of *)
(* Dispatch; here an attempt ends in one of Reasons.                       *)
(***************************************************************************)
EXTENDS DeliveryPolicy, FiniteSets, Sequences

CONSTANTS
  Replicas,        \* processes that share the Redis server
  Deliveries,      \* delivery ids the producers enqueue
  BatchSize,       \* WebhookDispatchConfig.batch_size
  LeaseTtl,        \* WebhookDispatchConfig.lease_ttl_s
  MaxUnhandled,    \* WebhookDispatchConfig.max_unhandled_attempts
  HistoryLimit,    \* WebhookStorageConfig.attempts_history_limit
  Retention,       \* retention_sent_s and retention_dead_s
  Reasons,         \* what an attempt may end in
  HoldBound,       \* longest time from claim to the end of settling (assumed)
  LostReplies,     \* may a pipeline raise after all of it landed?
  MaxFaults,       \* bound of the model: exceptions raised
  MaxStops         \* bound of the model: crashes

ASSUME RedisAssumption ==
  /\ BatchSize \in Nat \ {0} /\ LeaseTtl \in Nat \ {0} /\ MaxUnhandled \in Nat \ {0}
  /\ HistoryLimit \in Nat \ {0} /\ Retention \in Nat \ {0}
  /\ Reasons \subseteq RetryReason \cup {NoReason}
  /\ HoldBound \in Nat /\ LostReplies \in BOOLEAN
  /\ MaxFaults \in Nat /\ MaxStops \in Nat

VARIABLES
  clock,      \* the wall clock every replica reads
  ready,      \* wh:ready, score by delivery
  inflight,   \* wh:inflight, score by delivery
  hash,       \* wh:d:<id>
  atts,       \* wh:d:<id>:atts, newest first
  producer,   \* how far enqueue_many has got with each delivery
  pc,         \* where each replica's tick stands
  nowRead,    \* the clock reading the tick's current store call carries
  tasks,      \* what each replica is doing with each delivery
  faults,     \* exceptions raised so far
  stops,      \* crashes so far
  torn,       \* history: a settling pipeline was cut short
  overtaken,  \* history: claims made in the middle of a settling pipeline
  posts       \* history: POSTs begun

redis   == <<ready, inflight, hash, atts>>
history == <<torn, overtaken, posts>>
vars == <<clock, redis, producer, pc, nowRead, tasks, faults, stops, history>>

NotIn == 0      \* no score: every reading of the clock is later
Never == 0      \* no time to live

Terminal == {"sent", "dead_lettered"}
Status   == {"absent", "pending", "in_flight", "failed_retry"} \cup Terminal
Hash     == [status: Status, attempts: Nat, fireAt: Nat, expires: Nat]
NoHash   == [status |-> "absent", attempts |-> 0, fireAt |-> 0, expires |-> Never]

(* What a replica does next with a delivery:                               *)
(*   leased     its id came from the claim script; read the hash           *)
(*   loaded     write the status in_flight                                 *)
(*   claimed    wait for the rest of the batch                             *)
(*   queued     start send                                                 *)
(*   posting    the POST is under way                                      *)
(*   push       append_attempt of the settling call                        *)
(*   unlease    ZREM inflight, the first command of the pipeline           *)
(*   unready    ZREM ready             (mark_sent, mark_dead)              *)
(*   requeue    ZADD ready             (schedule_retry)                    *)
(*   write      HSET of status, attempts and due time                      *)
(*   expire     EXPIRE                 (mark_sent, mark_dead)              *)
(*   landed     read the reply, run on_outcome                             *)
(*   note       send raised: append_attempt of _quarantine                 *)
Loading == {"leased", "loaded", "claimed"}
Sending == {"queued", "posting", "push", "unlease"}
Midway  == {"unready", "requeue", "write", "expire"}
Stages  == {"none", "landed", "note"} \cup Loading \cup Sending \cup Midway

Verdicts == {"none", "sent", "failed_retry", "dead_lettered"}
Task == [stage: Stages, attempt: Nat, since: Nat, sentAt: Nat,
         verdict: Verdicts, retryAt: Nat, salvage: BOOLEAN]
NoTask == [stage |-> "none", attempt |-> 0, since |-> 0, sentAt |-> 0,
           verdict |-> "none", retryAt |-> 0, salvage |-> FALSE]

Stage(r, d) == tasks[r][d].stage

TypeOK ==
  /\ clock \in Nat \ {0}
  /\ ready \in [Deliveries -> Nat] /\ inflight \in [Deliveries -> Nat]
  /\ hash \in [Deliveries -> Hash] /\ atts \in [Deliveries -> Seq(Nat)]
  /\ producer \in [Deliveries -> {"idle", "listing", "done", "raised"}]
  /\ pc \in [Replicas -> {"idle", "reclaim", "claim", "load", "gather", "down"}]
  /\ nowRead \in [Replicas -> Nat]
  /\ tasks \in [Replicas -> [Deliveries -> Task]]
  /\ faults \in Nat /\ stops \in Nat
  /\ torn \in [Deliveries -> BOOLEAN]
  /\ overtaken \in [Deliveries -> Nat] /\ posts \in [Deliveries -> Nat]

Init ==
  /\ clock = 1
  /\ ready = [d \in Deliveries |-> NotIn] /\ inflight = [d \in Deliveries |-> NotIn]
  /\ hash = [d \in Deliveries |-> NoHash] /\ atts = [d \in Deliveries |-> <<>>]
  /\ producer = [d \in Deliveries |-> "idle"]
  /\ pc = [r \in Replicas |-> "idle"]
  /\ nowRead = [r \in Replicas |-> 0]
  /\ tasks = [r \in Replicas |-> [d \in Deliveries |-> NoTask]]
  /\ faults = 0 /\ stops = 0
  /\ torn = [d \in Deliveries |-> FALSE]
  /\ overtaken = [d \in Deliveries |-> 0] /\ posts = [d \in Deliveries |-> 0]

Fault == faults < MaxFaults /\ faults' = faults + 1

-------------------------------------------------------------------------------
(* enqueue_many: write the hash, then list the id as ready.  A broken      *)
(* connection raises to the producer, who knows that the delivery failed.  *)
EnqueueHash(d) ==
  /\ producer[d] = "idle"
  /\ hash' = [hash EXCEPT ![d] = [NoHash EXCEPT !.status = "pending", !.fireAt = clock]]
  /\ producer' = [producer EXCEPT ![d] = "listing"]
  /\ UNCHANGED <<clock, ready, inflight, atts, pc, nowRead, tasks, faults, stops, history>>

EnqueueReady(d) ==
  /\ producer[d] = "listing"
  /\ ready' = [ready EXCEPT ![d] = hash[d].fireAt]
  /\ producer' = [producer EXCEPT ![d] = "done"]
  /\ UNCHANGED <<clock, inflight, hash, atts, pc, nowRead, tasks, faults, stops, history>>

EnqueueFails(d) ==
  /\ producer[d] \in {"idle", "listing"}
  /\ Fault
  /\ producer' = [producer EXCEPT ![d] = "raised"]
  /\ UNCHANGED <<clock, redis, pc, nowRead, tasks, stops, history>>

(* Redis deletes a key whose time to live has run out.                     *)
Expire(d) ==
  /\ hash[d].expires # Never /\ hash[d].expires <= clock
  /\ hash' = [hash EXCEPT ![d] = NoHash]
  /\ atts' = [atts EXCEPT ![d] = <<>>]
  /\ UNCHANGED <<clock, ready, inflight, producer, pc, nowRead, tasks, faults, stops, history>>

-------------------------------------------------------------------------------
(* tick() is the one of Dispatch; reclaim_stale is RECLAIM_LUA.            *)
BeginTick(r) ==
  /\ pc[r] = "idle"
  /\ pc' = [pc EXCEPT ![r] = "reclaim"]
  /\ nowRead' = [nowRead EXCEPT ![r] = clock]
  /\ UNCHANGED <<clock, redis, producer, tasks, faults, stops, history>>

ThenClaim(r) ==
  /\ pc[r] = "reclaim"
  /\ pc' = [pc EXCEPT ![r] = "claim"]
  /\ nowRead' = [nowRead EXCEPT ![r] = clock]
  /\ UNCHANGED <<clock, hash, atts, producer, tasks, stops, history>>

(* Mutant: whatever is in flight goes back, lease or no lease.             *)
StaleAlways(now) == {d \in Deliveries : inflight[d] # NotIn}

(* Mutant: seconds are compared with milliseconds.                         *)
StaleNever(now) == {}

Stale(now) == {d \in Deliveries : inflight[d] # NotIn /\ inflight[d] <= now}

ReclaimStale(r) ==
  /\ ThenClaim(r)
  /\ inflight' = [d \in Deliveries |-> IF d \in Stale(nowRead[r]) THEN NotIn ELSE inflight[d]]
  /\ ready' = [d \in Deliveries |-> IF d \in Stale(nowRead[r]) THEN nowRead[r] ELSE ready[d]]
  /\ UNCHANGED faults

ReclaimFails(r) ==
  /\ ThenClaim(r)
  /\ Fault
  /\ UNCHANGED <<ready, inflight>>

(* CLAIM_BATCH_LUA: the batch_size ids of the lowest score that are due.   *)
Batches(now) ==
  LET due == {d \in Deliveries : ready[d] # NotIn /\ ready[d] <= now} IN
  {batch \in SUBSET due :
     /\ Cardinality(batch) <= BatchSize
     /\ batch = due \/ Cardinality(batch) = BatchSize
     /\ \A d \in batch, e \in due \ batch : ready[d] <= ready[e]}

(* Mutant: the ids stay in the ready set until they are settled.           *)
TakenButListed(batch, now) ==
  /\ inflight' = [d \in Deliveries |-> IF d \in batch THEN now + LeaseTtl ELSE inflight[d]]
  /\ UNCHANGED ready

(* Mutant: ZREM without ZADD.                                              *)
TakenUnleased(batch, now) ==
  /\ ready' = [d \in Deliveries |-> IF d \in batch THEN NotIn ELSE ready[d]]
  /\ UNCHANGED inflight

Taken(batch, now) ==
  /\ inflight' = [d \in Deliveries |-> IF d \in batch THEN now + LeaseTtl ELSE inflight[d]]
  /\ ready' = [d \in Deliveries |-> IF d \in batch THEN NotIn ELSE ready[d]]

(* A delivery taken while a retry of it is listed but not yet written.     *)
Overtakes(batch) ==
  overtaken' = [d \in Deliveries |->
    IF d \in batch /\ \E q \in Replicas : Stage(q, d) \in Midway THEN overtaken[d] + 1
                                                                 ELSE overtaken[d]]

ClaimIds(r) ==
  /\ pc[r] = "claim"
  /\ \E batch \in Batches(nowRead[r]) :
       /\ Taken(batch, nowRead[r])
       /\ Overtakes(batch)
       /\ tasks' = [tasks EXCEPT ![r] = [d \in Deliveries |->
            IF d \in batch THEN [NoTask EXCEPT !.stage = "leased", !.since = nowRead[r]]
                           ELSE @[d]]]
       /\ pc' = [pc EXCEPT ![r] = IF batch = {} THEN "idle" ELSE "load"]
  /\ nowRead' = [nowRead EXCEPT ![r] = 0]
  /\ UNCHANGED <<clock, hash, atts, producer, faults, stops, torn, posts>>

(* claim_batch raises at the script, or later: the ids it took stay in     *)
(* flight and no task knows of them.                                       *)
ClaimFails(r) ==
  /\ pc[r] \in {"claim", "load"}
  /\ Fault
  /\ \/ UNCHANGED <<ready, inflight, overtaken>>
     \/ /\ pc[r] = "claim" /\ LostReplies
        /\ \E batch \in Batches(nowRead[r]) : Taken(batch, nowRead[r]) /\ Overtakes(batch)
  /\ tasks' = [tasks EXCEPT ![r] = [d \in Deliveries |-> NoTask]]
  /\ pc' = [pc EXCEPT ![r] = "idle"]
  /\ nowRead' = [nowRead EXCEPT ![r] = 0]
  /\ UNCHANGED <<clock, hash, atts, producer, stops, torn, posts>>

-------------------------------------------------------------------------------
Becomes(r, d, task) == tasks' = [tasks EXCEPT ![r][d] = task]
To(r, d, stage)     == Becomes(r, d, [tasks[r][d] EXCEPT !.stage = stage])
Ends(r, d)          == Becomes(r, d, NoTask)

(* Mutant: the attempt is appended by the caller when all is done.         *)
FirstCommandUnlogged == "unlease"

FirstCommand == "push"

(* Mutant: every settling call is the terminal one.                        *)
SecondCommandSame(verdict) == "unready"

SecondCommand(verdict) == IF verdict = "failed_retry" THEN "requeue" ELSE "unready"

(* The hashes are read by one pipeline; an id without a hash is skipped    *)
(* and stays in flight (claim_orphan_row).                                 *)
Read(r, d) ==
  /\ Stage(r, d) = "leased"
  /\ IF hash[d].status = "absent" THEN Ends(r, d)
     ELSE Becomes(r, d, [tasks[r][d] EXCEPT !.stage = "loaded", !.attempt = hash[d].attempts + 1])
  /\ UNCHANGED <<clock, redis, producer, pc, nowRead, faults, stops, history>>

(* A second pipeline writes their status.                                  *)
MarkInFlight(r, d) ==
  /\ Stage(r, d) = "loaded"
  /\ \A e \in Deliveries : Stage(r, e) # "leased"
  /\ hash' = [hash EXCEPT ![d].status = "in_flight"]
  /\ To(r, d, "claimed")
  /\ UNCHANGED <<clock, ready, inflight, atts, producer, pc, nowRead, faults, stops, history>>

(* claim_batch returns; tick starts the tasks.                             *)
StartTasks(r) ==
  /\ pc[r] = "load"
  /\ \A d \in Deliveries : Stage(r, d) \in {"none", "claimed"}
  /\ tasks' = [tasks EXCEPT ![r] = [d \in Deliveries |->
       IF Stage(r, d) = "claimed" THEN [@[d] EXCEPT !.stage = "queued"] ELSE @[d]]]
  /\ pc' = [pc EXCEPT ![r] =
       IF \E d \in Deliveries : Stage(r, d) = "claimed" THEN "gather" ELSE "idle"]
  /\ UNCHANGED <<clock, redis, producer, nowRead, faults, stops, history>>

(* send(): the clock is read and the POST begins, or the delivery is       *)
(* rejected without one, or send raises.                                   *)
Post(r, d) ==
  /\ Stage(r, d) = "queued"
  /\ Becomes(r, d, [tasks[r][d] EXCEPT !.stage = "posting", !.sentAt = clock])
  /\ posts' = [posts EXCEPT ![d] = @ + 1]
  /\ UNCHANGED <<clock, redis, producer, pc, nowRead, faults, stops, torn, overtaken>>

Reject(r, d) ==
  /\ Stage(r, d) = "queued"
  /\ Becomes(r, d, [tasks[r][d] EXCEPT !.stage = FirstCommand, !.verdict = "dead_lettered"])
  /\ UNCHANGED <<clock, redis, producer, pc, nowRead, faults, stops, history>>

Conclude(r, d) ==
  /\ Stage(r, d) = "posting"
  /\ \E reason \in Reasons :
       LET t       == tasks[r][d]
           verdict == OutcomeStatus(reason, RetryOn(reason, t.attempt))
       IN \E delay \in NextDelays(t.attempt, NoRetryAfter) :
            Becomes(r, d, [t EXCEPT !.stage = FirstCommand, !.verdict = verdict,
              !.retryAt = IF verdict = "failed_retry" THEN t.sentAt + delay ELSE 0])
  /\ UNCHANGED <<clock, redis, producer, pc, nowRead, faults, stops, history>>

Raise(r, d) ==
  /\ Stage(r, d) \in {"queued", "posting"}
  /\ Fault
  /\ To(r, d, "note")
  /\ UNCHANGED <<clock, redis, producer, pc, nowRead, stops, history>>

-------------------------------------------------------------------------------
(* The settling calls: append_attempt, then the pipeline.                  *)
Moved(r, d, stage) ==
  /\ To(r, d, stage)
  /\ UNCHANGED <<clock, producer, pc, nowRead, faults, stops, history>>

(* LPUSH and LTRIM.                                                        *)
Pushed(list, n) == SubSeq(<<n>> \o list, 1, Least(HistoryLimit, Len(list) + 1))

Push(r, d) ==
  /\ Stage(r, d) = "push"
  /\ atts' = [atts EXCEPT ![d] = Pushed(@, tasks[r][d].attempt)]
  /\ Moved(r, d, "unlease")
  /\ UNCHANGED <<ready, inflight, hash>>

(* Mutant: the id stays in flight until reclaim_stale finds it.            *)
UnleaseForgotten(r, d) ==
  /\ Stage(r, d) = "unlease"
  /\ Moved(r, d, SecondCommand(tasks[r][d].verdict))
  /\ UNCHANGED redis

Unlease(r, d) ==
  /\ Stage(r, d) = "unlease"
  /\ inflight' = [inflight EXCEPT ![d] = NotIn]
  /\ Moved(r, d, SecondCommand(tasks[r][d].verdict))
  /\ UNCHANGED <<ready, hash, atts>>

Unready(r, d) ==
  /\ Stage(r, d) = "unready"
  /\ ready' = [ready EXCEPT ![d] = NotIn]
  /\ Moved(r, d, "write")
  /\ UNCHANGED <<inflight, hash, atts>>

(* Mutant: the retry is listed as due at once.                             *)
RequeueNow(r, d) ==
  /\ Stage(r, d) = "requeue"
  /\ ready' = [ready EXCEPT ![d] = clock]
  /\ Moved(r, d, "write")
  /\ UNCHANGED <<inflight, hash, atts>>

Requeue(r, d) ==
  /\ Stage(r, d) = "requeue"
  /\ ready' = [ready EXCEPT ![d] = tasks[r][d].retryAt]
  /\ Moved(r, d, "write")
  /\ UNCHANGED <<inflight, hash, atts>>

Write(r, d) ==
  LET t == tasks[r][d] IN
  /\ Stage(r, d) = "write"
  /\ IF t.verdict = "failed_retry"
     THEN /\ hash' = [hash EXCEPT ![d].status = t.verdict, ![d].attempts = t.attempt,
                                  ![d].fireAt = t.retryAt]
          /\ Moved(r, d, "landed")
     ELSE /\ hash' = [hash EXCEPT ![d].status = t.verdict, ![d].attempts = t.attempt]
          /\ Moved(r, d, "expire")
  /\ UNCHANGED <<ready, inflight, atts>>

SetTtl(r, d) ==
  /\ Stage(r, d) = "expire"
  /\ hash' = [hash EXCEPT ![d].expires = IF hash[d].status = "absent" THEN @ ELSE clock + Retention]
  /\ Moved(r, d, "landed")
  /\ UNCHANGED <<ready, inflight, atts>>

(* on_outcome, or the end of _quarantine.                                  *)
Notify(r, d) ==
  /\ Stage(r, d) = "landed"
  /\ Ends(r, d)
  /\ UNCHANGED <<clock, redis, producer, pc, nowRead, faults, stops, history>>

(* A settling call raises before its pipeline, in the middle of it or, the *)
(* reply lost, behind it.  In send this goes to _quarantine, in            *)
(* _quarantine it is logged.                                               *)
CallFails(r, d) ==
  /\ Stage(r, d) \in {"push", "unlease"} \cup Midway \/ (Stage(r, d) = "landed" /\ LostReplies)
  /\ Fault
  /\ IF tasks[r][d].salvage THEN Ends(r, d) ELSE To(r, d, "note")
  /\ torn' = [torn EXCEPT ![d] = @ \/ Stage(r, d) \in Midway \cup {"landed"}]
  /\ UNCHANGED <<clock, redis, producer, pc, nowRead, stops, overtaken, posts>>

(* _quarantine logs a synthetic attempt; from the max_unhandled_attempts-th *)
(* on it calls mark_dead, which logs the attempt a second time.            *)
Exhausted(n) == n >= MaxUnhandled

Note(r, d) ==
  /\ Stage(r, d) = "note"
  /\ atts' = [atts EXCEPT ![d] = Pushed(@, tasks[r][d].attempt)]
  /\ IF Exhausted(tasks[r][d].attempt)
     THEN Becomes(r, d, [tasks[r][d] EXCEPT !.stage = FirstCommand, !.verdict = "dead_lettered",
                                            !.salvage = TRUE])
     ELSE Ends(r, d)
  /\ UNCHANGED <<clock, ready, inflight, hash, producer, pc, nowRead, faults, stops, history>>

NoteFails(r, d) ==
  /\ Stage(r, d) = "note"
  /\ Fault
  /\ Ends(r, d)
  /\ UNCHANGED <<clock, redis, producer, pc, nowRead, stops, history>>

-------------------------------------------------------------------------------
EndTick(r) ==
  /\ pc[r] = "gather"
  /\ \A d \in Deliveries : Stage(r, d) = "none"
  /\ pc' = [pc EXCEPT ![r] = "idle"]
  /\ UNCHANGED <<clock, redis, producer, nowRead, tasks, faults, stops, history>>

(* A crash or a cancelled tick: what is left of a pipeline is never sent.  *)
Stop(r) ==
  /\ pc[r] # "down"
  /\ stops < MaxStops
  /\ stops' = stops + 1
  /\ pc' = [pc EXCEPT ![r] = "down"]
  /\ nowRead' = [nowRead EXCEPT ![r] = 0]
  /\ tasks' = [tasks EXCEPT ![r] = [d \in Deliveries |-> NoTask]]
  /\ torn' = [d \in Deliveries |-> torn[d] \/ Stage(r, d) \in Midway]
  /\ UNCHANGED <<clock, redis, producer, faults, overtaken, posts>>

Start(r) ==
  /\ pc[r] = "down"
  /\ pc' = [pc EXCEPT ![r] = "idle"]
  /\ UNCHANGED <<clock, redis, producer, nowRead, tasks, faults, stops, history>>

(* Time passes, within HoldBound of every claim whose task is not done,    *)
(* and while some comparison with the clock is still to change.            *)
LongestDelay == (MaxDelay * (100 + JitterPct)) \div 100

TimerPending ==
  \/ \E d \in Deliveries : ready[d] > clock \/ inflight[d] > clock \/ hash[d].expires > clock
  \/ \E r \in Replicas, d \in Deliveries :
       \/ pc[r] = "claim" /\ ready[d] \in 1..nowRead[r] /\ nowRead[r] + LeaseTtl > clock
       \/ Stage(r, d) \in {"posting", "push", "unlease", "requeue"}
            /\ tasks[r][d].sentAt + LongestDelay > clock

WithinHold(since) == clock < since + HoldBound

Advance ==
  /\ TimerPending
  /\ \A r \in Replicas :
       /\ pc[r] = "claim" => WithinHold(nowRead[r])
       /\ \A d \in Deliveries :
            Stage(r, d) \notin {"none", "landed"} => WithinHold(tasks[r][d].since)
  /\ clock' = clock + 1
  /\ UNCHANGED <<redis, producer, pc, nowRead, tasks, faults, stops, history>>

-------------------------------------------------------------------------------
ProducerStep(d) == EnqueueHash(d) \/ EnqueueReady(d) \/ EnqueueFails(d)

TickStep(r) ==
  BeginTick(r) \/ ReclaimStale(r) \/ ReclaimFails(r) \/ ClaimIds(r) \/ ClaimFails(r)
    \/ StartTasks(r) \/ EndTick(r) \/ Start(r)

SendStep(r, d) ==
  Read(r, d) \/ MarkInFlight(r, d) \/ Post(r, d) \/ Reject(r, d) \/ Conclude(r, d)
    \/ Raise(r, d) \/ Note(r, d) \/ NoteFails(r, d) \/ Notify(r, d) \/ CallFails(r, d)

SettleStep(r, d) ==
  Push(r, d) \/ Unlease(r, d) \/ Unready(r, d) \/ Requeue(r, d) \/ Write(r, d) \/ SetTtl(r, d)

ReplicaStep(r) == TickStep(r) \/ \E d \in Deliveries : SendStep(r, d) \/ SettleStep(r, d)

Next ==
  \/ \E d \in Deliveries : ProducerStep(d) \/ Expire(d)
  \/ \E r \in Replicas : ReplicaStep(r) \/ Stop(r)
  \/ Advance

Spec == Init /\ [][Next]_vars

(* As in Dispatch; time passes although tasks that hold a row keep it back *)
(* again and again.                                                        *)
FairSpec == Spec /\ (\A r \in Replicas : WF_vars(ReplicaStep(r))) /\ SF_vars(Advance)

-------------------------------------------------------------------------------
(* reclaim_stale takes back a lease in the instant it ends: replicas must  *)
(* be done before it.                                                      *)
SingleReplica  == \A r, q \in Replicas : r = q
TimelyReplicas == HoldBound < LeaseTtl
SafeDeployment == SingleReplica \/ TimelyReplicas

(* No delivery is ready and in flight at once ("Atomicity for the claim /  *)
(* reclaim transitions", module docstring): no claim, reclaim or retry of  *)
(* one replica lists what another one holds.                               *)
Disjoint == \A d \in Deliveries : ready[d] = NotIn \/ inflight[d] = NotIn

(* From the claim script to the first command of the settling pipeline the *)
(* delivery is in flight for its task, and for no other, unless a cut      *)
(* pipeline left it to two of them.                                        *)
ExclusiveLease ==
  \A r \in Replicas, d \in Deliveries :
    Stage(r, d) \in Loading \cup Sending /\ ~torn[d] =>
      /\ inflight[d] = tasks[r][d].since + LeaseTtl
      /\ \A q \in Replicas \ {r} : Stage(q, d) \notin Loading \cup Sending

Settling(d) == \E r \in Replicas : Stage(r, d) \in Midway

(* A delivery enqueued and not yet settled can be found: it is ready, in   *)
(* flight or in the middle of a settling pipeline, whatever crashed, timed *)
(* out or was quarantined before, as long as no such pipeline was cut.     *)
Findable(d) ==
  producer[d] = "done" /\ hash[d].status \notin Terminal \cup {"absent"} =>
    ready[d] # NotIn \/ inflight[d] # NotIn \/ Settling(d)

LostOnlyByCuts == \A d \in Deliveries : ~torn[d] /\ overtaken[d] = 0 => Findable(d)

(* deploy.md: "A crash mid-delivery leaves the record in the inflight set; *)
(* the next reclaim_stale returns it to ready": none is ever lost.         *)
NothingLost == \A d \in Deliveries : Findable(d)

(* What is listed still has its hash: nothing expires under a claim, and   *)
(* claim_batch meets no orphan, which no call would ever get rid of.       *)
NoOrphans ==
  \A d \in Deliveries :
    (ready[d] # NotIn \/ inflight[d] # NotIn) /\ ~torn[d] => hash[d].status # "absent"

(* send numbers its attempt from the hash read after the claim script; it  *)
(* is the attempt after the last counted one until it settles, unless the  *)
(* claim came before the attempt of a listed retry was counted.            *)
SnapshotIsCurrent ==
  \A r \in Replicas, d \in Deliveries :
    Stage(r, d) \in Sending /\ ~torn[d] /\ overtaken[d] = 0 =>
      tasks[r][d].attempt = hash[d].attempts + 1

(* The attempt list leads the counter: an attempt is logged before it is   *)
(* counted, so that a crash never leaves a counter without its evidence.   *)
(* A claim that overtakes a pipeline numbers its attempt from the old      *)
(* counter: each of them may put the log one behind.                       *)
LogLeads ==
  \A d \in Deliveries :
    hash[d].attempts > 0 /\ ~torn[d] =>
      atts[d] # <<>> /\ hash[d].attempts <= atts[d][1] + overtaken[d]

(* No POST before the time the last schedule_retry set, although RECLAIM_LUA *)
(* lists a delivery as due without looking at that time.                   *)
BackoffRespected ==
  \A r \in Replicas, d \in Deliveries :
    Stage(r, d) = "posting" => tasks[r][d].sentAt >= hash[d].fireAt

(* A receiver gets max_attempts POSTs, and one more for each failure, each *)
(* crash, and each claim that came between the two commands that list a    *)
(* retry and count its attempt.  (A cut pipeline can leave a delivery both *)
(* buried and listed; when its hash expires the count starts again.)       *)
ReceiverLoadBounded ==
  \A d \in Deliveries : ~torn[d] => posts[d] <= MaxAttempts + faults + stops + overtaken[d]

(* What mark_sent and mark_dead wrote stays until it expires, unless a     *)
(* pipeline was cut or overtaken.                                          *)
TerminalIsFinal ==
  [][\A d \in Deliveries :
       hash[d].status \in Terminal /\ ~torn[d] /\ overtaken[d] = 0 =>
         hash'[d].status \in {hash[d].status, "absent"}]_vars

(* Every delivery that enqueue_many accepted is settled in the end, unless *)
(* a settling pipeline of it was cut or overtaken.                         *)
EventuallySettled ==
  \A d \in Deliveries :
    producer[d] = "done" ~> hash[d].status \in Terminal \cup {"absent"} \/ torn[d] \/ overtaken[d] > 0
===============================================================================
