------------------------------- MODULE Dispatch -------------------------------
(***************************************************************************)
(* The dispatch engine: replicas that run WebhookEngine.tick() against one *)
(* shared delivery store.  A tick takes back stale leases, claims a batch, *)
(* runs one task per claimed row (WebhookDispatcher.send behind the worker *)
(* gate and the host semaphores) and ends when every task has ended.  An   *)
(* exception that send lets out goes to _quarantine.                       *)
(*                                                                         *)
(* A step is what runs between two awaits.  Store calls may raise, before  *)
(* or (LostReplies) after their effect landed; the receiver may answer     *)
(* anything; a replica may be killed or shut down at any step, which       *)
(* cancels its tasks where they stand; and time passes between any two     *)
(* steps.  Nothing in the code bounds how long a task takes between the    *)
(* claim and the store call that settles the row: HoldBound states such a  *)
(* bound as an assumption on the environment.                              *)
(***************************************************************************)
EXTENDS DeliveryPolicy, DeliveryStore, FiniteSets

CONSTANTS
  Replicas,            \* processes that share the store
  Deliveries,          \* delivery ids the producers enqueue
  Hosts, HostOf,       \* the receiver host of each delivery
  BatchSize,           \* WebhookDispatchConfig.batch_size
  WorkerConcurrency,   \* WebhookDispatchConfig.worker_concurrency
  PerHost,             \* WebhookLimitsConfig.per_host_concurrency
  MaxUnhandled,        \* WebhookDispatchConfig.max_unhandled_attempts
  Answers,             \* what POSTs may come back with
  HoldBound,           \* longest time from claim to settling call (assumed)
  LostReplies,         \* may a store call raise after its effect landed?
  MaxFaults,           \* bound of the model: exceptions raised
  MaxStops             \* bound of the model: crashes and shutdowns

ASSUME DispatchAssumption ==
  /\ HostOf \in [Deliveries -> Hosts]
  /\ BatchSize \in Nat \ {0} /\ WorkerConcurrency \in Nat \ {0} /\ PerHost \in Nat \ {0}
  /\ MaxUnhandled \in Nat \ {0}
  /\ Answers \subseteq Answer
  /\ HoldBound \in Nat /\ LostReplies \in BOOLEAN
  /\ MaxFaults \in Nat /\ MaxStops \in Nat

VARIABLES
  clock,    \* the wall clock every replica reads
  rows,     \* the delivery table
  pc,       \* where each replica's tick loop stands
  nowRead,  \* the clock reading the tick's current store call carries
  tasks,    \* the _dispatch_one task of each replica for each row it claimed
  faults,   \* exceptions raised so far
  stops,    \* crashes and shutdowns so far
  posts,    \* history: POSTs begun for each delivery
  acked,    \* history: whether a 2xx answer to the delivery was received
  raised,   \* history: unhandled exceptions logged for each delivery
  asked     \* history: until when the receiver asked to be left alone

vars == <<clock, rows, pc, nowRead, tasks, faults, stops, posts, acked, raised, asked>>
history == <<posts, acked, raised, asked>>

(* What a task does next:                                                  *)
(*   queued     enter the worker gate and start send                       *)
(*   waiting    get a slot of the host semaphore                           *)
(*   posting    the POST is under way, in the slot                         *)
(*   settling   call mark_sent, schedule_retry or mark_dead                *)
(*   unhandled  send raised: _quarantine calls append_attempt              *)
(*   burying    _quarantine calls mark_dead                                *)
(*   notifying  run on_outcome, outside the gate                           *)
Holding == {"queued", "waiting", "posting", "settling"}
Salvage == {"unhandled", "burying"}
Stages  == {"none", "notifying"} \cup Holding \cup Salvage
InGate  == {"waiting", "posting", "settling"} \cup Salvage

Verdicts == {"none", "sent", "failed_retry", "dead_lettered"}

(* A task carries its snapshot of the row (the attempt number it will use) *)
(* and, as they become known, when send read the clock, what becomes of    *)
(* the delivery and when the next attempt is due.  since is the reading    *)
(* the claim was made with.                                                *)
Task == [stage: Stages, attempt: Nat, since: Nat, sentAt: Nat,
         verdict: Verdicts, retryAt: Nat]
NoTask == [stage |-> "none", attempt |-> 0, since |-> 0, sentAt |-> 0,
           verdict |-> "none", retryAt |-> 0]

NewTask(row, now) == [NoTask EXCEPT
  !.stage = "queued", !.attempt = row.attempts + 1, !.since = now]

Stage(r, d) == tasks[r][d].stage

TypeOK ==
  /\ clock \in Nat \ {0}
  /\ rows \in [Deliveries -> Row]
  /\ pc \in [Replicas -> {"idle", "reclaim", "claim", "gather", "down"}]
  /\ nowRead \in [Replicas -> Nat]
  /\ tasks \in [Replicas -> [Deliveries -> Task]]
  /\ faults \in Nat /\ stops \in Nat
  /\ posts \in [Deliveries -> Nat]
  /\ acked \in [Deliveries -> BOOLEAN]
  /\ raised \in [Deliveries -> Nat] /\ asked \in [Deliveries -> Nat]

Init ==
  /\ clock = 1
  /\ rows = [d \in Deliveries |-> NoRow]
  /\ pc = [r \in Replicas |-> "idle"]
  /\ nowRead = [r \in Replicas |-> 0]
  /\ tasks = [r \in Replicas |-> [d \in Deliveries |-> NoTask]]
  /\ faults = 0 /\ stops = 0
  /\ posts = [d \in Deliveries |-> 0]
  /\ acked = [d \in Deliveries |-> FALSE]
  /\ raised = [d \in Deliveries |-> 0]
  /\ asked = [d \in Deliveries |-> 0]

Fault == faults < MaxFaults /\ faults' = faults + 1

-------------------------------------------------------------------------------
(* A producer (the ingestor, redeliver, ping) enqueues a delivery.         *)
Enqueue(d) ==
  /\ rows[d].status = "absent"
  /\ rows' = [rows EXCEPT ![d] = Enqueued(@, clock)]
  /\ UNCHANGED <<clock, pc, nowRead, tasks, faults, stops, history>>

(* tick(): the clock is read before the store is asked, and again for the  *)
(* claim.  A failing reclaim_stale is logged and the tick goes on.         *)
BeginTick(r) ==
  /\ pc[r] = "idle"
  /\ pc' = [pc EXCEPT ![r] = "reclaim"]
  /\ nowRead' = [nowRead EXCEPT ![r] = clock]
  /\ UNCHANGED <<clock, rows, tasks, faults, stops, history>>

ThenClaim(r) ==
  /\ pc[r] = "reclaim"
  /\ pc' = [pc EXCEPT ![r] = "claim"]
  /\ nowRead' = [nowRead EXCEPT ![r] = clock]
  /\ UNCHANGED <<clock, tasks, stops, history>>

ReclaimStale(r) ==
  /\ ThenClaim(r)
  /\ rows' = [d \in Deliveries |-> Reclaimed(rows[d], nowRead[r])]
  /\ UNCHANGED faults

ReclaimFails(r) ==
  /\ ThenClaim(r)
  /\ Fault
  /\ UNCHANGED rows

(* claim_batch: the due rows that have waited longest, batch_size at most. *)
Batches(now) ==
  LET ready == {d \in Deliveries : Claimable(rows[d], now)} IN
  {batch \in SUBSET ready :
     /\ Cardinality(batch) <= BatchSize
     /\ batch = ready \/ Cardinality(batch) = BatchSize
     /\ \A d \in batch, e \in ready \ batch : rows[d].fireAt <= rows[e].fireAt}

Lease(batch, now) ==
  rows' = [d \in Deliveries |-> IF d \in batch THEN Claimed(rows[d], now) ELSE rows[d]]

ClaimBatch(r) ==
  /\ pc[r] = "claim"
  /\ \E batch \in Batches(nowRead[r]) :
       /\ Lease(batch, nowRead[r])
       /\ tasks' = [tasks EXCEPT ![r] =
            [d \in Deliveries |-> IF d \in batch THEN NewTask(rows[d], nowRead[r]) ELSE @[d]]]
       /\ pc' = [pc EXCEPT ![r] = IF batch = {} THEN "idle" ELSE "gather"]
  /\ nowRead' = [nowRead EXCEPT ![r] = 0]
  /\ UNCHANGED <<clock, faults, stops, history>>

(* claim_batch raises and the tick ends.  The rows it has leased already   *)
(* (the committed transaction of a lost reply, the round trips the Mongo   *)
(* loop has behind it) have no task.                                       *)
LeasedByFailure(now) ==
  {batch \in UNION {SUBSET full : full \in Batches(now)} :
     \/ batch = {}
     \/ Backend = "mongo"
     \/ LostReplies /\ batch \in Batches(now)}

ClaimFails(r) ==
  /\ pc[r] = "claim"
  /\ Fault
  /\ \E batch \in LeasedByFailure(nowRead[r]) : Lease(batch, nowRead[r])
  /\ pc' = [pc EXCEPT ![r] = "idle"]
  /\ nowRead' = [nowRead EXCEPT ![r] = 0]
  /\ UNCHANGED <<clock, tasks, stops, history>>

-------------------------------------------------------------------------------
(* The tasks.  To(r, d, stage) moves one on, Ends(r, d) ends it.           *)
Becomes(r, d, task) == tasks' = [tasks EXCEPT ![r][d] = task]
To(r, d, stage)     == Becomes(r, d, [tasks[r][d] EXCEPT !.stage = stage])
Ends(r, d)          == Becomes(r, d, NoTask)

GateFree(r) ==
  Cardinality({d \in Deliveries : Stage(r, d) \in InGate}) < WorkerConcurrency
SlotFree(r, host) ==
  Cardinality({d \in Deliveries : HostOf[d] = host /\ Stage(r, d) = "posting"}) < PerHost

EnterGate(r, d) == Stage(r, d) = "queued" /\ GateFree(r)

(* send() up to the host semaphore: the clock is read, and the size check, *)
(* the address check and the secret look-up let the attempt through...     *)
Prepare(r, d) ==
  /\ EnterGate(r, d)
  /\ Becomes(r, d, [tasks[r][d] EXCEPT !.stage = "waiting", !.sentAt = clock])
  /\ UNCHANGED <<clock, rows, pc, nowRead, faults, stops, history>>

(* ... or dead-letter the delivery without a POST: too large, blocked      *)
(* address, or any failure to resolve the secret.                          *)
Reject(r, d) ==
  /\ EnterGate(r, d)
  /\ Becomes(r, d, [tasks[r][d] EXCEPT !.stage = "settling", !.sentAt = clock,
                                       !.verdict = "dead_lettered"])
  /\ UNCHANGED <<clock, rows, pc, nowRead, faults, stops, history>>

(* An exception send does not catch, before or during the POST: an unknown *)
(* profile, a codec or signer that fails, a response that cannot be read.  *)
Raise(r, d) ==
  /\ EnterGate(r, d) \/ Stage(r, d) = "posting"
  /\ Fault
  /\ To(r, d, "unhandled")
  /\ UNCHANGED <<clock, rows, pc, nowRead, stops, history>>

Post(r, d) ==
  /\ Stage(r, d) = "waiting" /\ SlotFree(r, HostOf[d])
  /\ To(r, d, "posting")
  /\ posts' = [posts EXCEPT ![d] = @ + 1]
  /\ UNCHANGED <<clock, rows, pc, nowRead, faults, stops, acked, raised, asked>>

(* Until when a receiver wants to be left alone, up to max_delay_s.        *)
AskedUntil(header, now) ==
  CASE header.form = "seconds" -> now + Least(header.value, MaxDelay)
    [] header.form = "date"    -> Least(header.value, now + MaxDelay)
    [] header.form = "other"   -> 0

(* The POST ends: what it came back with is classified, and a retry is due *)
(* a delay after send read the clock, before the host semaphore and the    *)
(* POST.                                                                   *)
Conclude(r, d) ==
  /\ Stage(r, d) = "posting"
  /\ \E answer \in Answers :
       LET t        == tasks[r][d]
           verdict  == OutcomeStatus(Reason(answer), RetryOn(Reason(answer), t.attempt))
           retryAts == IF verdict = "failed_retry"
                       THEN {t.sentAt + delay :
                               delay \in NextDelays(t.attempt, Waited(answer, t.sentAt))}
                       ELSE {0}
       IN /\ \E retryAt \in retryAts :
               Becomes(r, d, [t EXCEPT !.stage = "settling", !.verdict = verdict,
                                       !.retryAt = retryAt])
          /\ acked' = [acked EXCEPT ![d] = @ \/ Reason(answer) = NoReason]
          /\ asked' = [asked EXCEPT ![d] = AskedUntil(answer.header, clock)]
  /\ UNCHANGED <<clock, rows, pc, nowRead, faults, stops, posts, raised>>

SettledBy(r, d) ==
  LET t == tasks[r][d] IN
  rows' = [rows EXCEPT ![d] = Settled(@, t.verdict, t.attempt, t.retryAt)]

Settle(r, d) ==
  /\ Stage(r, d) = "settling"
  /\ SettledBy(r, d)
  /\ To(r, d, "notifying")
  /\ UNCHANGED <<clock, pc, nowRead, faults, stops, history>>

(* A store call that raises leaves the row as it was, unless only the      *)
(* reply was lost.                                                         *)
SettleFails(r, d) ==
  /\ Stage(r, d) = "settling"
  /\ Fault
  /\ UNCHANGED rows \/ (LostReplies /\ SettledBy(r, d))
  /\ To(r, d, "unhandled")
  /\ UNCHANGED <<clock, pc, nowRead, stops, history>>

(* on_outcome ends, fails or times out; none of it matters.                *)
Notify(r, d) ==
  /\ Stage(r, d) = "notifying"
  /\ Ends(r, d)
  /\ UNCHANGED <<clock, rows, pc, nowRead, faults, stops, history>>

-------------------------------------------------------------------------------
(* _quarantine: log a synthetic attempt; from the max_unhandled_attempts-th *)
(* attempt on, dead-letter the delivery; otherwise leave it IN_FLIGHT to   *)
(* reclaim_stale.  Whatever fails here is logged and ends the task.        *)
AppendedBy(r, d) == rows' = [rows EXCEPT ![d] = Appended(@, tasks[r][d].attempt)]
BuriedBy(r, d) ==
  rows' = [rows EXCEPT ![d] = Settled(@, "dead_lettered", tasks[r][d].attempt, 0)]

(* Mutant: one unhandled exception too many is tolerated.                  *)
ExhaustedLate(n) == n > MaxUnhandled

Exhausted(n) == n >= MaxUnhandled

QuarantineAppend(r, d) ==
  /\ Stage(r, d) = "unhandled"
  /\ AppendedBy(r, d)
  /\ IF Exhausted(tasks[r][d].attempt) THEN To(r, d, "burying") ELSE Ends(r, d)
  /\ raised' = [raised EXCEPT ![d] = @ + 1]
  /\ UNCHANGED <<clock, pc, nowRead, faults, stops, posts, acked, asked>>

QuarantineAppendFails(r, d) ==
  /\ Stage(r, d) = "unhandled"
  /\ Fault
  /\ UNCHANGED rows \/ (LostReplies /\ AppendedBy(r, d))
  /\ Ends(r, d)
  /\ UNCHANGED <<clock, pc, nowRead, stops, history>>

Bury(r, d) ==
  /\ Stage(r, d) = "burying"
  /\ BuriedBy(r, d)
  /\ Ends(r, d)
  /\ UNCHANGED <<clock, pc, nowRead, faults, stops, history>>

BuryFails(r, d) ==
  /\ Stage(r, d) = "burying"
  /\ Fault
  /\ UNCHANGED rows \/ (LostReplies /\ BuriedBy(r, d))
  /\ Ends(r, d)
  /\ UNCHANGED <<clock, pc, nowRead, stops, history>>

-------------------------------------------------------------------------------
(* Mutant: the tick does not wait for its tasks.                           *)
EndTickEarly(r) ==
  /\ pc[r] = "gather"
  /\ pc' = [pc EXCEPT ![r] = "idle"]
  /\ UNCHANGED <<clock, rows, nowRead, tasks, faults, stops, history>>

(* gather() returns when every task has ended; the loop sleeps and ticks   *)
(* again.                                                                  *)
EndTick(r) ==
  /\ pc[r] = "gather"
  /\ \A d \in Deliveries : Stage(r, d) = "none"
  /\ pc' = [pc EXCEPT ![r] = "idle"]
  /\ UNCHANGED <<clock, rows, nowRead, tasks, faults, stops, history>>

(* The process is killed, or the lifespan handler cancels the tick loop:   *)
(* gather() hands the cancellation to every task, so none is left for      *)
(* drain() and the claimed rows stay IN_FLIGHT.                            *)
Stop(r) ==
  /\ pc[r] # "down"
  /\ stops < MaxStops
  /\ stops' = stops + 1
  /\ pc' = [pc EXCEPT ![r] = "down"]
  /\ nowRead' = [nowRead EXCEPT ![r] = 0]
  /\ tasks' = [tasks EXCEPT ![r] = [d \in Deliveries |-> NoTask]]
  /\ UNCHANGED <<clock, rows, faults, history>>

Start(r) ==
  /\ pc[r] = "down"
  /\ pc' = [pc EXCEPT ![r] = "idle"]
  /\ UNCHANGED <<clock, rows, nowRead, tasks, faults, stops, history>>

(* Time passes, but not past HoldBound after the claim of a row that is    *)
(* still held.  It is modelled only while some comparison with the clock   *)
(* is still to change: without one, later readings tell nothing apart.     *)
LongestDelay == (MaxDelay * (100 + JitterPct)) \div 100

TimerPending ==
  \/ \E d \in Deliveries : rows[d].lease >= clock \/ rows[d].fireAt > clock
  \/ \E r \in Replicas, d \in Deliveries :
       pc[r] = "claim" /\ Claimable(rows[d], nowRead[r]) /\ nowRead[r] + LeaseTtl >= clock
  \/ \E r \in Replicas, d \in Deliveries :
       Stage(r, d) \in {"waiting", "posting", "settling"} /\ tasks[r][d].sentAt + LongestDelay > clock

WithinHold(since) == clock < since + HoldBound

Advance ==
  /\ TimerPending
  /\ \A r \in Replicas :
       /\ pc[r] = "claim" => WithinHold(nowRead[r])
       /\ \A d \in Deliveries : Stage(r, d) \in Holding \cup Salvage => WithinHold(tasks[r][d].since)
  /\ clock' = clock + 1
  /\ UNCHANGED <<rows, pc, nowRead, tasks, faults, stops, history>>

-------------------------------------------------------------------------------
TickStep(r) ==
  BeginTick(r) \/ ReclaimStale(r) \/ ReclaimFails(r) \/ ClaimBatch(r) \/ ClaimFails(r)
    \/ EndTick(r) \/ Start(r)

TaskStep(r, d) ==
  Prepare(r, d) \/ Reject(r, d) \/ Raise(r, d) \/ Post(r, d) \/ Conclude(r, d)
    \/ Settle(r, d) \/ SettleFails(r, d) \/ Notify(r, d) \/ QuarantineAppend(r, d)
    \/ QuarantineAppendFails(r, d) \/ Bury(r, d) \/ BuryFails(r, d)

ReplicaStep(r) == TickStep(r) \/ \E d \in Deliveries : TaskStep(r, d)

Next ==
  \/ \E d \in Deliveries : Enqueue(d)
  \/ \E r \in Replicas : ReplicaStep(r) \/ Stop(r)
  \/ Advance

Spec == Init /\ [][Next]_vars

(* A replica's event loop keeps running what is ready, an operator starts  *)
(* a stopped replica again, and time passes.                               *)
FairSpec == Spec /\ (\A r \in Replicas : WF_vars(ReplicaStep(r))) /\ WF_vars(Advance)

-------------------------------------------------------------------------------
(* The deployments whose deliveries are safe: one replica, or replicas     *)
(* whose tasks settle within their lease and never lose a reply.           *)
SingleReplica  == \A r, q \in Replicas : r = q
TimelyReplicas == HoldBound <= LeaseTtl /\ ~LostReplies
SafeDeployment == SingleReplica \/ TimelyReplicas

(* A task that has yet to settle its row is the row's only holder, and the *)
(* row is still leased to it: reclaim_stale has not given it away and no   *)
(* other replica's claim_batch has taken it.                               *)
ExclusiveLease ==
  \A r \in Replicas, d \in Deliveries :
    Stage(r, d) \in Holding =>
      /\ rows[d].status = "in_flight"
      /\ rows[d].lease = tasks[r][d].since + LeaseTtl
      /\ \A q \in Replicas \ {r} : Stage(q, d) \notin Holding

(* deploy.md: replicas on one store "will not double-deliver": no two of   *)
(* them are POSTing the same delivery.                                     *)
NoDoublePost ==
  \A d \in Deliveries : \A r, q \in Replicas :
    Stage(r, d) = "posting" /\ Stage(q, d) = "posting" => r = q

(* send works on a snapshot of the row taken at the claim; it is still the *)
(* current row when the attempt is settled, so no attempt number is used   *)
(* for two settled attempts and the counter never goes back.               *)
SnapshotIsCurrent ==
  \A r \in Replicas, d \in Deliveries :
    Stage(r, d) \in Holding => tasks[r][d].attempt = rows[d].attempts + 1

(* A receiver is not called again before the time schedule_retry set, also *)
(* when the row went through crashes and reclaims in between.              *)
BackoffRespected ==
  \A r \in Replicas, d \in Deliveries :
    Stage(r, d) = "posting" => tasks[r][d].sentAt >= rows[d].fireAt

(* "429 with Retry-After waits exactly that long" (test_dispatcher_seams); *)
(* the wait is "honoured up to the cap" (next_delay_s): no POST begins     *)
(* before the time the receiver's last answer asked for, unless a failure  *)
(* or a crash made the engine forget that answer.                          *)
RetryAfterHonoured ==
  [][\A d \in Deliveries :
       posts'[d] # posts[d] /\ faults + stops = 0 => clock >= asked[d]]_vars

(* What mark_sent and mark_dead did is never undone ("(terminal)" in       *)
(* pg_repos.py): no late store call of a task moves the row again.         *)
TerminalIsFinal ==
  [][\A d \in Deliveries :
       rows[d].status \in Terminal => rows'[d].status = rows[d].status]_vars

(* A receiver gets max_attempts POSTs of a delivery, and one more for each *)
(* failure that made the engine forget an attempt.                         *)
ReceiverLoadBounded ==
  \A d \in Deliveries : posts[d] <= MaxAttempts + faults + stops

(* The attempt log holds every attempt the counter has counted.            *)
AttemptLogComplete ==
  \A d \in Deliveries : \A n \in 1..rows[d].attempts :
    \E i \in DOMAIN rows[d].log : rows[d].log[i] = n

(* _quarantine: "On exhaustion ... force a dead-letter so the record does  *)
(* not loop forever".  A delivery has more unhandled exceptions than       *)
(* max_unhandled_attempts only if something else went wrong as well.       *)
QuarantineEnds ==
  \A d \in Deliveries : raised[d] > MaxUnhandled => faults + stops > raised[d]

(* Every enqueued delivery is settled in the end: sent or dead-lettered,   *)
(* whatever the (finitely many) crashes and store failures do.             *)
EventuallySettled ==
  \A d \in Deliveries : rows[d].status = "pending" ~> rows[d].status \in Terminal

(* What a producer can tell from a row: a delivery whose next attempt is   *)
(* pending, under way or waiting is open.                                  *)
Known(d) ==
  CASE rows[d].status = "absent"        -> "absent"
    [] rows[d].status = "sent"          -> "sent"
    [] rows[d].status = "dead_lettered" -> "dead"
    [] OTHER                            -> "open"

Promise == INSTANCE DeliveryLifecycle WITH
  state    <- [d \in Deliveries |-> Known(d)],
  accepted <- acked

(* The delivery table keeps the promise made to producers: no crash, late  *)
(* store call, retry or reclaim reports a delivery sent that no receiver   *)
(* accepted, or takes a report back.                                       *)
KeepsPromise == Promise!Spec
===============================================================================
