-------------------------------- MODULE Ingest --------------------------------
(***************************************************************************)
(* Ingestion: replicas that run EventIngestor.tick() against one shared    *)
(* event store.  A tick takes back stale claims, claims a batch of the     *)
(* events producers appended, and fans them out one after the other: one   *)
(* delivery is enqueued per active subscription.  The events that were     *)
(* fanned out are acknowledged together at the end of the tick; one whose  *)
(* fan-out raised is parked as failed at once.                             *)
(*                                                                         *)
(* A step is what runs between two awaits.  Every call may raise, before   *)
(* or (LostReplies) after its effect landed, and the calls of Mongo that   *)
(* write several documents may land for some of them only; a replica may   *)
(* be killed or shut down at any step.  A claim is not renewed: HoldBound  *)
(* states, as an assumption, how long a tick takes at most.                *)
(*                                                                         *)
(* Only differences of clock readings matter here, so that a reading is    *)
(* kept as the time that has passed since it was taken.                    *)
(***************************************************************************)
EXTENDS Integers, FiniteSets

CONSTANTS
  Replicas,         \* processes that share the event store
  Events,           \* event ids the producers append
  Created,          \* created_at of each event, chosen by its producer
  Subscriptions,    \* subscriptions that match the events
  Blocked,          \* those whose address the URL guard refuses
  Backend,          \* which database the service is configured with
  Unserialisable,   \* events whose data json.dumps refuses (a Mongo date)
  Undecodable,      \* Mongo documents that lack a field claim_events reads
  LeaseTtl,         \* Settings.lease_ttl_s
  BatchSize,        \* Settings.ingest_batch_size
  HoldBound,        \* longest time a tick takes (assumed)
  LostReplies,      \* may a call raise after its effect landed?
  MaxFaults,        \* bound of the model: exceptions raised
  MaxStops,         \* bound of the model: crashes and shutdowns
  MaxPauses         \* bound of the model: subscriptions paused

ASSUME IngestAssumption ==
  /\ Created \in [Events -> Nat]
  /\ Blocked \subseteq Subscriptions
  /\ Backend \in {"pg", "mongo", "memory"}
  /\ Unserialisable \subseteq Events /\ (Backend = "pg" => Unserialisable = {})
  /\ Undecodable \subseteq Events /\ (Backend # "mongo" => Undecodable = {})
  /\ LeaseTtl \in Nat \ {0} /\ BatchSize \in Nat \ {0}
  /\ HoldBound \in Nat /\ LostReplies \in BOOLEAN
  /\ MaxFaults \in Nat /\ MaxStops \in Nat /\ MaxPauses \in Nat

VARIABLES
  events,       \* the event table: status, and time since the claim
  active,       \* the active subscriptions
  deliveries,   \* deliveries enqueued for each event and subscription
  pc,           \* where each replica's tick loop stands
  elapsed,      \* time since the tick under way read the clock
  stage,        \* what the tick has done with each event it claimed
  targets,      \* the subscriptions the current event is fanned out to
  faults,       \* exceptions raised so far
  stops,        \* crashes and shutdowns so far
  pauses,      \* subscriptions paused so far
  steady        \* history: subscriptions active ever since the event was appended

vars == <<events, active, deliveries, pc, elapsed, stage, targets,
          faults, stops, pauses, steady>>
world == <<active, pauses, steady>>

(* A tick's events:                                                        *)
(*   claimed    still to be fanned out                                     *)
(*   enqueuing  enqueue_many is called with a delivery per target          *)
(*   parking    the fan-out raised: mark_failed is called                  *)
(*   fannedOut  waits for the ack at the end of the tick                   *)
Stages  == {"none", "claimed", "enqueuing", "parking", "fannedOut"}
Settled == {"done", "failed"}
Status  == {"absent", "pending", "claimed"} \cup Settled

TypeOK ==
  /\ events \in [Events -> [status: Status, held: Nat]]
  /\ active \subseteq Subscriptions
  /\ deliveries \in [Events -> [Subscriptions -> Nat]]
  /\ pc \in [Replicas -> {"idle", "reclaim", "claim", "fanOut", "down"}]
  /\ elapsed \in [Replicas -> Nat]
  /\ stage \in [Replicas -> [Events -> Stages]]
  /\ targets \in [Replicas -> SUBSET Subscriptions]
  /\ faults \in Nat /\ stops \in Nat /\ pauses \in Nat
  /\ steady \in [Events -> SUBSET Subscriptions]

Unclaimed == [e \in Events |-> "none"]

Init ==
  /\ events = [e \in Events |-> [status |-> "absent", held |-> 0]]
  /\ active = Subscriptions
  /\ deliveries = [e \in Events |-> [s \in Subscriptions |-> 0]]
  /\ pc = [r \in Replicas |-> "idle"]
  /\ elapsed = [r \in Replicas |-> 0]
  /\ stage = [r \in Replicas |-> Unclaimed]
  /\ targets = [r \in Replicas |-> {}]
  /\ faults = 0 /\ stops = 0 /\ pauses = 0
  /\ steady = [e \in Events |-> {}]

Fault == faults < MaxFaults /\ faults' = faults + 1

(* What a write to several rows leaves behind when the call raises.        *)
Landed(all) ==
  {part \in SUBSET all :
     \/ part = {}
     \/ Backend = "mongo"
     \/ LostReplies /\ part = all}

(* held is the age of locked_at (of lease_until - lease_ttl_s in memory),  *)
(* and 0 but for claimed rows: no call reads it of another.                *)
MoveTo(part, status, held) ==
  events' = [e \in Events |->
    IF e \in part THEN [status |-> status, held |-> held] ELSE events[e]]

-------------------------------------------------------------------------------
(* A producer appends an event; a known event_id is left as it is.         *)
Append(e) ==
  /\ events[e].status = "absent"
  /\ MoveTo({e}, "pending", 0)
  /\ steady' = [steady EXCEPT ![e] = active]
  /\ UNCHANGED <<active, deliveries, pc, elapsed, stage, targets, faults, stops, pauses>>

(* An owner resumes, pauses or deletes a subscription.                     *)
Resume(s) ==
  /\ s \notin active
  /\ active' = active \cup {s}
  /\ UNCHANGED <<events, deliveries, pc, elapsed, stage, targets, faults, stops, pauses, steady>>

Pause(s) ==
  /\ s \in active /\ pauses < MaxPauses
  /\ active' = active \ {s}
  /\ steady' = [e \in Events |-> steady[e] \ {s}]
  /\ pauses' = pauses + 1
  /\ UNCHANGED <<events, deliveries, pc, elapsed, stage, targets, faults, stops>>

-------------------------------------------------------------------------------
(* tick(): the clock is read once, for the reclaim and for the claim.  A   *)
(* failing reclaim_stale is logged and the tick goes on.                   *)
BeginTick(r) ==
  /\ pc[r] = "idle"
  /\ pc' = [pc EXCEPT ![r] = "reclaim"]
  /\ UNCHANGED <<events, deliveries, elapsed, stage, targets, faults, stops, world>>

(* Mutant: every claim is taken back, the way a reclaim on start-up would. *)
StaleAlways(e, r) == events[e].status = "claimed"

(* Mutant: the cutoff is compared the wrong way round.                     *)
StaleSwapped(e, r) == events[e].status = "claimed" /\ events[e].held < LeaseTtl + elapsed[r]

Stale(e, r) == events[e].status = "claimed" /\ events[e].held > LeaseTtl + elapsed[r]

ThenClaim(r) ==
  /\ pc[r] = "reclaim"
  /\ pc' = [pc EXCEPT ![r] = "claim"]
  /\ UNCHANGED <<deliveries, elapsed, stage, targets, stops, world>>

ReclaimStale(r) ==
  /\ ThenClaim(r)
  /\ MoveTo({e \in Events : Stale(e, r)}, "pending", 0)
  /\ UNCHANGED faults

ReclaimFails(r) == ThenClaim(r) /\ Fault /\ UNCHANGED events

(* claim_events: the batch_size oldest pending events by created_at; the   *)
(* memory store takes them as they were appended.                          *)
Batches ==
  LET ready == {e \in Events : events[e].status = "pending"} IN
  {batch \in SUBSET ready :
     /\ Cardinality(batch) <= BatchSize
     /\ batch = ready \/ Cardinality(batch) = BatchSize
     /\ \A e \in batch, f \in ready \ batch : Backend = "memory" \/ Created[e] <= Created[f]}

ClaimEvents(r) ==
  /\ pc[r] = "claim"
  /\ \E batch \in Batches :
       /\ batch \cap Undecodable = {}
       /\ MoveTo(batch, "claimed", elapsed[r])
       /\ stage' = [stage EXCEPT ![r] = [e \in Events |-> IF e \in batch THEN "claimed" ELSE "none"]]
       /\ pc' = [pc EXCEPT ![r] = IF batch = {} THEN "idle" ELSE "fanOut"]
       /\ elapsed' = [elapsed EXCEPT ![r] = IF batch = {} THEN 0 ELSE @]
  /\ UNCHANGED <<deliveries, targets, faults, stops, world>>

(* A tick that raises ends: the loop logs it and sleeps.  What it has      *)
(* claimed stays claimed, with no trace of what was done about it.         *)
EndTick(r) ==
  /\ pc' = [pc EXCEPT ![r] = "idle"]
  /\ elapsed' = [elapsed EXCEPT ![r] = 0]
  /\ stage' = [stage EXCEPT ![r] = Unclaimed]
  /\ targets' = [targets EXCEPT ![r] = {}]

ClaimFails(r) ==
  /\ pc[r] = "claim" /\ Fault
  /\ \E batch \in Batches : \E part \in Landed(batch) :
       /\ \A e \in part, f \in batch \ part : Created[e] <= Created[f]
       /\ MoveTo(part, "claimed", elapsed[r])
  /\ EndTick(r)
  /\ UNCHANGED <<deliveries, stops, world>>

(* The loop of Mongo's claim_events reads each document after it claimed   *)
(* it, and raises at the first it cannot read.                             *)
ClaimAborts(r) ==
  /\ pc[r] = "claim"
  /\ \E batch \in Batches : \E part \in SUBSET batch : \E bad \in part \cap Undecodable :
       /\ part \cap Undecodable = {bad}
       /\ \A e \in part : Created[e] <= Created[bad]
       /\ \A e \in part, f \in batch \ part : Created[e] <= Created[f]
       /\ MoveTo(part, "claimed", elapsed[r])
  /\ EndTick(r)
  /\ UNCHANGED <<deliveries, faults, stops, world>>

-------------------------------------------------------------------------------
(* The events of the batch, one after the other.  Goes(r, e, to) moves one *)
(* on.                                                                     *)
Goes(r, e, to) == stage' = [stage EXCEPT ![r][e] = to]

AtWork(r) == \E e \in Events : stage[r][e] \in {"enqueuing", "parking"}

(* Mutant: a refused target ends the fan-out instead of being skipped.     *)
TargetsUnlessBlocked(subs) == IF subs \cap Blocked = {} THEN subs ELSE {}

Targets(subs) == subs \ Blocked

(* _fan_out up to enqueue_many: for_event reads the active subscriptions;  *)
(* the data is serialised only if there are any.                           *)
Resolve(r, e) ==
  /\ stage[r][e] = "claimed" /\ ~AtWork(r)
  /\ \/ /\ active # {} /\ e \in Unserialisable
        /\ Goes(r, e, "parking")
        /\ UNCHANGED targets
     \/ /\ active = {} \/ (e \notin Unserialisable /\ Targets(active) = {})
        /\ Goes(r, e, "fannedOut")
        /\ UNCHANGED targets
     \/ /\ e \notin Unserialisable /\ Targets(active) # {}
        /\ Goes(r, e, "enqueuing")
        /\ targets' = [targets EXCEPT ![r] = Targets(active)]
  /\ UNCHANGED <<events, deliveries, pc, elapsed, faults, stops, world>>

ResolveFails(r, e) ==
  /\ stage[r][e] = "claimed" /\ ~AtWork(r) /\ Fault
  /\ Goes(r, e, "parking")
  /\ UNCHANGED <<events, deliveries, pc, elapsed, targets, stops, world>>

(* Every record gets a delivery_id of its own, and the delivery stores     *)
(* know duplicates by delivery_id only: a second fan-out adds deliveries.  *)
Deliver(e, subs) ==
  deliveries' = [deliveries EXCEPT ![e] =
    [s \in Subscriptions |-> IF s \in subs THEN @[s] + 1 ELSE @[s]]]

EnqueueMany(r, e) ==
  /\ stage[r][e] = "enqueuing"
  /\ Deliver(e, targets[r])
  /\ Goes(r, e, "fannedOut")
  /\ targets' = [targets EXCEPT ![r] = {}]
  /\ UNCHANGED <<events, pc, elapsed, faults, stops, world>>

EnqueueFails(r, e) ==
  /\ stage[r][e] = "enqueuing" /\ Fault
  /\ \E part \in Landed(targets[r]) : Deliver(e, part)
  /\ Goes(r, e, "parking")
  /\ targets' = [targets EXCEPT ![r] = {}]
  /\ UNCHANGED <<events, pc, elapsed, stops, world>>

(* Mutant: a failure parks what is left of the batch.                      *)
ParkedByBatch(r, e) == {f \in Events : f = e \/ stage[r][f] = "claimed"}

ParkedBy(r, e) == {e}

(* Mutant: the status is the one of a delivery.                            *)
DeadLettered == "dead_lettered"

Failed == "failed"

(* mark_failed does not look at the row; the tick goes on with the next    *)
(* event.  Should mark_failed raise itself, the tick ends.                 *)
MarkFailed(r, e) ==
  /\ stage[r][e] = "parking"
  /\ MoveTo(ParkedBy(r, e), Failed, 0)
  /\ stage' = [stage EXCEPT ![r] = [f \in Events |-> IF f \in ParkedBy(r, e) THEN "none" ELSE @[f]]]
  /\ UNCHANGED <<deliveries, pc, elapsed, targets, faults, stops, world>>

MarkFailedFails(r, e) ==
  /\ stage[r][e] = "parking" /\ Fault
  /\ UNCHANGED events \/ (LostReplies /\ MoveTo({e}, Failed, 0))
  /\ EndTick(r)
  /\ UNCHANGED <<deliveries, stops, world>>

(* ack: one call for all the events that were fanned out, none if there    *)
(* are none.  It does not look at the rows either.                         *)
Acked(r) == {e \in Events : stage[r][e] = "fannedOut"}
FannedOut(r) == pc[r] = "fanOut" /\ \A e \in Events : stage[r][e] \in {"none", "fannedOut"}

Ack(r) ==
  /\ FannedOut(r)
  /\ MoveTo(Acked(r), "done", 0)
  /\ EndTick(r)
  /\ UNCHANGED <<deliveries, faults, stops, world>>

AckFails(r) ==
  /\ FannedOut(r) /\ Acked(r) # {} /\ Fault
  /\ \E part \in Landed(Acked(r)) : MoveTo(part, "done", 0)
  /\ EndTick(r)
  /\ UNCHANGED <<deliveries, stops, world>>

-------------------------------------------------------------------------------
Stop(r) ==
  /\ pc[r] # "down" /\ stops < MaxStops
  /\ stops' = stops + 1
  /\ pc' = [pc EXCEPT ![r] = "down"]
  /\ elapsed' = [elapsed EXCEPT ![r] = 0]
  /\ stage' = [stage EXCEPT ![r] = Unclaimed]
  /\ targets' = [targets EXCEPT ![r] = {}]
  /\ UNCHANGED <<events, deliveries, faults, world>>

Start(r) ==
  /\ pc[r] = "down"
  /\ pc' = [pc EXCEPT ![r] = "idle"]
  /\ UNCHANGED <<events, deliveries, elapsed, stage, targets, faults, stops, world>>

(* Time passes, but not past HoldBound after a tick under way began.  It   *)
(* is modelled only while a claim has yet to become stale, or could still  *)
(* be made with a reading that has.                                        *)
TimerPending ==
  \/ \E e \in Events : events[e].status = "claimed" /\ events[e].held <= LeaseTtl
  \/ \E r \in Replicas, e \in Events :
       /\ pc[r] \in {"reclaim", "claim"} /\ elapsed[r] <= LeaseTtl
       /\ events[e].status \in {"pending", "claimed"}

Ticking(r) == pc[r] \in {"reclaim", "claim", "fanOut"}

Advance ==
  /\ TimerPending
  /\ \A r \in Replicas : Ticking(r) => elapsed[r] < HoldBound
  /\ events' = [e \in Events |->
       IF events[e].status = "claimed" THEN [events[e] EXCEPT !.held = @ + 1] ELSE events[e]]
  /\ elapsed' = [r \in Replicas |-> IF Ticking(r) THEN elapsed[r] + 1 ELSE elapsed[r]]
  /\ UNCHANGED <<deliveries, pc, stage, targets, faults, stops, world>>

ReplicaStep(r) ==
  \/ BeginTick(r) \/ ReclaimStale(r) \/ ReclaimFails(r)
  \/ ClaimEvents(r) \/ ClaimFails(r) \/ ClaimAborts(r)
  \/ \E e \in Events : \/ Resolve(r, e) \/ ResolveFails(r, e)
                       \/ EnqueueMany(r, e) \/ EnqueueFails(r, e)
                       \/ MarkFailed(r, e) \/ MarkFailedFails(r, e)
  \/ Ack(r) \/ AckFails(r) \/ Start(r)

Next ==
  \/ \E e \in Events : Append(e)
  \/ \E s \in Subscriptions : Resume(s) \/ Pause(s)
  \/ \E r \in Replicas : ReplicaStep(r) \/ Stop(r)
  \/ Advance

Spec == Init /\ [][Next]_vars

(* A replica's event loop keeps running what is ready, an operator starts  *)
(* a stopped replica again, and time passes.                               *)
FairSpec == Spec /\ (\A r \in Replicas : WF_vars(ReplicaStep(r))) /\ WF_vars(Advance)

-------------------------------------------------------------------------------
(* An event in a tick's hands is claimed by that tick and by no other: no  *)
(* two replicas fan out, acknowledge or park it at the same time.          *)
ExclusiveClaim ==
  \A r \in Replicas, e \in Events :
    stage[r][e] # "none" =>
      /\ events[e] = [status |-> "claimed", held |-> elapsed[r]]
      /\ \A q \in Replicas \ {r} : stage[q][e] = "none"

(* "Mark events DONE once their deliveries are enqueued" (base.py): every  *)
(* subscription that was active ever since a done event was appended, and  *)
(* is not blocked, has a delivery of it, whatever failed on the way.       *)
DoneMeansEnqueued ==
  \A e \in Events :
    events[e].status = "done" => \A s \in steady[e] \ Blocked : deliveries[e][s] > 0

(* A subscription gets one delivery of an event, and one more for each     *)
(* failure or crash that made a tick forget what it had fanned out.        *)
DuplicatesBounded ==
  \A e \in Events, s \in Subscriptions : deliveries[e][s] <= 1 + faults + stops

(* "One bad event must not block the batch" (ingestor.py): a failure parks *)
(* one event, the one it happened to.                                      *)
FailureParksOne ==
  Cardinality({e \in Events \ Unserialisable : events[e].status = "failed"}) <= faults

(* A settled event stays as it is: no late ack, mark_failed or reclaim     *)
(* turns done into failed, or has it fanned out once more.                 *)
SettledIsFinal ==
  [][\A e \in Events : events[e].status \in Settled => events'[e] = events[e]]_vars

(* Every appended event is fanned out or parked in the end, whatever the   *)
(* (finitely many) crashes and failures do: unless a document that cannot  *)
(* be read is in the table, which fails the tick each time it is claimed   *)
(* and is never parked.                                                    *)
EventuallyIngested ==
  \A e \in Events :
    events[e].status = "pending" ~>
      \/ events[e].status \in Settled
      \/ \E bad \in Undecodable : events[bad].status # "absent"
===============================================================================
