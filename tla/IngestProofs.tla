----------------------------- MODULE IngestProofs -----------------------------
(***************************************************************************)
(* Theorems about Ingest, for every set of replicas, events and            *)
(* subscriptions, every database, and any number of failures and crashes.  *)
(***************************************************************************)
EXTENDS Ingest, FiniteSetTheorems, TLAPS

(* One replica, or ticks that end before their claims can be taken back.   *)
SingleReplica  == \A r, q \in Replicas : r = q
TimelyTicks    == HoldBound <= LeaseTtl
SafeDeployment == SingleReplica \/ TimelyTicks

-------------------------------------------------------------------------------
(* Type correctness.                                                       *)
LEMMA MoveFits ==
  ASSUME TypeOK, NEW part \in SUBSET Events, NEW status \in Status, NEW held \in Nat,
         MoveTo(part, status, held)
  PROVE  /\ events' \in [Events -> [status: Status, held: Nat]]
         /\ \A e \in part : events'[e] = [status |-> status, held |-> held]
         /\ \A e \in Events \ part : events'[e] = events[e]
BY DEF MoveTo, TypeOK

LEMMA EndFits ==
  ASSUME TypeOK, NEW r \in Replicas, EndTick(r)
  PROVE  /\ pc' \in [Replicas -> {"idle", "reclaim", "claim", "fanOut", "down"}]
         /\ elapsed' \in [Replicas -> Nat]
         /\ stage' \in [Replicas -> [Events -> Stages]]
         /\ targets' \in [Replicas -> SUBSET Subscriptions]
         /\ pc'[r] = "idle" /\ elapsed'[r] = 0 /\ targets'[r] = {}
         /\ \A e \in Events : stage'[r][e] = "none"
         /\ \A q \in Replicas \ {r} :
              /\ pc'[q] = pc[q] /\ elapsed'[q] = elapsed[q]
              /\ stage'[q] = stage[q] /\ targets'[q] = targets[q]
<1>1. Unclaimed \in [Events -> Stages] /\ \A e \in Events : Unclaimed[e] = "none"
  BY DEF Unclaimed, Stages
<1>2. stage' = [stage EXCEPT ![r] = Unclaimed] /\ stage \in [Replicas -> [Events -> Stages]]
  BY DEF EndTick, TypeOK
<1>3. stage' \in [Replicas -> [Events -> Stages]]
  BY <1>1, <1>2
<1>4. stage'[r] = Unclaimed /\ \A q \in Replicas \ {r} : stage'[q] = stage[q]
  BY <1>2
<1> HIDE DEF Unclaimed
<1> QED
  BY <1>1, <1>3, <1>4 DEF EndTick, TypeOK

LEMMA FaultFits ==
  ASSUME TypeOK, Fault
  PROVE  faults' \in Nat
BY DEF Fault, TypeOK

LEMMA GoesFits ==
  ASSUME TypeOK, NEW r \in Replicas, NEW e \in Events, NEW to \in Stages, Goes(r, e, to)
  PROVE  /\ stage' \in [Replicas -> [Events -> Stages]]
         /\ stage'[r][e] = to
         /\ \A f \in Events \ {e} : stage'[r][f] = stage[r][f]
         /\ \A q \in Replicas \ {r} : stage'[q] = stage[q]
BY DEF Goes, TypeOK

LEMMA DeliverFits ==
  ASSUME TypeOK, NEW e \in Events, NEW subs \in SUBSET Subscriptions, Deliver(e, subs)
  PROVE  /\ deliveries' \in [Events -> [Subscriptions -> Nat]]
         /\ \A f \in Events, s \in Subscriptions : deliveries'[f][s] >= deliveries[f][s]
         /\ \A s \in subs : deliveries'[e][s] > 0
BY DEF Deliver, TypeOK

LEMMA BatchesFit ==
  ASSUME TypeOK, NEW batch \in Batches
  PROVE  batch \in SUBSET Events /\ \A e \in batch : events[e].status = "pending"
BY DEF Batches

LEMMA LandedFits ==
  ASSUME NEW all, NEW part \in Landed(all)
  PROVE  part \in SUBSET all
BY DEF Landed

LEMMA TypedInit == Init => TypeOK
BY DEF Init, TypeOK, Status, Stages, Unclaimed

(* Producers and owners.                                                   *)
LEMMA TypedWorld ==
  ASSUME TypeOK, (\E e \in Events : Append(e)) \/ (\E s \in Subscriptions : Resume(s) \/ Pause(s))
  PROVE  TypeOK'
<1>1. ASSUME NEW e \in Events, Append(e) PROVE TypeOK'
  <2>1. events' \in [Events -> [status: Status, held: Nat]]
    <3>1. MoveTo({e}, "pending", 0) /\ "pending" \in Status
      BY <1>1 DEF Append, Status
    <3> QED
      BY <3>1, MoveFits
  <2> QED
    BY <1>1, <2>1 DEF Append, TypeOK
<1>2. ASSUME NEW s \in Subscriptions, Resume(s) PROVE TypeOK'
  BY <1>2 DEF Resume, TypeOK
<1>3. ASSUME NEW s \in Subscriptions, Pause(s) PROVE TypeOK'
  BY <1>3 DEF Pause, TypeOK
<1> QED
  BY <1>1, <1>2, <1>3

(* A tick up to its claim.                                                 *)
LEMMA TypedClaim ==
  ASSUME TypeOK, NEW r \in Replicas,
         \/ BeginTick(r) \/ ReclaimStale(r) \/ ReclaimFails(r)
         \/ ClaimEvents(r) \/ ClaimFails(r) \/ ClaimAborts(r)
  PROVE  TypeOK'
<1>1. CASE BeginTick(r)
  BY <1>1 DEF BeginTick, world, TypeOK
<1>2. CASE ReclaimStale(r)
  <2>1. events' \in [Events -> [status: Status, held: Nat]]
    <3>1. MoveTo({e \in Events : Stale(e, r)}, "pending", 0) /\ "pending" \in Status
      BY <1>2 DEF ReclaimStale, Status
    <3> QED
      BY <3>1, MoveFits
  <2> QED
    BY <1>2, <2>1 DEF ReclaimStale, ThenClaim, world, TypeOK
<1>3. CASE ReclaimFails(r)
  BY <1>3, FaultFits DEF ReclaimFails, ThenClaim, world, TypeOK
<1>4. "claimed" \in Status /\ elapsed[r] \in Nat
  BY DEF Status, TypeOK
<1>5. CASE ClaimEvents(r)
  <2>1. PICK batch \in Batches :
          /\ MoveTo(batch, "claimed", elapsed[r])
          /\ stage' = [stage EXCEPT ![r] = [e \in Events |-> IF e \in batch THEN "claimed" ELSE "none"]]
          /\ pc' = [pc EXCEPT ![r] = IF batch = {} THEN "idle" ELSE "fanOut"]
          /\ elapsed' = [elapsed EXCEPT ![r] = IF batch = {} THEN 0 ELSE @]
    BY <1>5 DEF ClaimEvents
  <2>2. events' \in [Events -> [status: Status, held: Nat]]
    BY <1>4, <2>1, MoveFits, BatchesFit
  <2>3. stage' \in [Replicas -> [Events -> Stages]]
    <3>1. [e \in Events |-> IF e \in batch THEN "claimed" ELSE "none"] \in [Events -> Stages]
      BY DEF Stages
    <3> QED
      BY <2>1, <3>1 DEF TypeOK
  <2> QED
    BY <1>4, <1>5, <2>1, <2>2, <2>3 DEF ClaimEvents, world, TypeOK
<1>6. CASE ClaimFails(r)
  <2>1. events' \in [Events -> [status: Status, held: Nat]]
    <3>1. PICK batch \in Batches : \E part \in Landed(batch) : MoveTo(part, "claimed", elapsed[r])
      BY <1>6 DEF ClaimFails
    <3>2. PICK part \in Landed(batch) : MoveTo(part, "claimed", elapsed[r])
      BY <3>1
    <3>3. part \in SUBSET Events
      BY BatchesFit, LandedFits
    <3> QED
      BY <1>4, <3>2, <3>3, MoveFits
  <2> QED
    BY <1>6, <2>1, EndFits, FaultFits DEF ClaimFails, world, TypeOK
<1>7. CASE ClaimAborts(r)
  <2>1. events' \in [Events -> [status: Status, held: Nat]]
    <3>1. PICK batch \in Batches : \E part \in SUBSET batch : MoveTo(part, "claimed", elapsed[r])
      BY <1>7 DEF ClaimAborts
    <3>2. PICK part \in SUBSET batch : MoveTo(part, "claimed", elapsed[r])
      BY <3>1
    <3> QED
      BY <1>4, <3>2, MoveFits, BatchesFit
  <2> QED
    BY <1>7, <2>1, EndFits DEF ClaimAborts, world, TypeOK
<1> QED
  BY <1>1, <1>2, <1>3, <1>5, <1>6, <1>7

(* The fan-out of one event.                                               *)
LEMMA TypedFanOut ==
  ASSUME TypeOK, NEW r \in Replicas, NEW e \in Events,
         \/ Resolve(r, e) \/ ResolveFails(r, e) \/ EnqueueMany(r, e) \/ EnqueueFails(r, e)
         \/ MarkFailed(r, e) \/ MarkFailedFails(r, e)
  PROVE  TypeOK'
<1>1. Stages = {"none", "claimed", "enqueuing", "parking", "fannedOut"} /\ "failed" \in Status
  BY DEF Stages, Status, Settled
<1>2. CASE Resolve(r, e)
  <2>1. stage' \in [Replicas -> [Events -> Stages]]
    BY <1>1, <1>2, GoesFits DEF Resolve
  <2>2. targets' \in [Replicas -> SUBSET Subscriptions]
    BY <1>2 DEF Resolve, Targets, TypeOK
  <2> QED
    BY <1>2, <2>1, <2>2 DEF Resolve, world, TypeOK
<1>3. CASE ResolveFails(r, e)
  BY <1>1, <1>3, GoesFits, FaultFits DEF ResolveFails, world, TypeOK
<1>4. targets[r] \in SUBSET Subscriptions
  BY DEF TypeOK
<1>5. CASE EnqueueMany(r, e)
  BY <1>1, <1>4, <1>5, GoesFits, DeliverFits DEF EnqueueMany, world, TypeOK
<1>6. CASE EnqueueFails(r, e)
  <2>1. deliveries' \in [Events -> [Subscriptions -> Nat]]
    BY <1>4, <1>6, LandedFits, DeliverFits DEF EnqueueFails
  <2> QED
    BY <1>1, <1>6, <2>1, GoesFits, FaultFits DEF EnqueueFails, world, TypeOK
<1>7. CASE MarkFailed(r, e)
  <2>1. events' \in [Events -> [status: Status, held: Nat]]
    BY <1>1, <1>7, MoveFits DEF MarkFailed, ParkedBy, Failed
  <2>2. stage' \in [Replicas -> [Events -> Stages]]
    BY <1>1, <1>7 DEF MarkFailed, TypeOK
  <2> QED
    BY <1>7, <2>1, <2>2 DEF MarkFailed, world, TypeOK
<1>8. CASE MarkFailedFails(r, e)
  <2>1. events' \in [Events -> [status: Status, held: Nat]]
    <3>1. CASE UNCHANGED events
      BY <3>1 DEF TypeOK
    <3>2. CASE MoveTo({e}, Failed, 0)
      BY <1>1, <3>2, MoveFits DEF Failed
    <3> QED
      BY <1>8, <3>1, <3>2 DEF MarkFailedFails
  <2> QED
    BY <1>8, <2>1, EndFits, FaultFits DEF MarkFailedFails, world, TypeOK
<1> QED
  BY <1>2, <1>3, <1>5, <1>6, <1>7, <1>8

(* The end of a tick, a crash, a restart, and the passing of time.         *)
LEMMA TypedEnd ==
  ASSUME TypeOK,
         \/ \E r \in Replicas : Ack(r) \/ AckFails(r) \/ Stop(r) \/ Start(r)
         \/ Advance
  PROVE  TypeOK'
<1>1. "done" \in Status
  BY DEF Status, Settled
<1>2. ASSUME NEW r \in Replicas, Ack(r) PROVE TypeOK'
  <2>1. events' \in [Events -> [status: Status, held: Nat]]
    <3>1. Acked(r) \in SUBSET Events /\ MoveTo(Acked(r), "done", 0)
      BY <1>2 DEF Ack, Acked
    <3> QED
      BY <1>1, <3>1, MoveFits
  <2> QED
    BY <1>2, <2>1, EndFits DEF Ack, world, TypeOK
<1>3. ASSUME NEW r \in Replicas, AckFails(r) PROVE TypeOK'
  <2>1. events' \in [Events -> [status: Status, held: Nat]]
    <3>1. PICK part \in Landed(Acked(r)) : MoveTo(part, "done", 0)
      BY <1>3 DEF AckFails
    <3>2. part \in SUBSET Events
      BY LandedFits DEF Acked
    <3> QED
      BY <1>1, <3>1, <3>2, MoveFits
  <2> QED
    BY <1>3, <2>1, EndFits, FaultFits DEF AckFails, world, TypeOK
<1>4. ASSUME NEW r \in Replicas, Stop(r) PROVE TypeOK'
  <2>1. Unclaimed \in [Events -> Stages]
    BY DEF Unclaimed, Stages
  <2>2. stops' \in Nat
    BY <1>4 DEF Stop, TypeOK
  <2> HIDE DEF Unclaimed
  <2> QED
    BY <1>4, <2>1, <2>2 DEF Stop, world, TypeOK
<1>5. ASSUME NEW r \in Replicas, Start(r) PROVE TypeOK'
  BY <1>5 DEF Start, world, TypeOK
<1>6. CASE Advance
  <2>1. events' \in [Events -> [status: Status, held: Nat]]
    BY <1>6 DEF Advance, TypeOK
  <2>2. elapsed' \in [Replicas -> Nat]
    BY <1>6 DEF Advance, TypeOK
  <2> QED
    BY <1>6, <2>1, <2>2 DEF Advance, world, TypeOK
<1> QED
  BY <1>2, <1>3, <1>4, <1>5, <1>6

LEMMA TypedStep == TypeOK /\ [Next]_vars => TypeOK'
<1> SUFFICES ASSUME TypeOK, [Next]_vars PROVE TypeOK'
  OBVIOUS
<1>1. CASE UNCHANGED vars
  BY <1>1 DEF vars, TypeOK
<1>2. CASE Next
  BY <1>2, TypedWorld, TypedClaim, TypedFanOut, TypedEnd DEF Next, ReplicaStep
<1> QED
  BY <1>1, <1>2

(* Events, claims and deliveries keep their types.                         *)
THEOREM IngestTypes == Spec => []TypeOK
BY TypedInit, TypedStep, PTL DEF Spec

-------------------------------------------------------------------------------
(* What done means.  Owed: who must have a delivery of the event.          *)
Owed(e)      == steady[e] \ Blocked
Fulfilled(e) == \A s \in Owed(e) : deliveries[e][s] > 0

Kept ==
  /\ \A e \in Events : steady[e] \subseteq active
  /\ \A e \in Events : events[e].status = "absent" => \A r \in Replicas : stage[r][e] = "none"
  /\ \A e \in Events : events[e].status = "done" => Fulfilled(e)
  /\ \A r \in Replicas, e \in Events : stage[r][e] = "fannedOut" => Fulfilled(e)
  /\ \A r \in Replicas, e \in Events : stage[r][e] = "enqueuing" =>
       Owed(e) \subseteq targets[r] /\ \A f \in Events \ {e} : stage[r][f] # "enqueuing"

(* A replica's step, as far as Kept can tell.                              *)
Careful ==
  /\ UNCHANGED <<active, steady>>
  /\ \A e \in Events, s \in Subscriptions : deliveries'[e][s] >= deliveries[e][s]
  /\ \A e \in Events : events'[e].status = "absent" => events[e].status = "absent"
  /\ \A e \in Events : events'[e].status = "done" =>
       events[e].status = "done" \/ \E r \in Replicas : stage[r][e] = "fannedOut"
  /\ \A r \in Replicas, e \in Events :
       stage'[r][e] # "none" => stage[r][e] # "none" \/ events[e].status = "pending"
  /\ \A r \in Replicas, e \in Events :
       stage'[r][e] = "fannedOut" => stage[r][e] = "fannedOut" \/ Fulfilled(e)'
  /\ \A r \in Replicas, e \in Events : stage'[r][e] = "enqueuing" =>
       \/ stage[r][e] = "enqueuing" /\ targets'[r] = targets[r]
       \/ Owed(e)' \subseteq targets'[r] /\ \A f \in Events \ {e} : stage'[r][f] # "enqueuing"

LEMMA CarefulKeeps == TypeOK /\ TypeOK' /\ Kept /\ Careful => Kept'
<1> SUFFICES ASSUME TypeOK, TypeOK', Kept, Careful PROVE Kept'
  OBVIOUS
<1>1. ASSUME NEW e \in Events PROVE Owed(e)' = Owed(e) /\ Owed(e) \subseteq Subscriptions
  BY DEF Owed, Careful, TypeOK
<1>2. ASSUME NEW e \in Events, Fulfilled(e) PROVE Fulfilled(e)'
  <2>1. ASSUME NEW s \in Owed(e) PROVE deliveries'[e][s] > 0
    <3>1. deliveries[e][s] > 0 /\ deliveries'[e][s] >= deliveries[e][s]
      BY <1>1, <1>2 DEF Fulfilled, Careful
    <3>2. deliveries[e][s] \in Nat /\ deliveries'[e][s] \in Nat
      BY <1>1 DEF TypeOK
    <3> QED
      BY <3>1, <3>2
  <2> QED
    BY <1>1, <2>1 DEF Fulfilled
<1>3. \A e \in Events : steady'[e] \subseteq active'
  BY DEF Kept, Careful
<1>4. \A e \in Events : events'[e].status = "absent" => \A r \in Replicas : stage'[r][e] = "none"
  BY DEF Kept, Careful
<1>5. \A e \in Events : events'[e].status = "done" => Fulfilled(e)'
  BY <1>2 DEF Kept, Careful
<1>6. \A r \in Replicas, e \in Events : stage'[r][e] = "fannedOut" => Fulfilled(e)'
  BY <1>2 DEF Kept, Careful
<1>7. ASSUME NEW r \in Replicas, NEW e \in Events, stage'[r][e] = "enqueuing"
      PROVE  Owed(e)' \subseteq targets'[r] /\ \A f \in Events \ {e} : stage'[r][f] # "enqueuing"
  BY <1>1, <1>7 DEF Kept, Careful
<1> QED
  BY <1>3, <1>4, <1>5, <1>6, <1>7 DEF Kept

(* Deliveries and what ticks hold are left alone, but for events that are  *)
(* claimed or go to another row status.                                    *)
LEMMA CarefulClaims ==
  ASSUME TypeOK, NEW r \in Replicas,
         \/ BeginTick(r) \/ ReclaimStale(r) \/ ReclaimFails(r)
         \/ ClaimEvents(r) \/ ClaimFails(r) \/ ClaimAborts(r)
  PROVE  Careful
<1>1. UNCHANGED <<active, steady, deliveries>>
  BY DEF BeginTick, ReclaimStale, ReclaimFails, ThenClaim, ClaimEvents, ClaimFails, ClaimAborts, world
<1>2. \A e \in Events, s \in Subscriptions : deliveries'[e][s] >= deliveries[e][s]
  BY <1>1 DEF TypeOK
<1>3. \A e \in Events : events'[e] = events[e] \/ events'[e].status \in {"pending", "claimed"}
  <2>1. elapsed[r] \in Nat /\ "pending" \in Status /\ "claimed" \in Status
    BY DEF TypeOK, Status
  <2>2. CASE ReclaimStale(r)
    <3>1. MoveTo({e \in Events : Stale(e, r)}, "pending", 0)
      BY <2>2 DEF ReclaimStale
    <3> QED
      BY <2>1, <3>1 DEF MoveTo
  <2>3. ASSUME NEW part \in SUBSET Events, MoveTo(part, "claimed", elapsed[r])
        PROVE  \A e \in Events : events'[e] = events[e] \/ events'[e].status = "claimed"
    BY <2>1, <2>3 DEF MoveTo
  <2>4. CASE ClaimEvents(r)
    BY <2>3, <2>4, BatchesFit DEF ClaimEvents
  <2>5. CASE ClaimFails(r)
    <3>1. PICK batch \in Batches : \E part \in Landed(batch) : MoveTo(part, "claimed", elapsed[r])
      BY <2>5 DEF ClaimFails
    <3>2. Landed(batch) \subseteq SUBSET Events
      BY BatchesFit, LandedFits
    <3> QED
      BY <2>3, <3>1, <3>2
  <2>6. CASE ClaimAborts(r)
    <3>1. PICK batch \in Batches : \E part \in SUBSET batch : MoveTo(part, "claimed", elapsed[r])
      BY <2>6 DEF ClaimAborts
    <3>2. SUBSET batch \subseteq SUBSET Events
      BY BatchesFit
    <3> QED
      BY <2>3, <3>1, <3>2
  <2>7. CASE BeginTick(r) \/ ReclaimFails(r)
    BY <2>7 DEF BeginTick, ReclaimFails
  <2> QED
    BY <2>2, <2>4, <2>5, <2>6, <2>7
<1>4. \A q \in Replicas, e \in Events :
        \/ stage'[q][e] = stage[q][e] /\ targets'[q] = targets[q]
        \/ stage'[q][e] = "none"
        \/ stage'[q][e] = "claimed" /\ events[e].status = "pending"
  <2>1. CASE ClaimEvents(r)
    <3>1. PICK batch \in Batches :
            stage' = [stage EXCEPT ![r] = [e \in Events |-> IF e \in batch THEN "claimed" ELSE "none"]]
      BY <2>1 DEF ClaimEvents
    <3>2. targets' = targets
      BY <2>1 DEF ClaimEvents
    <3> QED
      BY <3>1, <3>2, BatchesFit DEF TypeOK
  <2>2. CASE ClaimFails(r) \/ ClaimAborts(r)
    BY <2>2, EndFits DEF ClaimFails, ClaimAborts
  <2>3. CASE UNCHANGED <<stage, targets>>
    BY <2>3
  <2> QED
    BY <2>1, <2>2, <2>3 DEF BeginTick, ReclaimStale, ReclaimFails, ThenClaim
<1> QED
  BY <1>1, <1>2, <1>3, <1>4 DEF Careful

(* The fan-out of one event.                                               *)
LEMMA CarefulFanOut ==
  ASSUME TypeOK, Kept, NEW r \in Replicas, NEW e \in Events,
         \/ Resolve(r, e) \/ ResolveFails(r, e) \/ EnqueueMany(r, e) \/ EnqueueFails(r, e)
         \/ MarkFailed(r, e) \/ MarkFailedFails(r, e)
  PROVE  Careful
<1>1. /\ "failed" \in Status /\ "enqueuing" \in Stages /\ "parking" \in Stages /\ "fannedOut" \in Stages
      /\ targets[r] \in SUBSET Subscriptions
  BY DEF Status, Settled, Stages, TypeOK
<1>2. UNCHANGED <<active, steady>>
  BY DEF Resolve, ResolveFails, EnqueueMany, EnqueueFails, MarkFailed, MarkFailedFails, world
<1>3. \A f \in Events, s \in Subscriptions : deliveries'[f][s] >= deliveries[f][s]
  <2>1. CASE UNCHANGED deliveries
    BY <2>1 DEF TypeOK
  <2>2. CASE EnqueueMany(r, e)
    BY <1>1, <2>2, DeliverFits DEF EnqueueMany
  <2>3. CASE EnqueueFails(r, e)
    <3>1. PICK part \in Landed(targets[r]) : Deliver(e, part)
      BY <2>3 DEF EnqueueFails
    <3>2. part \in SUBSET Subscriptions
      BY <1>1, LandedFits
    <3> QED
      BY <3>1, <3>2, DeliverFits
  <2> QED
    BY <2>1, <2>2, <2>3 DEF Resolve, ResolveFails, MarkFailed, MarkFailedFails
<1>4. \A f \in Events : events'[f] = events[f] \/ events'[f].status = "failed"
  <2>1. CASE UNCHANGED events
    BY <2>1
  <2>2. CASE MoveTo({e}, "failed", 0)
    BY <1>1, <2>2 DEF MoveTo
  <2> QED
    BY <2>1, <2>2
    DEF Resolve, ResolveFails, EnqueueMany, EnqueueFails, MarkFailed, MarkFailedFails, ParkedBy, Failed
<1>5. CASE Resolve(r, e)
  <2>1. /\ stage[r][e] = "claimed" /\ ~AtWork(r)
        /\ \A q \in Replicas \ {r} : stage'[q] = stage[q]
        /\ \A f \in Events \ {e} : stage'[r][f] = stage[r][f]
    BY <1>1, <1>5, GoesFits DEF Resolve
  <2>2. \A f \in Events : stage'[r][f] = "enqueuing" => f = e
    BY <2>1 DEF AtWork
  <2>3. Owed(e)' = Owed(e) /\ Owed(e) \subseteq Targets(active)
    BY <1>2 DEF Owed, Targets, Kept
  <2>4. stage'[r][e] = "enqueuing" => targets'[r] = Targets(active)
    <3>1. CASE Goes(r, e, "enqueuing") /\ targets' = [targets EXCEPT ![r] = Targets(active)]
      BY <3>1 DEF TypeOK
    <3>2. CASE Goes(r, e, "parking") \/ Goes(r, e, "fannedOut")
      BY <1>1, <3>2, GoesFits
    <3> QED
      BY <1>5, <3>1, <3>2 DEF Resolve
  <2>5. stage'[r][e] = "fannedOut" => Owed(e)' = {}
    <3>1. CASE active = {} \/ Targets(active) = {}
      BY <2>3, <3>1 DEF Targets
    <3>2. CASE Goes(r, e, "parking") \/ Goes(r, e, "enqueuing")
      BY <1>1, <3>2, GoesFits
    <3> QED
      BY <1>5, <3>1, <3>2 DEF Resolve
  <2>6. \A q \in Replicas \ {r} : targets'[q] = targets[q]
    BY <1>5 DEF Resolve, TypeOK
  <2> QED
    BY <1>2, <1>3, <1>4, <2>1, <2>2, <2>3, <2>4, <2>5, <2>6 DEF Careful, Fulfilled
<1>6. CASE ResolveFails(r, e)
  <2>1. targets' = targets /\ stage[r][e] = "claimed" /\ Goes(r, e, "parking")
    BY <1>6 DEF ResolveFails
  <2>2. \A q \in Replicas, f \in Events :
         stage'[q][f] = stage[q][f] \/ (q = r /\ f = e /\ stage'[q][f] = "parking")
    BY <1>1, <2>1, GoesFits
  <2> QED
    BY <1>2, <1>3, <1>4, <2>1, <2>2 DEF Careful
<1>7. CASE EnqueueMany(r, e)
  <2>1. stage[r][e] = "enqueuing" /\ Deliver(e, targets[r]) /\ Goes(r, e, "fannedOut")
    BY <1>7 DEF EnqueueMany
  <2>2. Owed(e)' = Owed(e) /\ Owed(e) \subseteq targets[r]
    BY <1>2, <2>1 DEF Owed, Kept
  <2>3. Fulfilled(e)'
    BY <1>1, <2>1, <2>2, DeliverFits DEF Fulfilled
  <2>4. \A f \in Events : stage'[r][f] # "enqueuing"
    BY <1>1, <2>1, GoesFits DEF Kept
  <2>5. \A q \in Replicas \ {r} : targets'[q] = targets[q]
    BY <1>7 DEF EnqueueMany, TypeOK
  <2>6. \A q \in Replicas, f \in Events :
         stage'[q][f] = stage[q][f] \/ (q = r /\ f = e /\ stage'[q][f] = "fannedOut")
    BY <1>1, <2>1, GoesFits
  <2> QED
    BY <1>2, <1>3, <1>4, <2>1, <2>3, <2>4, <2>5, <2>6 DEF Careful
<1>8. CASE EnqueueFails(r, e)
  <2>1. stage[r][e] = "enqueuing" /\ Goes(r, e, "parking")
    BY <1>8 DEF EnqueueFails
  <2>2. \A f \in Events : stage'[r][f] # "enqueuing"
    BY <1>1, <2>1, GoesFits DEF Kept
  <2>3. \A q \in Replicas \ {r} : targets'[q] = targets[q]
    BY <1>8 DEF EnqueueFails, TypeOK
  <2>4. \A q \in Replicas, f \in Events :
         stage'[q][f] = stage[q][f] \/ (q = r /\ f = e /\ stage'[q][f] = "parking")
    BY <1>1, <2>1, GoesFits
  <2> QED
    BY <1>2, <1>3, <1>4, <2>1, <2>2, <2>3, <2>4 DEF Careful
<1>9. CASE MarkFailed(r, e)
  <2>1. targets' = targets
    BY <1>9 DEF MarkFailed
  <2>2. \A q \in Replicas, f \in Events : stage'[q][f] = stage[q][f] \/ stage'[q][f] = "none"
    BY <1>9 DEF MarkFailed, ParkedBy, TypeOK
  <2> QED
    BY <1>2, <1>3, <1>4, <2>1, <2>2 DEF Careful
<1>10. CASE MarkFailedFails(r, e)
  <2>1. EndTick(r)
    BY <1>10 DEF MarkFailedFails
  <2>2. \A q \in Replicas, f \in Events :
          (stage'[q][f] = stage[q][f] /\ targets'[q] = targets[q]) \/ stage'[q][f] = "none"
    BY <2>1, EndFits
  <2> QED
    BY <1>2, <1>3, <1>4, <2>2 DEF Careful
<1> QED
  BY <1>5, <1>6, <1>7, <1>8, <1>9, <1>10

(* The end of a tick, a crash, a restart, and the passing of time.         *)
LEMMA CarefulEnd ==
  ASSUME TypeOK,
         \/ \E r \in Replicas : Ack(r) \/ AckFails(r) \/ Stop(r) \/ Start(r)
         \/ Advance
  PROVE  Careful
<1>1. UNCHANGED <<active, steady, deliveries>>
  BY DEF Ack, AckFails, Stop, Start, Advance, world
<1>2. \A e \in Events, s \in Subscriptions : deliveries'[e][s] >= deliveries[e][s]
  BY <1>1 DEF TypeOK
<1>3. ASSUME NEW e \in Events
      PROVE  \/ events'[e].status = events[e].status
             \/ events'[e].status = "done" /\ \E r \in Replicas : stage[r][e] = "fannedOut"
  <2>1. ASSUME NEW r \in Replicas, NEW part \in SUBSET Acked(r), MoveTo(part, "done", 0)
        PROVE  \/ events'[e].status = events[e].status
               \/ events'[e].status = "done" /\ stage[r][e] = "fannedOut"
    BY <2>1 DEF MoveTo, Acked, Status, Settled
  <2>2. CASE \E r \in Replicas : Ack(r)
    BY <2>1, <2>2 DEF Ack
  <2>3. CASE \E r \in Replicas : AckFails(r)
    BY <2>1, <2>3, LandedFits DEF AckFails
  <2>4. CASE Advance
    BY <2>4 DEF Advance, TypeOK
  <2>5. CASE UNCHANGED events
    BY <2>5
  <2> QED
    BY <2>2, <2>3, <2>4, <2>5 DEF Stop, Start
<1>4. \A q \in Replicas, e \in Events :
        (stage'[q][e] = stage[q][e] /\ targets'[q] = targets[q]) \/ stage'[q][e] = "none"
  <2>1. CASE \E r \in Replicas : Ack(r) \/ AckFails(r)
    BY <2>1, EndFits DEF Ack, AckFails
  <2>2. ASSUME NEW r \in Replicas, Stop(r)
        PROVE  \A q \in Replicas, e \in Events :
                 (stage'[q][e] = stage[q][e] /\ targets'[q] = targets[q]) \/ stage'[q][e] = "none"
    BY <2>2 DEF Stop, Unclaimed, TypeOK
  <2>3. CASE UNCHANGED <<stage, targets>>
    BY <2>3
  <2> QED
    BY <2>1, <2>2, <2>3 DEF Start, Advance
<1> QED
  BY <1>1, <1>2, <1>3, <1>4 DEF Careful

LEMMA KeptStep == TypeOK /\ Kept /\ [Next]_vars => Kept'
<1> SUFFICES ASSUME TypeOK, Kept, [Next]_vars PROVE Kept'
  OBVIOUS
<1>1. TypeOK'
  BY TypedStep
<1>2. ASSUME NEW e \in Events, Append(e) PROVE Kept'
  <2>1. /\ UNCHANGED <<active, deliveries, stage, targets>>
        /\ events[e].status = "absent" /\ MoveTo({e}, "pending", 0)
        /\ steady'[e] = active /\ \A f \in Events \ {e} : steady'[f] = steady[f]
    BY <1>2 DEF Append, TypeOK
  <2>2. events'[e].status = "pending" /\ \A f \in Events \ {e} : events'[f] = events[f]
    BY <2>1 DEF MoveTo
  <2>3. \A r \in Replicas : stage[r][e] = "none"
    BY <2>1 DEF Kept
  <2> QED
    BY <2>1, <2>2, <2>3 DEF Kept, Owed, Fulfilled
<1>3. ASSUME NEW s \in Subscriptions, Resume(s) PROVE Kept'
  BY <1>3 DEF Resume, Kept, Owed, Fulfilled
<1>4. ASSUME NEW s \in Subscriptions, Pause(s) PROVE Kept'
  <2>1. /\ UNCHANGED <<events, deliveries, stage, targets>> /\ active' = active \ {s}
        /\ \A e \in Events : steady'[e] = steady[e] \ {s}
    BY <1>4 DEF Pause
  <2> QED
    BY <2>1 DEF Kept, Owed, Fulfilled
<1>5. CASE UNCHANGED vars
  BY <1>5 DEF vars, Kept, Owed, Fulfilled
<1> QED
  BY <1>1, <1>2, <1>3, <1>4, <1>5, CarefulKeeps, CarefulClaims, CarefulFanOut, CarefulEnd
  DEF Next, ReplicaStep

LEMMA KeptAlways == Spec => [](TypeOK /\ Kept)
<1>1. Init => Kept
  BY DEF Init, Kept, Unclaimed
<1> QED
  BY <1>1, TypedInit, TypedStep, KeptStep, PTL DEF Spec

(* ack promises that the deliveries of a done event are enqueued: every    *)
(* subscription active ever since the event was appended has one, on every *)
(* database, however long ticks take, whatever fails or lands in part.     *)
THEOREM DoneIsEnqueued == Spec => []DoneMeansEnqueued
<1>1. Kept => DoneMeansEnqueued
  BY DEF Kept, Owed, Fulfilled, DoneMeansEnqueued
<1> QED
  BY <1>1, KeptAlways, PTL

-------------------------------------------------------------------------------
(* Whose an event is.                                                      *)
Held ==
  /\ \A r \in Replicas : elapsed[r] <= HoldBound /\ (~Ticking(r) => elapsed[r] = 0)
  /\ \A r \in Replicas, e \in Events : stage[r][e] # "none" => pc[r] = "fanOut"
  /\ ExclusiveClaim

(* A step of one replica leaves the others alone; it writes only to events *)
(* it holds, to pending and to stale ones.                                 *)
Orderly(r) ==
  /\ \A q \in Replicas \ {r} :
       pc'[q] = pc[q] /\ elapsed'[q] = elapsed[q] /\ stage'[q] = stage[q]
  /\ \/ elapsed'[r] = 0
     \/ elapsed'[r] = elapsed[r] /\ (Ticking(r) => Ticking(r)')
  /\ \A e \in Events : stage'[r][e] # "none" =>
       /\ pc'[r] = "fanOut"
       /\ \/ stage[r][e] # "none" /\ events'[e] = events[e] /\ elapsed'[r] = elapsed[r]
          \/ events[e].status = "pending" /\ events'[e] = [status |-> "claimed", held |-> elapsed'[r]]
  /\ \A e \in Events :
       events'[e] = events[e] \/ stage[r][e] # "none" \/ events[e].status = "pending" \/ Stale(e, r)

LEMMA Claimed ==
  ASSUME Held, NEW q \in Replicas, NEW e \in Events, stage[q][e] # "none"
  PROVE  /\ events[e] = [status |-> "claimed", held |-> elapsed[q]]
         /\ events[e].status = "claimed" /\ events[e].held = elapsed[q]
         /\ elapsed[q] <= HoldBound /\ pc[q] = "fanOut"
         /\ \A p \in Replicas \ {q} : stage[p][e] = "none"
<1>1. /\ events[e] = [status |-> "claimed", held |-> elapsed[q]]
      /\ \A p \in Replicas \ {q} : stage[p][e] = "none"
  BY DEF Held, ExclusiveClaim
<1>2. elapsed[q] <= HoldBound /\ pc[q] = "fanOut"
  BY DEF Held
<1> QED
  BY <1>1, <1>2

LEMMA NotStale ==
  ASSUME SafeDeployment, TypeOK, Held, NEW r \in Replicas, NEW q \in Replicas, NEW e \in Events,
         stage[q][e] # "none"
  PROVE  ~Stale(e, r)
<1>1. events[e].held = elapsed[q] /\ elapsed[q] <= HoldBound
  BY Claimed
<1>2. elapsed[q] \in Nat /\ elapsed[r] \in Nat /\ HoldBound \in Nat /\ LeaseTtl \in Nat
  BY IngestAssumption DEF TypeOK
<1>3. CASE q = r
  <2>1. ~(events[e].held > LeaseTtl + elapsed[r])
    BY <1>1, <1>2, <1>3
  <2> QED
    BY <2>1 DEF Stale
<1>4. CASE HoldBound <= LeaseTtl
  <2>1. ~(events[e].held > LeaseTtl + elapsed[r])
    BY <1>1, <1>2, <1>4
  <2> QED
    BY <2>1 DEF Stale
<1> QED
  BY <1>3, <1>4 DEF SafeDeployment, SingleReplica, TimelyTicks

LEMMA OrderlyHolds ==
  ASSUME SafeDeployment, TypeOK, Held, NEW r \in Replicas, Orderly(r)
  PROVE  /\ Held'
         /\ \A e \in Events : events[e].status \in Settled => events'[e] = events[e]
<1>1. "claimed" \notin Settled /\ "pending" \notin Settled /\ HoldBound \in Nat
  BY IngestAssumption DEF Settled
<1>2. ASSUME NEW q \in Replicas \ {r}, NEW e \in Events, stage'[q][e] # "none"
      PROVE  /\ events'[e] = [status |-> "claimed", held |-> elapsed'[q]]
             /\ pc'[q] = "fanOut"
             /\ \A p \in Replicas \ {q} : stage'[p][e] = "none"
  <2>1. /\ stage[q][e] # "none" /\ pc'[q] = pc[q] /\ elapsed'[q] = elapsed[q]
    BY <1>2 DEF Orderly
  <2>2. /\ events[e] = [status |-> "claimed", held |-> elapsed[q]]
        /\ \A p \in Replicas \ {q} : stage[p][e] = "none"
        /\ pc[q] = "fanOut"
    BY <2>1, Claimed
  <2>3. ~Stale(e, r) /\ stage[r][e] = "none" /\ events[e].status # "pending"
    BY <2>1, <2>2, NotStale
  <2>4. events'[e] = events[e] /\ stage'[r][e] = "none"
    BY <2>3 DEF Orderly
  <2>5. \A p \in Replicas \ {q} : stage'[p][e] = "none"
    BY <2>2, <2>4 DEF Orderly
  <2> QED
    BY <2>1, <2>2, <2>4, <2>5
<1>3. ASSUME NEW e \in Events, stage'[r][e] # "none"
      PROVE  /\ events'[e] = [status |-> "claimed", held |-> elapsed'[r]]
             /\ pc'[r] = "fanOut"
             /\ \A p \in Replicas \ {r} : stage'[p][e] = "none"
  <2>1. CASE stage[r][e] # "none" /\ events'[e] = events[e] /\ elapsed'[r] = elapsed[r]
    BY <1>3, <2>1, Claimed DEF Orderly
  <2>2. CASE events[e].status = "pending" /\ events'[e] = [status |-> "claimed", held |-> elapsed'[r]]
    <3>1. \A p \in Replicas : stage[p][e] = "none"
      BY <2>2, Claimed
    <3> QED
      BY <1>3, <2>2, <3>1 DEF Orderly
  <2> QED
    BY <1>3, <2>1, <2>2 DEF Orderly
<1>4. ASSUME NEW q \in Replicas
      PROVE  elapsed'[q] <= HoldBound /\ (~Ticking(q)' => elapsed'[q] = 0)
  <2>1. elapsed[q] <= HoldBound /\ (~Ticking(q) => elapsed[q] = 0)
    BY DEF Held
  <2>2. CASE q = r
    BY <1>1, <2>1, <2>2 DEF Orderly
  <2>3. CASE q # r
    BY <2>1, <2>3 DEF Orderly, Ticking
  <2> QED
    BY <2>2, <2>3
<1>5. Held'
  <2>1. ExclusiveClaim'
    BY <1>2, <1>3 DEF ExclusiveClaim
  <2>2. \A q \in Replicas, e \in Events : stage'[q][e] # "none" => pc'[q] = "fanOut"
    BY <1>2, <1>3
  <2> QED
    BY <1>4, <2>1, <2>2 DEF Held
<1>6. ASSUME NEW e \in Events, events[e].status \in Settled
      PROVE  events'[e] = events[e]
  <2>1. events[e].status # "claimed" /\ events[e].status # "pending"
    BY <1>1, <1>6
  <2>2. stage[r][e] = "none"
    BY <2>1, Claimed
  <2> QED
    BY <2>1, <2>2 DEF Orderly, Stale
<1> QED
  BY <1>5, <1>6

LEMMA OrderlyClaims ==
  ASSUME TypeOK, Held, NEW r \in Replicas,
         \/ BeginTick(r) \/ ReclaimStale(r) \/ ReclaimFails(r)
         \/ ClaimEvents(r) \/ ClaimFails(r) \/ ClaimAborts(r)
  PROVE  Orderly(r)
<1>1. "pending" \in Status /\ "claimed" \in Status /\ elapsed[r] \in Nat
  BY DEF TypeOK, Status
<1>2. pc[r] # "fanOut" /\ \A e \in Events : stage[r][e] = "none"
  <2>1. pc[r] # "fanOut"
    BY DEF BeginTick, ReclaimStale, ReclaimFails, ThenClaim, ClaimEvents, ClaimFails, ClaimAborts
  <2> QED
    BY <2>1 DEF Held
<1>3. CASE BeginTick(r) \/ ReclaimFails(r)
  <2>1. /\ UNCHANGED <<events, elapsed, stage>> /\ Ticking(r)'
        /\ \A q \in Replicas \ {r} : pc'[q] = pc[q]
    BY <1>3 DEF BeginTick, ReclaimFails, ThenClaim, Ticking, TypeOK
  <2> QED
    BY <1>2, <2>1 DEF Orderly
<1>4. CASE ReclaimStale(r)
  <2>1. /\ UNCHANGED <<elapsed, stage>> /\ Ticking(r)'
        /\ \A q \in Replicas \ {r} : pc'[q] = pc[q]
        /\ MoveTo({e \in Events : Stale(e, r)}, "pending", 0)
    BY <1>4 DEF ReclaimStale, ThenClaim, Ticking, TypeOK
  <2>2. \A e \in Events : events'[e] = events[e] \/ Stale(e, r)
    BY <1>1, <2>1 DEF MoveTo
  <2> QED
    BY <1>2, <2>1, <2>2 DEF Orderly
<1>5. CASE ClaimEvents(r)
  <2>1. PICK batch \in Batches :
          /\ MoveTo(batch, "claimed", elapsed[r])
          /\ stage' = [stage EXCEPT ![r] = [e \in Events |-> IF e \in batch THEN "claimed" ELSE "none"]]
          /\ pc' = [pc EXCEPT ![r] = IF batch = {} THEN "idle" ELSE "fanOut"]
          /\ elapsed' = [elapsed EXCEPT ![r] = IF batch = {} THEN 0 ELSE @]
    BY <1>5 DEF ClaimEvents
  <2>2. batch \in SUBSET Events /\ \A e \in batch : events[e].status = "pending"
    BY BatchesFit
  <2>3. /\ \A q \in Replicas \ {r} :
             pc'[q] = pc[q] /\ elapsed'[q] = elapsed[q] /\ stage'[q] = stage[q]
        /\ \A e \in Events : stage'[r][e] # "none" => e \in batch
        /\ batch = {} => elapsed'[r] = 0
        /\ batch # {} => elapsed'[r] = elapsed[r] /\ pc'[r] = "fanOut"
    BY <2>1 DEF TypeOK
  <2>4. /\ \A e \in batch : events'[e] = [status |-> "claimed", held |-> elapsed[r]]
        /\ \A e \in Events \ batch : events'[e] = events[e]
    BY <1>1, <2>1, <2>2, MoveFits
  <2> QED
    BY <2>2, <2>3, <2>4 DEF Orderly, Ticking
<1>6. CASE ClaimFails(r) \/ ClaimAborts(r)
  <2>1. EndTick(r)
    BY <1>6 DEF ClaimFails, ClaimAborts
  <2>2. ASSUME NEW batch \in Batches, NEW part \in SUBSET batch, MoveTo(part, "claimed", elapsed[r])
        PROVE  \A e \in Events : events'[e] = events[e] \/ events[e].status = "pending"
    BY <1>1, <2>2, BatchesFit DEF MoveTo
  <2>3. \A e \in Events : events'[e] = events[e] \/ events[e].status = "pending"
    <3>1. CASE ClaimFails(r)
      <4>1. PICK batch \in Batches : \E part \in Landed(batch) : MoveTo(part, "claimed", elapsed[r])
        BY <3>1 DEF ClaimFails
      <4>2. Landed(batch) \subseteq SUBSET batch
        BY LandedFits
      <4> QED
        BY <2>2, <4>1, <4>2
    <3>2. CASE ClaimAborts(r)
      <4>1. PICK batch \in Batches : \E part \in SUBSET batch : MoveTo(part, "claimed", elapsed[r])
        BY <3>2 DEF ClaimAborts
      <4> QED
        BY <2>2, <4>1
    <3> QED
      BY <1>6, <3>1, <3>2
  <2> QED
    BY <2>1, <2>3, EndFits DEF Orderly
<1> QED
  BY <1>3, <1>4, <1>5, <1>6

LEMMA OrderlyFanOut ==
  ASSUME TypeOK, Held, NEW r \in Replicas, NEW e \in Events,
         \/ Resolve(r, e) \/ ResolveFails(r, e) \/ EnqueueMany(r, e) \/ EnqueueFails(r, e)
         \/ MarkFailed(r, e) \/ MarkFailedFails(r, e)
  PROVE  Orderly(r)
<1>1. stage[r][e] # "none" /\ pc[r] = "fanOut"
  <2>1. stage[r][e] # "none"
    BY DEF Resolve, ResolveFails, EnqueueMany, EnqueueFails, MarkFailed, MarkFailedFails
  <2> QED
    BY <2>1 DEF Held
<1>2. \A f \in Events : events'[f] = events[f] \/ f = e
  <2>1. CASE MoveTo({e}, "failed", 0)
    BY <2>1 DEF MoveTo, Status, Settled
  <2>2. CASE UNCHANGED events
    BY <2>2
  <2> QED
    BY <2>1, <2>2
    DEF Resolve, ResolveFails, EnqueueMany, EnqueueFails, MarkFailed, MarkFailedFails, ParkedBy, Failed
<1>3. CASE Resolve(r, e) \/ ResolveFails(r, e) \/ EnqueueMany(r, e) \/ EnqueueFails(r, e)
  <2>1. UNCHANGED <<events, pc, elapsed>> /\ \E to \in Stages : Goes(r, e, to)
    BY <1>3 DEF Resolve, ResolveFails, EnqueueMany, EnqueueFails, Stages
  <2>2. /\ \A q \in Replicas \ {r} : stage'[q] = stage[q]
        /\ \A f \in Events \ {e} : stage'[r][f] = stage[r][f]
    BY <2>1, GoesFits
  <2> QED
    BY <1>1, <2>1, <2>2 DEF Orderly, Held, Ticking
<1>4. CASE MarkFailed(r, e)
  <2>1. /\ UNCHANGED <<pc, elapsed>>
        /\ \A q \in Replicas \ {r} : stage'[q] = stage[q]
        /\ stage'[r][e] = "none" /\ \A f \in Events \ {e} : stage'[r][f] \in {"none", stage[r][f]}
    BY <1>4 DEF MarkFailed, ParkedBy, TypeOK
  <2> QED
    BY <1>1, <1>2, <2>1 DEF Orderly, Held, Ticking
<1>5. CASE MarkFailedFails(r, e)
  <2>1. EndTick(r)
    BY <1>5 DEF MarkFailedFails
  <2> QED
    BY <1>1, <1>2, <2>1, EndFits DEF Orderly
<1> QED
  BY <1>3, <1>4, <1>5

LEMMA OrderlyEnd ==
  ASSUME TypeOK, Held, NEW r \in Replicas, Ack(r) \/ AckFails(r) \/ Stop(r) \/ Start(r)
  PROVE  Orderly(r)
<1>1. ASSUME NEW part \in SUBSET Acked(r), MoveTo(part, "done", 0)
      PROVE  \A e \in Events : events'[e] = events[e] \/ stage[r][e] # "none"
  BY <1>1 DEF MoveTo, Acked, Status, Settled
<1>2. CASE Ack(r) \/ AckFails(r)
  <2>1. EndTick(r)
    BY <1>2 DEF Ack, AckFails
  <2>2. \A e \in Events : events'[e] = events[e] \/ stage[r][e] # "none"
    BY <1>1, <1>2, LandedFits DEF Ack, AckFails
  <2> QED
    BY <2>1, <2>2, EndFits DEF Orderly
<1>3. CASE Stop(r)
  <2>1. /\ events' = events /\ elapsed'[r] = 0
        /\ \A e \in Events : stage'[r][e] = "none"
        /\ \A q \in Replicas \ {r} :
             pc'[q] = pc[q] /\ elapsed'[q] = elapsed[q] /\ stage'[q] = stage[q]
    BY <1>3 DEF Stop, Unclaimed, TypeOK
  <2> QED
    BY <2>1 DEF Orderly
<1>4. CASE Start(r)
  <2>1. /\ UNCHANGED <<events, elapsed, stage>> /\ pc[r] = "down"
        /\ \A q \in Replicas \ {r} : pc'[q] = pc[q]
    BY <1>4 DEF Start, TypeOK
  <2>2. \A e \in Events : stage[r][e] = "none"
    BY <2>1 DEF Held
  <2> QED
    BY <2>1, <2>2 DEF Orderly, Ticking
<1> QED
  BY <1>2, <1>3, <1>4

LEMMA HeldStep ==
  ASSUME SafeDeployment, TypeOK, Kept, Held, [Next]_vars
  PROVE  /\ Held'
         /\ \A e \in Events : events[e].status \in Settled => events'[e] = events[e]
<1>1. "absent" \notin Settled /\ "claimed" \notin Settled
  BY DEF Settled
<1>2. ASSUME NEW e \in Events, Append(e)
      PROVE  Held' /\ \A f \in Events : events[f].status \in Settled => events'[f] = events[f]
  <2>1. /\ UNCHANGED <<pc, elapsed, stage>> /\ events[e].status = "absent"
        /\ \A f \in Events \ {e} : events'[f] = events[f]
    BY <1>2 DEF Append, MoveTo
  <2>2. \A r \in Replicas : stage[r][e] = "none"
    BY <2>1 DEF Kept
  <2> QED
    BY <1>1, <2>1, <2>2 DEF Held, ExclusiveClaim, Ticking
<1>3. ASSUME NEW r \in Replicas, ReplicaStep(r) \/ Stop(r)
      PROVE  Orderly(r)
  BY <1>3, OrderlyClaims, OrderlyFanOut, OrderlyEnd DEF ReplicaStep
<1>4. CASE Advance
  <2>1. /\ UNCHANGED <<pc, stage>>
        /\ \A r \in Replicas : Ticking(r) => elapsed[r] < HoldBound
        /\ \A r \in Replicas : elapsed'[r] = IF Ticking(r) THEN elapsed[r] + 1 ELSE elapsed[r]
        /\ \A e \in Events : events'[e] =
             IF events[e].status = "claimed" THEN [events[e] EXCEPT !.held = @ + 1] ELSE events[e]
    BY <1>4 DEF Advance
  <2>2. \A r \in Replicas : elapsed'[r] <= HoldBound /\ (~Ticking(r)' => elapsed'[r] = 0)
    <3>1. HoldBound \in Nat /\ \A r \in Replicas : elapsed[r] \in Nat
      BY IngestAssumption DEF TypeOK
    <3> QED
      BY <2>1, <3>1 DEF Held, Ticking
  <2>3. ASSUME NEW r \in Replicas, NEW e \in Events, stage'[r][e] # "none"
        PROVE  /\ events'[e] = [status |-> "claimed", held |-> elapsed'[r]]
               /\ \A q \in Replicas \ {r} : stage'[q][e] = "none"
    <3>1. /\ events[e] = [status |-> "claimed", held |-> elapsed[r]]
          /\ pc[r] = "fanOut" /\ \A q \in Replicas \ {r} : stage[q][e] = "none"
      BY <2>1, <2>3, Claimed
    <3>2. Ticking(r)
      BY <3>1 DEF Ticking
    <3> QED
      BY <2>1, <3>1, <3>2
  <2>4. Held'
    BY <2>1, <2>2, <2>3 DEF Held, ExclusiveClaim
  <2> QED
    BY <1>1, <2>1, <2>4
<1>5. CASE (\E s \in Subscriptions : Resume(s) \/ Pause(s)) \/ UNCHANGED vars
  <2>1. UNCHANGED <<events, pc, elapsed, stage>>
    BY <1>5 DEF Resume, Pause, vars
  <2> QED
    BY <2>1 DEF Held, ExclusiveClaim, Ticking
<1> QED
  BY <1>2, <1>3, <1>4, <1>5, OrderlyHolds DEF Next

LEMMA HeldAlways == SafeDeployment /\ Spec => [](TypeOK /\ Kept /\ Held)
<1>1. Init => Held
  BY IngestAssumption DEF Init, Held, ExclusiveClaim, Ticking, Unclaimed
<1>2. SafeDeployment /\ TypeOK /\ Kept /\ Held /\ [Next]_vars => Held'
  BY HeldStep
<1>3. CASE SafeDeployment
  <2>1. TypeOK /\ Kept /\ Held /\ [Next]_vars => Held'
    BY <1>2, <1>3
  <2> QED
    BY <1>1, <2>1, KeptAlways, PTL DEF Spec
<1> QED
  BY <1>3

(* claim_events and reclaim_stale: an event in the hands of a tick belongs *)
(* to no other, if one replica runs, or if ticks take no longer than       *)
(* lease_ttl_s.                                                            *)
THEOREM ClaimsAreExclusive == SafeDeployment /\ Spec => []ExclusiveClaim
<1>1. Held => ExclusiveClaim
  BY DEF Held
<1> QED
  BY <1>1, HeldAlways, PTL

(* In such a deployment no late ack, mark_failed or reclaim touches a      *)
(* settled event.                                                          *)
THEOREM SettledStays == SafeDeployment /\ Spec => SettledIsFinal
<1>1. SafeDeployment /\ TypeOK /\ Kept /\ Held /\ [Next]_vars =>
        [\A e \in Events : events[e].status \in Settled => events'[e] = events[e]]_vars
  BY HeldStep
<1>2. CASE SafeDeployment
  <2>1. TypeOK /\ Kept /\ Held /\ [Next]_vars =>
          [\A e \in Events : events[e].status \in Settled => events'[e] = events[e]]_vars
    BY <1>1, <1>2
  <2> QED
    BY <2>1, <1>2, HeldAlways, PTL DEF Spec, SettledIsFinal
<1> QED
  BY <1>2

-------------------------------------------------------------------------------
(* Counting.  An event is suspect when it is parked or about to be; each   *)
(* one is, or will be, a failure of its own.                               *)
Suspects ==
  {e \in Events \ Unserialisable :
     events[e].status = "failed" \/ \E r \in Replicas : stage[r][e] = "parking"}

Accounted == IsFiniteSet(Suspects) /\ Cardinality(Suspects) <= faults

LEMMA SuspectsStay ==
  ASSUME NEW r \in Replicas,
         \A e \in Events : events'[e].status = "failed" =>
           events[e].status = "failed" \/ stage[r][e] = "parking",
         \A q \in Replicas, e \in Events \ Unserialisable :
           stage'[q][e] = "parking" => stage[q][e] = "parking"
  PROVE  Suspects' \subseteq Suspects
BY DEF Suspects

LEMMA SuspectsGrow ==
  ASSUME TypeOK, NEW r \in Replicas, ReplicaStep(r) \/ Stop(r)
  PROVE  \/ Suspects' \subseteq Suspects /\ (UNCHANGED faults \/ Fault)
         \/ Fault /\ \E e \in Events : Suspects' \subseteq Suspects \cup {e}
<1>1. "failed" \in Status /\ "done" \in Status /\ "pending" \in Status /\ "claimed" \in Status
      /\ elapsed[r] \in Nat
  BY DEF TypeOK, Status, Settled
<1>2. ASSUME NEW part \in SUBSET Events, NEW status \in Status, NEW held \in Nat,
             MoveTo(part, status, held), status # "failed"
      PROVE  \A e \in Events : events'[e].status = "failed" => events[e].status = "failed"
  <2> SUFFICES ASSUME NEW e \in Events, events'[e].status = "failed"
               PROVE  events[e].status = "failed"
    OBVIOUS
  <2>1. CASE e \in part
    <3>1. events'[e] = [status |-> status, held |-> held]
      BY <1>2, <2>1 DEF MoveTo
    <3>2. events'[e].status = status
      BY <3>1
    <3> QED
      BY <1>2, <3>2
  <2>2. CASE e \notin part
    BY <1>2, <2>2 DEF MoveTo
  <2> QED
    BY <2>1, <2>2
<1>3. CASE BeginTick(r) \/ ReclaimFails(r) \/ Start(r)
  BY <1>3 DEF BeginTick, ReclaimFails, ThenClaim, Start, Suspects
<1>4. CASE ReclaimStale(r)
  <2>1. \A e \in Events : events'[e].status = "failed" => events[e].status = "failed"
    BY <1>1, <1>2, <1>4 DEF ReclaimStale
  <2>2. stage' = stage /\ UNCHANGED faults
    BY <1>4 DEF ReclaimStale, ThenClaim
  <2> QED
    BY <2>1, <2>2, SuspectsStay
<1>5. CASE ClaimEvents(r)
  <2>1. PICK batch \in Batches :
          /\ MoveTo(batch, "claimed", elapsed[r])
          /\ stage' = [stage EXCEPT ![r] = [e \in Events |-> IF e \in batch THEN "claimed" ELSE "none"]]
    BY <1>5 DEF ClaimEvents
  <2>2. \A e \in Events : events'[e].status = "failed" => events[e].status = "failed"
    BY <1>1, <1>2, <2>1, BatchesFit
  <2>3. \A q \in Replicas, e \in Events : stage'[q][e] = "parking" => stage[q][e] = "parking"
    BY <2>1 DEF TypeOK
  <2> QED
    BY <1>5, <2>2, <2>3, SuspectsStay DEF ClaimEvents
<1>6. ASSUME EndTick(r),
             \A e \in Events : events'[e].status = "failed" =>
               events[e].status = "failed" \/ stage[r][e] = "parking"
      PROVE  Suspects' \subseteq Suspects
  <2>1. \A q \in Replicas, e \in Events : stage'[q][e] = "parking" => stage[q][e] = "parking"
    BY <1>6, EndFits
  <2> QED
    BY <1>6, <2>1, SuspectsStay
<1>7. CASE ClaimFails(r) \/ ClaimAborts(r)
  <2>1. \E batch \in Batches : \E part \in SUBSET batch : MoveTo(part, "claimed", elapsed[r])
    <3>1. CASE ClaimFails(r)
      <4>1. PICK batch \in Batches : \E part \in Landed(batch) : MoveTo(part, "claimed", elapsed[r])
        BY <3>1 DEF ClaimFails
      <4> QED
        BY <4>1, LandedFits
    <3>2. CASE ClaimAborts(r)
      BY <3>2 DEF ClaimAborts
    <3> QED
      BY <1>7, <3>1, <3>2
  <2>2. PICK batch \in Batches : \E part \in SUBSET batch : MoveTo(part, "claimed", elapsed[r])
    BY <2>1
  <2>3. \A e \in Events : events'[e].status = "failed" => events[e].status = "failed"
    BY <1>1, <1>2, <2>2, BatchesFit
  <2> QED
    BY <1>6, <1>7, <2>3 DEF ClaimFails, ClaimAborts
<1>8. CASE Ack(r) \/ AckFails(r)
  <2>1. \E part \in SUBSET Acked(r) : MoveTo(part, "done", 0)
    BY <1>8, LandedFits DEF Ack, AckFails
  <2>2. \A e \in Events : events'[e].status = "failed" => events[e].status = "failed"
    BY <1>1, <1>2, <2>1 DEF Acked
  <2> QED
    BY <1>6, <1>8, <2>2 DEF Ack, AckFails
<1>9. CASE Stop(r)
  <2>1. /\ events' = events /\ faults' = faults
        /\ \A q \in Replicas, e \in Events : stage'[q][e] = "parking" => stage[q][e] = "parking"
    BY <1>9 DEF Stop, Unclaimed, TypeOK
  <2> QED
    BY <2>1, SuspectsStay
<1>10. ASSUME NEW e \in Events, MarkFailed(r, e)
       PROVE  Suspects' \subseteq Suspects /\ UNCHANGED faults
  <2>1. stage[r][e] = "parking" /\ MoveTo({e}, "failed", 0)
    BY <1>10 DEF MarkFailed, ParkedBy, Failed
  <2>2. \A f \in Events : events'[f].status = "failed" => events[f].status = "failed" \/ f = e
    BY <1>1, <2>1, MoveFits
  <2>3. \A q \in Replicas, f \in Events : stage'[q][f] = "parking" => stage[q][f] = "parking"
    BY <1>10 DEF MarkFailed, ParkedBy, TypeOK
  <2>4. Suspects' \subseteq Suspects
    BY <2>1, <2>2, <2>3, SuspectsStay
  <2> QED
    BY <1>10, <2>4 DEF MarkFailed
<1>11. ASSUME NEW e \in Events, MarkFailedFails(r, e)
       PROVE  Suspects' \subseteq Suspects /\ Fault
  <2>1. stage[r][e] = "parking" /\ (MoveTo({e}, "failed", 0) \/ UNCHANGED events)
    BY <1>11 DEF MarkFailedFails, Failed
  <2>2. \A f \in Events : events'[f].status = "failed" => events[f].status = "failed" \/ f = e
    BY <1>1, <2>1, MoveFits
  <2> QED
    BY <1>6, <1>11, <2>1, <2>2 DEF MarkFailedFails
<1>12. ASSUME NEW e \in Events, Resolve(r, e) \/ EnqueueMany(r, e)
       PROVE  Suspects' \subseteq Suspects /\ UNCHANGED faults
  <2>1. \E to \in Stages : Goes(r, e, to) /\ (e \in Unserialisable \/ to # "parking")
    BY <1>12 DEF Resolve, EnqueueMany, Stages
  <2>2. \A q \in Replicas, f \in Events \ Unserialisable :
          stage'[q][f] = "parking" => stage[q][f] = "parking"
    BY <2>1, GoesFits
  <2>3. UNCHANGED <<events, faults>>
    BY <1>12 DEF Resolve, EnqueueMany
  <2> QED
    BY <2>2, <2>3, SuspectsStay
<1>13. ASSUME NEW e \in Events, ResolveFails(r, e) \/ EnqueueFails(r, e)
       PROVE  Fault /\ Suspects' \subseteq Suspects \cup {e}
  <2>1. Goes(r, e, "parking") /\ Fault /\ events' = events
    BY <1>13 DEF ResolveFails, EnqueueFails
  <2>2. \A q \in Replicas, f \in Events \ {e} : stage'[q][f] = stage[q][f]
    BY <2>1, GoesFits DEF Stages
  <2> QED
    BY <2>1, <2>2 DEF Suspects
<1> QED
  BY <1>3, <1>4, <1>5, <1>7, <1>8, <1>9, <1>10, <1>11, <1>12, <1>13 DEF ReplicaStep

LEMMA AccountedStep == TypeOK /\ Accounted /\ [Next]_vars => Accounted'
<1> SUFFICES ASSUME TypeOK, Accounted, [Next]_vars PROVE Accounted'
  OBVIOUS
<1>1. faults \in Nat /\ Cardinality(Suspects) \in Nat
  BY FS_CardinalityType DEF TypeOK, Accounted
<1>2. ASSUME Suspects' \subseteq Suspects, UNCHANGED faults \/ Fault
      PROVE  Accounted'
  <2>1. IsFiniteSet(Suspects') /\ Cardinality(Suspects') <= Cardinality(Suspects)
    BY <1>2, FS_Subset DEF Accounted
  <2>2. Cardinality(Suspects') \in Nat
    BY <2>1, FS_CardinalityType
  <2> QED
    BY <1>1, <1>2, <2>1, <2>2 DEF Accounted, Fault
<1>3. ASSUME Fault, NEW e \in Events, Suspects' \subseteq Suspects \cup {e}
      PROVE  Accounted'
  <2>1. IsFiniteSet(Suspects \cup {e}) /\ Cardinality(Suspects \cup {e}) <= Cardinality(Suspects) + 1
    BY <1>1, FS_AddElement DEF Accounted
  <2>2. /\ IsFiniteSet(Suspects')
        /\ Cardinality(Suspects') <= Cardinality(Suspects \cup {e})
    BY <1>3, <2>1, FS_Subset
  <2>3. Cardinality(Suspects') \in Nat /\ Cardinality(Suspects \cup {e}) \in Nat
    BY <2>1, <2>2, FS_CardinalityType
  <2> QED
    BY <1>1, <1>3, <2>1, <2>2, <2>3 DEF Accounted, Fault
<1>4. CASE \E r \in Replicas : ReplicaStep(r) \/ Stop(r)
  BY <1>2, <1>3, <1>4, SuspectsGrow
<1>5. ASSUME NEW e \in Events, Append(e)
      PROVE  Accounted'
  <2>1. /\ \A f \in Events : events'[f].status = "failed" => events[f].status = "failed"
        /\ UNCHANGED <<stage, faults>>
    BY <1>5 DEF Append, MoveTo
  <2>2. Suspects' \subseteq Suspects
    BY <2>1 DEF Suspects
  <2> QED
    BY <1>2, <2>1, <2>2
<1>6. CASE Advance
  <2>1. /\ \A f \in Events : events'[f].status = "failed" => events[f].status = "failed"
        /\ UNCHANGED <<stage, faults>>
    BY <1>6 DEF Advance, TypeOK
  <2>2. Suspects' \subseteq Suspects
    BY <2>1 DEF Suspects
  <2> QED
    BY <1>2, <2>1, <2>2
<1>7. CASE (\E s \in Subscriptions : Resume(s) \/ Pause(s)) \/ UNCHANGED vars
  <2>1. UNCHANGED <<events, stage, faults>>
    BY <1>7 DEF Resume, Pause, vars
  <2>2. Suspects' = Suspects
    BY <2>1 DEF Suspects
  <2> QED
    BY <1>2, <2>1, <2>2
<1> QED
  BY <1>4, <1>5, <1>6, <1>7 DEF Next

(* _fan_out is guarded per event: one failure parks one event, on every    *)
(* database and however ticks overlap.                                     *)
THEOREM OneFailureParksOne == Spec => []FailureParksOne
<1>1. Init => Accounted
  <2> SUFFICES ASSUME Init PROVE Accounted
    OBVIOUS
  <2>1. Suspects = {}
    BY DEF Init, Suspects, Unclaimed
  <2> QED
    BY <2>1, FS_EmptySet DEF Accounted, Init
<1>2. TypeOK /\ Accounted => FailureParksOne
  <2> SUFFICES ASSUME TypeOK, Accounted PROVE FailureParksOne
    OBVIOUS
  <2> DEFINE failed == {e \in Events \ Unserialisable : events[e].status = "failed"}
  <2>1. failed \in SUBSET Suspects
    BY DEF Suspects
  <2>2. /\ IsFiniteSet(failed) /\ Cardinality(failed) <= Cardinality(Suspects)
    BY <2>1, FS_Subset DEF Accounted
  <2>3. Cardinality(failed) \in Nat /\ Cardinality(Suspects) \in Nat /\ faults \in Nat
    BY <2>2, FS_CardinalityType DEF Accounted, TypeOK
  <2> QED
    BY <2>2, <2>3 DEF Accounted, FailureParksOne
<1> QED
  BY <1>1, <1>2, TypedInit, TypedStep, AccountedStep, PTL DEF Spec

-------------------------------------------------------------------------------
(* Counting deliveries.  An event is over once its fan-out came to an end  *)
(* that its tick, or the table, still knows of.                            *)
Over(e) ==
  \/ events[e].status \in Settled
  \/ \E r \in Replicas : stage[r][e] \in {"parking", "fannedOut"}

Forgotten == faults + stops

Bounded ==
  \A e \in Events, s \in Subscriptions :
    /\ deliveries[e][s] <= 1 + Forgotten
    /\ ~Over(e) => deliveries[e][s] <= Forgotten

LEMMA ForgottenGrows ==
  ASSUME TypeOK, [Next]_vars
  PROVE  Forgotten \in Nat /\ (Forgotten' = Forgotten \/ Forgotten' = Forgotten + 1)
<1>1. faults \in Nat /\ stops \in Nat
  BY DEF TypeOK
<1>2. \/ UNCHANGED <<faults, stops>>
      \/ faults' = faults + 1 /\ UNCHANGED stops
      \/ UNCHANGED faults /\ stops' = stops + 1
  <2>1. CASE \/ \E e \in Events : Append(e)
             \/ \E s \in Subscriptions : Resume(s) \/ Pause(s)
             \/ Advance \/ UNCHANGED vars
    BY <2>1 DEF Append, Resume, Pause, Advance, vars
  <2>2. ASSUME NEW r \in Replicas, ReplicaStep(r) \/ Stop(r)
        PROVE  \/ UNCHANGED <<faults, stops>>
               \/ faults' = faults + 1 /\ UNCHANGED stops
               \/ UNCHANGED faults /\ stops' = stops + 1
    BY <2>2
    DEF ReplicaStep, BeginTick, ReclaimStale, ReclaimFails, ThenClaim, ClaimEvents, ClaimFails,
        ClaimAborts, Resolve, ResolveFails, EnqueueMany, EnqueueFails, MarkFailed,
        MarkFailedFails, Ack, AckFails, Start, Stop, Fault
  <2> QED
    BY <2>1, <2>2 DEF Next
<1> QED
  BY <1>1, <1>2 DEF Forgotten

(* A step that adds nothing to the count forgets no event that is over.    *)
LEMMA OverStays ==
  ASSUME SafeDeployment, TypeOK, Kept, Held, [Next]_vars, NEW e \in Events, Over(e),
         Forgotten' = Forgotten
  PROVE  Over(e)'
<1>1. faults \in Nat /\ stops \in Nat
  BY DEF TypeOK
<1>2. CASE events[e].status \in Settled
  BY <1>2, HeldStep DEF Over
<1>3. ASSUME NEW q \in Replicas, stage[q][e] \in {"parking", "fannedOut"}
      PROVE  Over(e)'
  <2>1. stage[q][e] # "none" /\ pc[q] = "fanOut"
    BY <1>3 DEF Held
  <2>2. ASSUME stage'[q][e] = stage[q][e]
        PROVE  Over(e)'
    BY <1>3, <2>2 DEF Over
  <2>3. CASE \/ \E f \in Events : Append(f)
             \/ \E s \in Subscriptions : Resume(s) \/ Pause(s)
             \/ Advance \/ UNCHANGED vars
    BY <2>2, <2>3 DEF Append, Resume, Pause, Advance, vars
  <2>4. ASSUME NEW r \in Replicas \ {q}, ReplicaStep(r) \/ Stop(r)
        PROVE  Over(e)'
    <3>1. Orderly(r)
      BY <2>4, OrderlyClaims, OrderlyFanOut, OrderlyEnd DEF ReplicaStep
    <3> QED
      BY <2>2, <3>1 DEF Orderly
  <2>5. ASSUME ReplicaStep(q) \/ Stop(q)
        PROVE  Over(e)'
    <3>1. ~Fault /\ ~Stop(q)
      <4>1. Fault => faults' = faults + 1
        BY DEF Fault
      <4>2. Stop(q) => stops' = stops + 1 /\ faults' = faults
        BY DEF Stop
      <4>3. ~Stop(q)
        BY <1>1, <4>2 DEF Forgotten
      <4>4. Fault => stops' = stops
        BY <2>5, <4>3
        DEF ReplicaStep, BeginTick, ReclaimStale, ReclaimFails, ThenClaim, ClaimEvents, ClaimFails,
            ClaimAborts, Resolve, ResolveFails, EnqueueMany, EnqueueFails, MarkFailed,
            MarkFailedFails, Ack, AckFails, Start
      <4> QED
        BY <1>1, <4>1, <4>3, <4>4 DEF Forgotten
    <3>2. \/ \E f \in Events : Resolve(q, f) \/ EnqueueMany(q, f) \/ MarkFailed(q, f)
          \/ Ack(q)
      BY <2>1, <2>5, <3>1
      DEF ReplicaStep, BeginTick, ReclaimStale, ReclaimFails, ThenClaim, ClaimEvents, ClaimFails,
          ClaimAborts, ResolveFails, EnqueueFails, MarkFailedFails, AckFails, Start
    <3>3. ASSUME NEW f \in Events, Resolve(q, f) \/ EnqueueMany(q, f)
          PROVE  Over(e)'
      <4>1. /\ stage[q][f] \in {"claimed", "enqueuing"}
            /\ \E to \in Stages : Goes(q, f, to)
        BY <3>3 DEF Resolve, EnqueueMany, Stages
      <4>2. e # f
        BY <1>3, <4>1
      <4> QED
        BY <2>2, <4>1, <4>2, GoesFits
    <3>4. ASSUME NEW f \in Events, MarkFailed(q, f)
          PROVE  Over(e)'
      <4>1. MoveTo({f}, "failed", 0)
        BY <3>4 DEF MarkFailed, ParkedBy, Failed
      <4>2. CASE e = f
        <5>1. events'[e].status = "failed"
          BY <4>1, <4>2 DEF MoveTo
        <5> QED
          BY <5>1 DEF Over, Settled
      <4>3. CASE e # f
        <5>1. stage'[q][e] = stage[q][e]
          BY <3>4, <4>3 DEF MarkFailed, ParkedBy, TypeOK
        <5> QED
          BY <2>2, <5>1
      <4> QED
        BY <4>2, <4>3
    <3>5. ASSUME Ack(q)
          PROVE  Over(e)'
      <4>1. MoveTo(Acked(q), "done", 0) /\ e \in Acked(q)
        BY <1>3, <3>5 DEF Ack, FannedOut, Acked
      <4>2. events'[e].status = "done"
        BY <4>1 DEF MoveTo
      <4> QED
        BY <4>2 DEF Over, Settled
    <3> QED
      BY <3>2, <3>3, <3>4, <3>5
  <2> QED
    BY <2>3, <2>4, <2>5 DEF Next
<1> QED
  BY <1>2, <1>3 DEF Over

(* Only a fan-out that is not over adds deliveries, and it is over then.   *)
LEMMA DeliversOnce ==
  ASSUME TypeOK, Held, [Next]_vars, NEW e \in Events, NEW s \in Subscriptions,
         deliveries'[e][s] # deliveries[e][s]
  PROVE  ~Over(e) /\ Over(e)' /\ deliveries'[e][s] = deliveries[e][s] + 1
<1>1. PICK r \in Replicas, f \in Events : EnqueueMany(r, f) \/ EnqueueFails(r, f)
  <2>1. deliveries' # deliveries
    OBVIOUS
  <2> QED
    BY <2>1
    DEF Next, vars, Append, Resume, Pause, ReplicaStep, BeginTick, ReclaimStale, ReclaimFails,
        ThenClaim, ClaimEvents, ClaimFails, ClaimAborts, Resolve, ResolveFails, MarkFailed,
        MarkFailedFails, Ack, AckFails, Start, Stop, Advance
<1>2. /\ \E subs \in SUBSET Subscriptions : Deliver(f, subs)
      /\ stage[r][f] = "enqueuing"
      /\ Goes(r, f, "fannedOut") \/ Goes(r, f, "parking")
  <2>1. targets[r] \in SUBSET Subscriptions
    BY DEF TypeOK
  <2> QED
    BY <1>1, <2>1, LandedFits DEF EnqueueMany, EnqueueFails
<1>3. e = f /\ deliveries'[e][s] = deliveries[e][s] + 1
  BY <1>2 DEF Deliver, TypeOK
<1>4. ~Over(e)
  <2>1. stage[r][e] # "none" /\ stage[r][e] \notin {"parking", "fannedOut"}
    BY <1>2, <1>3
  <2>2. events[e].status = "claimed" /\ \A q \in Replicas \ {r} : stage[q][e] = "none"
    BY <2>1, Claimed
  <2> QED
    BY <2>1, <2>2 DEF Over, Settled
<1>5. stage'[r][e] \in {"parking", "fannedOut"}
  BY <1>2, <1>3, GoesFits DEF Stages
<1> QED
  BY <1>3, <1>4, <1>5 DEF Over

LEMMA BoundedStep ==
  ASSUME SafeDeployment, TypeOK, Kept, Held, Bounded, [Next]_vars
  PROVE  Bounded'
<1> SUFFICES ASSUME NEW e \in Events, NEW s \in Subscriptions
             PROVE  /\ deliveries'[e][s] <= 1 + Forgotten'
                    /\ ~Over(e)' => deliveries'[e][s] <= Forgotten'
  BY DEF Bounded
<1>1. /\ Forgotten \in Nat /\ (Forgotten' = Forgotten \/ Forgotten' = Forgotten + 1)
      /\ deliveries[e][s] \in Nat
  BY ForgottenGrows DEF TypeOK
<1>2. /\ deliveries[e][s] <= 1 + Forgotten
      /\ ~Over(e) => deliveries[e][s] <= Forgotten
  BY DEF Bounded
<1>3. CASE deliveries'[e][s] = deliveries[e][s]
  <2>1. Forgotten' = Forgotten => (Over(e) => Over(e)')
    BY OverStays
  <2> QED
    BY <1>1, <1>2, <1>3, <2>1
<1>4. CASE deliveries'[e][s] # deliveries[e][s]
  <2>1. ~Over(e) /\ Over(e)' /\ deliveries'[e][s] = deliveries[e][s] + 1
    BY <1>4, DeliversOnce
  <2> QED
    BY <1>1, <1>2, <2>1
<1> QED
  BY <1>3, <1>4

(* enqueue_many knows no duplicates: in such a deployment, each delivery   *)
(* of an event to a subscription but one is paid for by a failure or crash *)
(* that made a tick forget its fan-out.                                    *)
THEOREM DuplicatesArePaidFor == SafeDeployment /\ Spec => []DuplicatesBounded
<1>1. Init => Bounded
  BY DEF Init, Bounded, Forgotten
<1>2. TypeOK /\ Bounded => DuplicatesBounded
  BY DEF TypeOK, Bounded, Forgotten, DuplicatesBounded
<1>3. CASE SafeDeployment
  <2>1. TypeOK /\ Kept /\ Held /\ Bounded /\ [Next]_vars => Bounded'
    BY <1>3, BoundedStep
  <2> QED
    BY <1>1, <1>2, <1>3, <2>1, HeldAlways, PTL DEF Spec
<1> QED
  BY <1>3
===============================================================================
