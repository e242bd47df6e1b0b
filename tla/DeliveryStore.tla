---------------------------- MODULE DeliveryStore -----------------------------
(***************************************************************************)
(* One row of the delivery table, and what each call of the store contract *)
(* does to it, for the three stores whose calls are atomic per row:        *)
(*   "pg"      PgWebhookDeliveryStore over service/pg_repos.py             *)
(*   "mongo"   MongoWebhookDeliveryStore                                   *)
(*   "memory"  MemoryWebhookDeliveryStore                                  *)
(* (The Redis store is not atomic per call and has a model of its own.)    *)
(*                                                                         *)
(* A row keeps its status, the attempts counter, the time it is due, its   *)
(* lease expiry and the attempt numbers of its attempt log, oldest first.  *)
(* No call looks at the status or at the lease of the row it settles.      *)
(***************************************************************************)
EXTENDS Integers, Sequences

CONSTANTS
  Backend,     \* which store the service is configured with
  LeaseTtl     \* WebhookDispatchConfig.lease_ttl_s

ASSUME StoreAssumption ==
  /\ Backend \in {"pg", "mongo", "memory"}
  /\ LeaseTtl \in Nat \ {0}

NoLease == 0     \* NULL: leases are granted from time 1 on

Terminal == {"sent", "dead_lettered"}
Status   == {"absent", "pending", "in_flight", "failed_retry"} \cup Terminal
Row      == [status: Status, attempts: Nat, fireAt: Nat, lease: Nat, log: Seq(Nat)]

NoRow == [status |-> "absent", attempts |-> 0, fireAt |-> 0,
          lease |-> NoLease, log |-> <<>>]

-------------------------------------------------------------------------------
(* enqueue_many: a row is inserted as PENDING, a known delivery_id is left *)
(* as it is.                                                               *)
Fresh(now) == [NoRow EXCEPT !.status = "pending", !.fireAt = now]

PgEnqueued(row, now)     == IF row.status = "absent" THEN Fresh(now) ELSE row
MongoEnqueued(row, now)  == IF row.status = "absent" THEN Fresh(now) ELSE row
MemoryEnqueued(row, now) == IF row.status = "absent" THEN Fresh(now) ELSE row

(* claim_batch: which rows it looks for, and what it does to one it takes. *)
(* Mutant: the due time is not looked at.                                  *)
ClaimableEarly(row, now) == row.status \in {"pending", "failed_retry"}

Claimable(row, now) ==
  /\ row.status \in {"pending", "failed_retry"}
  /\ row.fireAt <= now

(* Mutant: the claim counts the attempt, too.                              *)
PgClaimedCounting(row, now) ==
  [row EXCEPT !.status = "in_flight", !.lease = now + LeaseTtl, !.attempts = @ + 1]

PgClaimed(row, now) ==
  [row EXCEPT !.status = "in_flight", !.lease = now + LeaseTtl]
MongoClaimed(row, now) ==
  [row EXCEPT !.status = "in_flight", !.lease = now + LeaseTtl]
MemoryClaimed(row, now) ==
  [row EXCEPT !.status = "in_flight", !.lease = now + LeaseTtl]

(* reclaim_stale: IN_FLIGHT rows whose lease has run out.                  *)
(* Mutant: every lease is taken back, the way a reclaim on start-up would. *)
StaleAlways(row, now) == row.status = "in_flight"

(* Mutant: the comparison with the clock is the wrong way round.           *)
StaleSwapped(row, now) == row.status = "in_flight" /\ row.lease > now

Stale(row, now) == row.status = "in_flight" /\ row.lease < now

PgReclaimed(row)     == [row EXCEPT !.status = "pending", !.lease = NoLease]
MongoReclaimed(row)  == [row EXCEPT !.status = "pending", !.lease = NoLease]
MemoryReclaimed(row) == [row EXCEPT !.status = "pending", !.lease = NoLease]

-------------------------------------------------------------------------------
(* mark_sent, schedule_retry and mark_dead settle attempt n of a row and   *)
(* log it; the memory store counts attempts by itself and only in          *)
(* schedule_retry.  The attempt table of Postgres has no unique key on the *)
(* attempt number, so its ON CONFLICT DO NOTHING never drops a row.        *)
Logged(row, n) == [row EXCEPT !.log = Append(@, n)]

PgSent(row, n) == [Logged(row, n) EXCEPT
  !.status = "sent", !.attempts = n, !.lease = NoLease]
MongoSent(row, n) == [Logged(row, n) EXCEPT
  !.status = "sent", !.attempts = n, !.lease = NoLease]
MemorySent(row, n) == [Logged(row, n) EXCEPT
  !.status = "sent", !.lease = NoLease]

(* Mutant: the attempt is not logged.                                      *)
PgRetriedUnlogged(row, n, fireAt) == [row EXCEPT
  !.status = "failed_retry", !.fireAt = fireAt, !.attempts = n, !.lease = NoLease]

PgRetried(row, n, fireAt) == [Logged(row, n) EXCEPT
  !.status = "failed_retry", !.fireAt = fireAt, !.attempts = n, !.lease = NoLease]
MongoRetried(row, n, fireAt) == [Logged(row, n) EXCEPT
  !.status = "failed_retry", !.fireAt = fireAt, !.attempts = n, !.lease = NoLease]
MemoryRetried(row, n, fireAt) == [Logged(row, n) EXCEPT
  !.status = "failed_retry", !.fireAt = fireAt, !.attempts = @ + 1, !.lease = NoLease]

PgDead(row, n) == [Logged(row, n) EXCEPT
  !.status = "dead_lettered", !.attempts = n, !.lease = NoLease]
MongoDead(row, n) == [Logged(row, n) EXCEPT
  !.status = "dead_lettered", !.attempts = n, !.lease = NoLease]
MemoryDead(row, n) == [Logged(row, n) EXCEPT
  !.status = "dead_lettered", !.lease = NoLease]

(* append_attempt logs an attempt that settled nothing.  Postgres alone    *)
(* writes the attempts counter too (bump_attempt).                         *)
PgAppended(row, n)     == [Logged(row, n) EXCEPT !.attempts = n]
MongoAppended(row, n)  == Logged(row, n)
MemoryAppended(row, n) == Logged(row, n)

-------------------------------------------------------------------------------
(* The store contract, for the configured backend.                         *)
Enqueued(row, now) ==
  CASE Backend = "pg"     -> PgEnqueued(row, now)
    [] Backend = "mongo"  -> MongoEnqueued(row, now)
    [] Backend = "memory" -> MemoryEnqueued(row, now)

Claimed(row, now) ==
  CASE Backend = "pg"     -> PgClaimed(row, now)
    [] Backend = "mongo"  -> MongoClaimed(row, now)
    [] Backend = "memory" -> MemoryClaimed(row, now)

Reclaimed(row, now) ==
  CASE ~Stale(row, now)   -> row
    [] Stale(row, now) /\ Backend = "pg"     -> PgReclaimed(row)
    [] Stale(row, now) /\ Backend = "mongo"  -> MongoReclaimed(row)
    [] Stale(row, now) /\ Backend = "memory" -> MemoryReclaimed(row)

(* The three settling calls, by the status they move the row to.           *)
Settled(row, status, n, fireAt) ==
  LET sent    == CASE Backend = "pg" -> PgSent(row, n)
                   [] Backend = "mongo" -> MongoSent(row, n)
                   [] Backend = "memory" -> MemorySent(row, n)
      retried == CASE Backend = "pg" -> PgRetried(row, n, fireAt)
                   [] Backend = "mongo" -> MongoRetried(row, n, fireAt)
                   [] Backend = "memory" -> MemoryRetried(row, n, fireAt)
      dead    == CASE Backend = "pg" -> PgDead(row, n)
                   [] Backend = "mongo" -> MongoDead(row, n)
                   [] Backend = "memory" -> MemoryDead(row, n)
  IN CASE status = "sent"          -> sent
       [] status = "failed_retry"  -> retried
       [] status = "dead_lettered" -> dead

Appended(row, n) ==
  CASE Backend = "pg"     -> PgAppended(row, n)
    [] Backend = "mongo"  -> MongoAppended(row, n)
    [] Backend = "memory" -> MemoryAppended(row, n)
===============================================================================
