--------------------------- MODULE SubscriptionStore ---------------------------
(***************************************************************************)
(* One subscription in a subscription store, from its creation on: callers *)
(* rotate its secret, pause, resume and delete it, an ingestor asks for    *)
(* the subscriptions of an event, dispatchers sign with its secrets, and   *)
(* its receiver checks what they sign.  On Postgres and MongoDB each call  *)
(* is one statement; on Redis most are a read and, a round trip later, a   *)
(* write.                                                                  *)
(*                                                                         *)
(* Deliveries may be sent at any time: they were enqueued before, wait for *)
(* a retry, or come from redeliver and ping.                               *)
(***************************************************************************)
EXTENDS Integers

CONSTANTS
  Kinds,        \* the stores modelled: "redis", "pg", "mongo"
  Callers,      \* calls of the subscription API under way at once
  Senders,      \* WebhookDispatcher.send calls under way at once
  Graces,       \* the grace_s rotations ask for
  Window,       \* security.signature_window_s of the receiver
  CallBound,    \* longest time from a clock reading to the end of the call (assumed)
  Patient,      \* does the receiver change its secret when the two overlap? (assumed)
  MaxSecret,    \* bound of the model: secrets issued
  MaxClock      \* bound of the model: the clock

ASSUME SubscriptionAssumption ==
  /\ Kinds \subseteq {"redis", "pg", "mongo"}
  /\ Graces \subseteq Nat /\ Window \in Nat /\ CallBound \in Nat
  /\ Patient \in BOOLEAN
  /\ MaxSecret \in Nat \ {0} /\ MaxClock \in Nat

VARIABLES
  clock,
  kind,        \* which store it is
  row,         \* the hash, row or document of the subscription
  index,       \* Redis: is its id in the set of the event?
  calls,       \* what each caller is doing
  fanout,      \* what the ingestor is doing in for_event
  sends,       \* what each dispatcher is doing
  issued,      \* secrets made so far
  held,        \* the secret the receiver checks with
  told,        \* what the last rotation returned
  deleted,     \* history: a delete returned True
  overlapped,  \* history: two calls were under way at once on Redis
  hurried,     \* history: a rotation came before another's window was done with
  promised     \* history: until when each secret was to sign

vars == <<clock, kind, row, index, calls, fanout, sends, issued, held, told, deleted,
          overlapped, hurried, promised>>
unseen == <<deleted, overlapped, hurried, promised>>

None    == 0                \* no secret
Status  == {"none", "active", "paused"}

(* whole: the fields that only create writes are there.                    *)
Row == [secret: Nat, previous: Nat, until: Nat, status: Status, whole: BOOLEAN]
NoRow == [secret |-> None, previous |-> None, until |-> 0, status |-> "none", whole |-> FALSE]

Steps == {"idle", "rotate", "status", "delete"}
Call  == [step: Steps, old: Nat, new: Nat, since: Nat, until: Nat, status: Status]
NoCall == [step |-> "idle", old |-> None, new |-> None, since |-> 0, until |-> 0, status |-> "none"]

Send == [stage: {"idle", "reading", "signed"}, now: Nat, macs: SUBSET Nat, owed: SUBSET Nat]
NoSend == [stage |-> "idle", now |-> 0, macs |-> {}, owed |-> {}]

TypeOK ==
  /\ clock \in Nat /\ kind \in Kinds
  /\ row \in Row /\ index \in BOOLEAN
  /\ calls \in [Callers -> Call]
  /\ fanout \in [stage: {"idle", "rows", "done", "raised"}, member: BOOLEAN,
                 late: BOOLEAN, targeted: BOOLEAN]
  /\ sends \in [Senders -> Send]
  /\ issued \in Nat /\ held \in Nat
  /\ told \in [secret: Nat, at: Nat, until: Nat]
  /\ deleted \in BOOLEAN /\ overlapped \in BOOLEAN /\ hurried \in BOOLEAN
  /\ promised \in [1..MaxSecret -> Nat]

Init ==
  /\ clock = 1 /\ kind \in Kinds
  /\ row = NoRow /\ index = FALSE
  /\ calls = [c \in Callers |-> NoCall]
  /\ fanout = [stage |-> "idle", member |-> FALSE, late |-> FALSE, targeted |-> FALSE]
  /\ sends = [s \in Senders |-> NoSend]
  /\ issued = 0 /\ held = None /\ told = [secret |-> None, at |-> 0, until |-> 0]
  /\ deleted = FALSE /\ overlapped = FALSE /\ hurried = FALSE
  /\ promised = [n \in 1..MaxSecret |-> 0]

-------------------------------------------------------------------------------
(* create: on Redis the hash and the index sets are one transaction.  No   *)
(* store writes the fields of a previous secret.  The caller gives the     *)
(* secret to the receiver.                                                 *)
RedisInserted(secret) == [NoRow EXCEPT !.secret = secret, !.status = "active", !.whole = TRUE]
PgInserted(secret)    == [NoRow EXCEPT !.secret = secret, !.status = "active", !.whole = TRUE]
MongoInserted(secret) == [NoRow EXCEPT !.secret = secret, !.status = "active", !.whole = TRUE]

Inserted(secret) ==
  CASE kind = "redis" -> RedisInserted(secret)
    [] kind = "pg"    -> PgInserted(secret)
    [] kind = "mongo" -> MongoInserted(secret)

Create ==
  /\ issued = 0
  /\ issued' = 1 /\ held' = 1
  /\ row' = Inserted(1)
  /\ index' = (kind = "redis")
  /\ told' = [secret |-> 1, at |-> clock, until |-> 0]
  /\ UNCHANGED <<clock, kind, calls, fanout, sends, unseen>>

(* What a call is about to write.  The read that Redis makes first and the *)
(* time of the reading are part of its beginning; on the other stores the  *)
(* call has only read the clock.                                           *)
Begin(c, call) ==
  /\ issued > 0 /\ calls[c].step = "idle"
  /\ calls' = [calls EXCEPT ![c] = call]
  /\ overlapped' = (overlapped \/ (kind = "redis" /\ \E b \in Callers \ {c} : calls[b].step # "idle"))
  /\ UNCHANGED <<clock, kind, row, index, fanout, sends, held, told, deleted, hurried, promised>>

End(c) == calls[c].step # "idle" /\ calls' = [calls EXCEPT ![c] = NoCall]

(* rotate_secret.  On Redis: HGET of the secret, which must be there, and  *)
(* HSET of three fields.                                                   *)
BeginRotate(c) ==
  /\ issued < MaxSecret
  /\ kind = "redis" => row.secret # None
  /\ \E grace \in Graces :
       Begin(c, [NoCall EXCEPT !.step = "rotate", !.new = issued + 1, !.since = clock,
                               !.until = clock + grace,
                               !.old = IF kind = "redis" THEN row.secret ELSE None])
  /\ issued' = issued + 1

RedisRotated(r, call) ==
  [r EXCEPT !.secret = call.new, !.previous = call.old, !.until = call.until]

(* Mutant: SET secret = :new before previous_secret = secret.              *)
PgRotatedInOrder(r, call) ==
  IF r = NoRow THEN r
  ELSE [r EXCEPT !.secret = call.new, !.previous = call.new, !.until = call.until]

PgRotated(r, call) ==
  IF r = NoRow THEN r
  ELSE [r EXCEPT !.secret = call.new, !.previous = r.secret, !.until = call.until]

(* Mutant: a second rotation leaves previous_secret alone.                 *)
MongoRotatedOnce(r, call) ==
  IF r = NoRow THEN r
  ELSE [r EXCEPT !.secret = call.new, !.until = call.until,
                 !.previous = IF r.previous = None THEN r.secret ELSE r.previous]

MongoRotated(r, call) ==
  IF r = NoRow THEN r
  ELSE [r EXCEPT !.secret = call.new, !.previous = r.secret, !.until = call.until]

Rotated(r, call) ==
  CASE kind = "redis" -> RedisRotated(r, call)
    [] kind = "pg"    -> PgRotated(r, call)
    [] kind = "mongo" -> MongoRotated(r, call)

(* The window of the last rotation is open, or sends that began in it may  *)
(* still read the secrets.                                                 *)
Unfinished == told.until # 0 /\ told.until + CallBound > clock

(* A row that is not there answers with a KeyError.                        *)
Rotate(c) ==
  LET call == calls[c] IN
  /\ call.step = "rotate"
  /\ End(c)
  /\ row' = Rotated(row, call)
  /\ IF kind # "redis" /\ row = NoRow
     THEN UNCHANGED <<told, hurried, promised>>
     ELSE /\ told' = [secret |-> call.new, at |-> clock, until |-> call.until]
          /\ hurried' = (hurried \/ Unfinished)
          /\ promised' = [n \in 1..MaxSecret |-> IF n = row.secret THEN call.until ELSE promised[n]]
  /\ UNCHANGED <<clock, kind, index, fanout, sends, issued, held, deleted, overlapped>>

(* pause and resume: _set_status.  Redis asks EXISTS first.                *)
(* Mutant: HSET without asking.                                            *)
MayWriteAlways(r) == TRUE

MayWrite(r) == kind = "redis" => r # NoRow

BeginStatus(c) ==
  /\ MayWrite(row)
  /\ \E status \in {"active", "paused"} :
       Begin(c, [NoCall EXCEPT !.step = "status", !.status = status])
  /\ UNCHANGED issued

RedisStatus(r, status) == [r EXCEPT !.status = status]

(* Mutant: an upsert.                                                      *)
PgStatusUpsert(r, status) == [r EXCEPT !.status = status]

PgStatus(r, status) == IF r = NoRow THEN r ELSE [r EXCEPT !.status = status]

MongoStatus(r, status) == IF r = NoRow THEN r ELSE [r EXCEPT !.status = status]

SetStatus(c) ==
  LET status == calls[c].status IN
  /\ calls[c].step = "status"
  /\ End(c)
  /\ row' = CASE kind = "redis" -> RedisStatus(row, status)
              [] kind = "pg"    -> PgStatus(row, status)
              [] kind = "mongo" -> MongoStatus(row, status)
  /\ UNCHANGED <<clock, kind, index, fanout, sends, issued, held, told, unseen>>

(* delete.  Redis reads the hash for the owner and the events, raises if a *)
(* hash lacks them, and deletes row and index entries in one transaction.  *)
BeginDelete(c) ==
  /\ kind = "redis" => row.whole
  /\ Begin(c, [NoCall EXCEPT !.step = "delete"])
  /\ UNCHANGED issued

(* Mutant: the id stays in the set of the event.                           *)
UnlinkedNowhere == index

Unlinked == FALSE

(* Mutant: the row is kept, with the status DELETED of the enum.           *)
PgDeletedSoftly(r) == [r EXCEPT !.status = "deleted"]

PgDeleted(r) == NoRow

MongoDeleted(r) == NoRow

Delete(c) ==
  /\ calls[c].step = "delete"
  /\ End(c)
  /\ row' = CASE kind = "redis" -> NoRow
              [] kind = "pg"    -> PgDeleted(row)
              [] kind = "mongo" -> MongoDeleted(row)
  /\ index' = Unlinked
  /\ deleted' = TRUE
  /\ UNCHANGED <<clock, kind, fanout, sends, issued, held, told, overlapped, hurried, promised>>

-------------------------------------------------------------------------------
(* for_event.  One query, or on Redis SMEMBERS and then HGETALL of every   *)
(* member; a hash that is active and has no owner or no url is a KeyError. *)
PgForEvent(r)    == r.status = "active"
MongoForEvent(r) == r.status = "active"

BeginFanOut ==
  /\ fanout.stage # "rows"
  /\ fanout' = [stage |-> "rows", member |-> index, late |-> deleted, targeted |-> FALSE]
  /\ UNCHANGED <<clock, kind, row, index, calls, sends, issued, held, told, unseen>>

RedisForEvent(r) == fanout.member /\ r.status = "active"

FanOut ==
  /\ fanout.stage = "rows"
  /\ LET targeted == CASE kind = "redis" -> RedisForEvent(row)
                       [] kind = "pg"    -> PgForEvent(row)
                       [] kind = "mongo" -> MongoForEvent(row)
     IN fanout' = [fanout EXCEPT !.targeted = targeted,
                     !.stage = IF targeted /\ ~row.whole THEN "raised" ELSE "done"]
  /\ UNCHANGED <<clock, kind, row, index, calls, sends, issued, held, told, unseen>>

-------------------------------------------------------------------------------
(* send(): the clock is read, then the secrets; the delivery is signed     *)
(* with the current one and with the previous one while its window is open *)
(* at that reading.  Then it waits for the host and is POSTed.             *)
BeginSend(s) ==
  /\ issued > 0 /\ sends[s].stage = "idle"
  /\ sends' = [sends EXCEPT ![s] = [NoSend EXCEPT !.stage = "reading", !.now = clock]]
  /\ UNCHANGED <<clock, kind, row, index, calls, fanout, issued, held, told, unseen>>

(* Mutant: the window is compared the wrong way round.                     *)
PreviousAtClosed(r, now) == IF r.previous # None /\ r.until <= now THEN {r.previous} ELSE {}

PreviousAt(r, now) == IF r.previous # None /\ r.until > now THEN {r.previous} ELSE {}

Signatures(r, now) == {r.secret} \cup PreviousAt(r, now)

(* get_secret; without a secret the delivery is dead-lettered unsent.      *)
Sign(s) ==
  LET now == sends[s].now IN
  /\ sends[s].stage = "reading"
  /\ sends' = [sends EXCEPT ![s] =
       IF row.secret = None THEN NoSend
       ELSE [@ EXCEPT !.stage = "signed", !.macs = Signatures(row, now),
                      !.owed = {n \in 1..MaxSecret : promised[n] > now}]]
  /\ UNCHANGED <<clock, kind, row, index, calls, fanout, issued, held, told, unseen>>

(* verify_webhook: any one of the signatures, within the window.           *)
Verifies(secret, send, now) == secret \in send.macs /\ now - send.now <= Window

Post(s) ==
  /\ sends[s].stage = "signed"
  /\ sends' = [sends EXCEPT ![s] = NoSend]
  /\ UNCHANGED <<clock, kind, row, index, calls, fanout, issued, held, told, unseen>>

(* The receiver takes the secret that the last rotation returned; a        *)
(* patient one when no delivery signed before it is under way any more,    *)
(* and before the window closes (see Advance).                             *)
Switch ==
  /\ held # told.secret
  /\ Patient => clock > told.at + CallBound
  /\ held' = told.secret
  /\ UNCHANGED <<clock, kind, row, index, calls, fanout, sends, issued, told, unseen>>

Advance ==
  /\ clock < MaxClock
  /\ \A s \in Senders : sends[s].stage # "idle" => clock < sends[s].now + CallBound
  /\ \A c \in Callers : calls[c].step = "rotate" => clock < calls[c].since + CallBound
  /\ Patient /\ ~hurried /\ held # told.secret => clock + 1 < told.until
  /\ clock' = clock + 1
  /\ UNCHANGED <<kind, row, index, calls, fanout, sends, issued, held, told, unseen>>

Next ==
  \/ Create
  \/ \E c \in Callers :
       BeginRotate(c) \/ Rotate(c) \/ BeginStatus(c) \/ SetStatus(c) \/ BeginDelete(c) \/ Delete(c)
  \/ BeginFanOut \/ FanOut
  \/ \E s \in Senders : BeginSend(s) \/ Sign(s) \/ Post(s)
  \/ Switch \/ Advance

Spec == Init /\ [][Next]_vars

-------------------------------------------------------------------------------
(* On Postgres and MongoDB every call is one statement; on Redis the       *)
(* promises below are kept as long as no two calls run at once.            *)

(* "The old one still signs deliveries for grace_s seconds" (rotate_secret *)
(* of each store): each send signs with every secret that was rotated out  *)
(* and whose window is open when send begins.                              *)
GraceKept == \A s \in Senders : sends[s].stage = "signed" => sends[s].owed \subseteq sends[s].macs

(* It is kept if no rotation falls into the window of another one, or into *)
(* the sends that began in it.                                             *)
OldSecretSigns == ~overlapped /\ ~hurried => GraceKept

(* No delivery is refused for its signature: whatever rotation falls       *)
(* between the clock reading, the reading of the secrets, the wait for the *)
(* host and the POST of a send, a patient receiver verifies it.            *)
ReceiverVerifies ==
  ~overlapped /\ ~hurried =>
    \A s \in Senders : sends[s].stage = "signed" => Verifies(held, sends[s], clock)

(* A secret hands over to its successor: it leaves only as the previous    *)
(* one, so that no rotation that returned is lost.                         *)
SecretsHandOver ==
  [][~overlapped /\ row.secret # None /\ row.secret # row'.secret /\ row'.secret # None =>
       row'.previous = row.secret]_vars

(* A deleted row does not come back, not even in part.                     *)
DeletedIsGone == [][deleted /\ ~overlapped => row' = NoRow]_vars

(* What a racing status write leaves of a deleted row is never fanned out  *)
(* to by a later for_event, and fails none.                                *)
DeletedIsQuiet == fanout.late => ~fanout.targeted /\ fanout.stage # "raised"

(* for_event fails, and with it the fan-out of the event to everybody,     *)
(* only if a Redis call raced a delete.                                    *)
FanOutRuns == fanout.stage = "raised" => overlapped
===============================================================================
