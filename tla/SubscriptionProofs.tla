-------------------------- MODULE SubscriptionProofs ---------------------------
(***************************************************************************)
(* Theorems about SubscriptionStore, for every set of callers and senders, *)
(* every store and every value of the other constants.                     *)
(***************************************************************************)
EXTENDS SubscriptionStore, TLAPS

Idle(c) == calls[c].step = "idle"

(* Secrets are numbered as they are issued; before create there is nothing. *)
Numbered ==
  /\ row.secret <= MaxSecret
  /\ \A c \in Callers : calls[c].step = "rotate" => calls[c].new \in 1..MaxSecret
  /\ issued = 0 =>
       /\ row = NoRow /\ ~deleted
       /\ \A c \in Callers : Idle(c)
       /\ \A s \in Senders : sends[s].stage = "idle"
       /\ promised = [n \in 1..MaxSecret |-> 0]

(* While no two calls overlap on Redis, the row is whole or gone, and what *)
(* a call has read of it is what it writes to.                             *)
Alone ==
  /\ row.whole => row.secret # None
  /\ kind # "redis" => ~overlapped
  /\ ~overlapped => row.whole \/ row = NoRow
  /\ kind = "redis" /\ ~overlapped =>
       \A c \in Callers : ~Idle(c) =>
         /\ row.whole /\ \A b \in Callers \ {c} : Idle(b)
         /\ calls[c].step = "rotate" => calls[c].old = row.secret

(* A deleted row is gone, its entry in the index always.                   *)
Gone ==
  /\ deleted => ~index
  /\ deleted /\ ~overlapped => row = NoRow
  /\ fanout.late => deleted /\ ~fanout.member

(* The clock readings of calls and sends are recent.                       *)
Recent ==
  /\ told.at <= clock
  /\ \A s \in Senders :
       sends[s].stage # "idle" => sends[s].now <= clock /\ clock <= sends[s].now + CallBound
  /\ \A c \in Callers :
       calls[c].step = "rotate" =>
         /\ calls[c].since <= clock /\ clock <= calls[c].since + CallBound
         /\ \E grace \in Graces : calls[c].until = calls[c].since + grace

(* While no two calls overlap on Redis and no rotation comes early, the    *)
(* row holds what the last rotation returned, and only the secret before   *)
(* it may still be owed a signature.                                       *)
Calm == ~overlapped /\ ~hurried

Promises ==
  Calm /\ row.secret # None =>
    /\ row.secret = told.secret /\ row.until = told.until
    /\ row.previous # None => row.previous \in 1..MaxSecret /\ promised[row.previous] = row.until
    /\ \A n \in 1..MaxSecret :
         n # row.previous => promised[n] = 0 \/ promised[n] + CallBound <= clock

(* A patient receiver holds the last secret, or the one before it while    *)
(* its window is open; what is signed without the last secret began before *)
(* the rotation.                                                           *)
Follows ==
  Calm =>
    /\ held # told.secret =>
         clock < told.until /\ (row.secret # None => held = row.previous /\ held # None)
    /\ \A s \in Senders :
         sends[s].stage = "signed" =>
           held \in sends[s].macs /\ (told.secret \in sends[s].macs \/ sends[s].now <= told.at)

(* Rotations ask for windows longer than a call takes, and the receiver    *)
(* waits for deliveries that are under way.                                *)
Timely == Patient /\ CallBound <= Window /\ \A grace \in Graces : CallBound < grace

RowInv  == TypeOK /\ Numbered /\ Alone
SignInv == RowInv /\ Gone /\ Recent /\ Promises /\ OldSecretSigns

(* What the steps of callers do to the row.                                *)
LEMMA RowAfterRotate ==
  ASSUME TypeOK, NEW c \in Callers, Rotate(c)
  PROVE  /\ row' \in Row
         /\ row = NoRow /\ kind # "redis" => row' = row
         /\ row # NoRow \/ kind = "redis" =>
              /\ row'.secret = calls[c].new /\ row'.until = calls[c].until
              /\ row'.previous = (IF kind = "redis" THEN calls[c].old ELSE row.secret)
              /\ row'.status = row.status /\ row'.whole = row.whole
<1> DEFINE call == calls[c]
<1>1. call \in Call /\ row \in Row /\ kind \in {"redis", "pg", "mongo"}
  BY SubscriptionAssumption DEF TypeOK
<1>2. call.old \in Nat /\ call.new \in Nat /\ call.until \in Nat
  BY <1>1 DEF Call
<1>3. row' = Rotated(row, call)
  BY DEF Rotate
<1>4. CASE kind = "redis"
  BY <1>1, <1>2, <1>3, <1>4 DEF Rotated, RedisRotated, Row
<1>5. CASE kind = "pg"
  BY <1>1, <1>2, <1>3, <1>5 DEF Rotated, PgRotated, Row
<1>6. CASE kind = "mongo"
  BY <1>1, <1>2, <1>3, <1>6 DEF Rotated, MongoRotated, Row
<1> QED
  BY <1>1, <1>4, <1>5, <1>6

LEMMA RowAfterStatus ==
  ASSUME TypeOK, NEW c \in Callers, SetStatus(c)
  PROVE  /\ row' \in Row
         /\ row = NoRow /\ kind # "redis" => row' = row
         /\ row'.secret = row.secret /\ row'.previous = row.previous
         /\ row'.until = row.until /\ row'.whole = row.whole
<1> DEFINE status == calls[c].status
<1>1. status \in Status /\ row \in Row /\ kind \in {"redis", "pg", "mongo"}
  BY SubscriptionAssumption DEF TypeOK, Call
<1>2. CASE kind = "redis"
  BY <1>1, <1>2 DEF SetStatus, RedisStatus, Row
<1>3. CASE kind = "pg"
  BY <1>1, <1>3 DEF SetStatus, PgStatus, Row
<1>4. CASE kind = "mongo"
  BY <1>1, <1>4 DEF SetStatus, MongoStatus, Row
<1> QED
  BY <1>1, <1>2, <1>3, <1>4

LEMMA RowAfterDelete ==
  ASSUME TypeOK, NEW c \in Callers, Delete(c)
  PROVE  row' = NoRow
<1>1. kind \in {"redis", "pg", "mongo"}
  BY SubscriptionAssumption DEF TypeOK
<1> QED
  BY <1>1 DEF Delete, PgDeleted, MongoDeleted

LEMMA NothingFits == NoRow \in Row /\ NoCall \in Call /\ NoSend \in Send
BY DEF NoRow, Row, None, Status, NoCall, Call, Steps, NoSend, Send

-------------------------------------------------------------------------------
(* Type correctness.                                                       *)
LEMMA TypedInit == Init => TypeOK
<1> SUFFICES ASSUME Init PROVE TypeOK
  OBVIOUS
<1>1. NoRow \in Row /\ NoCall \in Call /\ NoSend \in Send
  BY NothingFits
<1>2. /\ [c \in Callers |-> NoCall] \in [Callers -> Call]
      /\ [s \in Senders |-> NoSend] \in [Senders -> Send]
      /\ [n \in 1..MaxSecret |-> 0] \in [1..MaxSecret -> Nat]
  BY <1>1
<1> QED
  BY <1>1, <1>2 DEF Init, TypeOK, None

LEMMA TypedBegin ==
  ASSUME TypeOK, NEW c \in Callers, NEW call \in Call, Begin(c, call), issued' \in Nat
  PROVE  TypeOK'
<1>1. overlapped' \in BOOLEAN
  <2>1. (overlapped \/ (kind = "redis" /\ \E b \in Callers \ {c} : calls[b].step # "idle")) \in BOOLEAN
    OBVIOUS
  <2> QED
    BY <2>1 DEF Begin
<1> QED
  BY <1>1 DEF Begin, TypeOK

LEMMA TypedEnd ==
  ASSUME TypeOK, NEW c \in Callers, End(c)
  PROVE  calls' \in [Callers -> Call]
BY NothingFits DEF End, TypeOK

LEMMA TypedStep == TypeOK /\ [Next]_vars => TypeOK'
<1> SUFFICES ASSUME TypeOK, [Next]_vars PROVE TypeOK'
  OBVIOUS
<1>1. /\ row \in Row /\ clock \in Nat /\ issued \in Nat /\ row.secret \in Nat
      /\ told \in [secret: Nat, at: Nat, until: Nat] /\ NoCall \in Call /\ NoSend \in Send
  BY NothingFits DEF TypeOK, Row
<1>2. CASE Create
  <2>1. Inserted(1) \in Row
    <3>1. kind \in {"redis", "pg", "mongo"}
      BY SubscriptionAssumption DEF TypeOK
    <3> QED
      BY <3>1 DEF Inserted, RedisInserted, PgInserted, MongoInserted, NoRow, Row, Status, None
  <2>2. (kind = "redis") \in BOOLEAN
    OBVIOUS
  <2> QED
    BY <1>1, <1>2, <2>1, <2>2 DEF Create, TypeOK, unseen
<1>3. ASSUME NEW c \in Callers, BeginRotate(c)
      PROVE  TypeOK'
  <2>1. PICK grace \in Graces :
          Begin(c, [NoCall EXCEPT !.step = "rotate", !.new = issued + 1, !.since = clock,
                                  !.until = clock + grace,
                                  !.old = IF kind = "redis" THEN row.secret ELSE None])
    BY <1>3 DEF BeginRotate
  <2>2. clock + grace \in Nat /\ issued + 1 \in Nat
    BY <1>1, SubscriptionAssumption
  <2>3. [NoCall EXCEPT !.step = "rotate", !.new = issued + 1, !.since = clock,
                       !.until = clock + grace,
                       !.old = IF kind = "redis" THEN row.secret ELSE None] \in Call
    BY <1>1, <2>2 DEF NoCall, Call, Steps, None, Status
  <2>4. issued' \in Nat
    BY <1>3, <2>2 DEF BeginRotate
  <2> QED
    BY <2>1, <2>3, <2>4, TypedBegin
<1>4. ASSUME NEW c \in Callers, Rotate(c)
      PROVE  TypeOK'
  <2>1. row' \in Row /\ calls' \in [Callers -> Call]
    BY <1>4, RowAfterRotate, TypedEnd DEF Rotate
  <2>2. calls[c].new \in Nat /\ calls[c].until \in Nat
    BY DEF TypeOK, Call
  <2>3. told' \in [secret: Nat, at: Nat, until: Nat] /\ promised' \in [1..MaxSecret -> Nat]
    BY <1>1, <1>4, <2>2 DEF Rotate, TypeOK
  <2>4. hurried' \in BOOLEAN
    <3>1. (hurried \/ Unfinished) \in BOOLEAN
      OBVIOUS
    <3> QED
      BY <1>4, <3>1 DEF Rotate, TypeOK
  <2> QED
    BY <1>4, <2>1, <2>3, <2>4 DEF Rotate, TypeOK
<1>5. ASSUME NEW c \in Callers, BeginStatus(c)
      PROVE  TypeOK'
  <2>1. PICK status \in {"active", "paused"} :
          Begin(c, [NoCall EXCEPT !.step = "status", !.status = status])
    BY <1>5 DEF BeginStatus
  <2>2. [NoCall EXCEPT !.step = "status", !.status = status] \in Call
    BY <1>1 DEF NoCall, Call, Steps, None, Status
  <2>3. issued' \in Nat
    BY <1>1, <1>5 DEF BeginStatus
  <2> QED
    BY <2>1, <2>2, <2>3, TypedBegin
<1>6. ASSUME NEW c \in Callers, SetStatus(c)
      PROVE  TypeOK'
  <2>1. row' \in Row /\ calls' \in [Callers -> Call]
    BY <1>6, RowAfterStatus, TypedEnd DEF SetStatus
  <2> QED
    BY <1>6, <2>1 DEF SetStatus, TypeOK, unseen
<1>7. ASSUME NEW c \in Callers, BeginDelete(c)
      PROVE  TypeOK'
  <2>1. [NoCall EXCEPT !.step = "delete"] \in Call
    BY <1>1 DEF NoCall, Call, Steps, None, Status
  <2>2. issued' \in Nat /\ Begin(c, [NoCall EXCEPT !.step = "delete"])
    BY <1>1, <1>7 DEF BeginDelete
  <2> QED
    BY <2>1, <2>2, TypedBegin
<1>8. ASSUME NEW c \in Callers, Delete(c)
      PROVE  TypeOK'
  <2>1. row' \in Row /\ calls' \in [Callers -> Call]
    BY <1>8, RowAfterDelete, NothingFits, TypedEnd DEF Delete
  <2> QED
    BY <1>8, <2>1 DEF Delete, Unlinked, TypeOK
<1>9. CASE BeginFanOut \/ FanOut
  <2>1. fanout' \in [stage: {"idle", "rows", "done", "raised"}, member: BOOLEAN,
                     late: BOOLEAN, targeted: BOOLEAN]
    <3>1. CASE BeginFanOut
      BY <3>1 DEF BeginFanOut, TypeOK
    <3>2. CASE FanOut
      <4>1. /\ RedisForEvent(row) \in BOOLEAN /\ PgForEvent(row) \in BOOLEAN
            /\ MongoForEvent(row) \in BOOLEAN
        BY DEF RedisForEvent, PgForEvent, MongoForEvent
      <4>2. kind \in {"redis", "pg", "mongo"}
        BY SubscriptionAssumption DEF TypeOK
      <4>3. PICK targeted \in BOOLEAN :
              fanout' = [fanout EXCEPT !.targeted = targeted,
                           !.stage = IF targeted /\ ~row.whole THEN "raised" ELSE "done"]
        BY <3>2, <4>1, <4>2 DEF FanOut
      <4> QED
        BY <4>3 DEF TypeOK
    <3> QED
      BY <1>9, <3>1, <3>2
  <2> QED
    BY <1>9, <2>1 DEF BeginFanOut, FanOut, TypeOK, unseen
<1>10. ASSUME NEW s \in Senders, BeginSend(s) \/ Sign(s) \/ Post(s)
       PROVE  TypeOK'
  <2>1. sends' \in [Senders -> Send]
    <3>1. CASE BeginSend(s)
      <4>1. [NoSend EXCEPT !.stage = "reading", !.now = clock] \in Send
        BY <1>1 DEF NoSend, Send
      <4> QED
        BY <3>1, <4>1 DEF BeginSend, TypeOK
    <3>2. CASE Sign(s)
      <4> DEFINE macs == Signatures(row, sends[s].now)
                 owed == {n \in 1..MaxSecret : promised[n] > sends[s].now}
                 send == IF row.secret = None THEN NoSend
                         ELSE [sends[s] EXCEPT !.stage = "signed", !.macs = macs, !.owed = owed]
      <4>1. macs \subseteq Nat
        BY <1>1 DEF Signatures, PreviousAt, Row
      <4>2. owed \subseteq Nat
        OBVIOUS
      <4>3. sends' = [sends EXCEPT ![s] = send]
        BY <3>2 DEF Sign, TypeOK
      <4> HIDE DEF macs, owed
      <4>4. send \in Send
        BY <1>1, <4>1, <4>2 DEF Send, TypeOK
      <4> QED
        BY <4>3, <4>4 DEF TypeOK
    <3>3. CASE Post(s)
      BY <1>1, <3>3 DEF Post, TypeOK
    <3> QED
      BY <1>10, <3>1, <3>2, <3>3
  <2> QED
    BY <1>10, <2>1 DEF BeginSend, Sign, Post, TypeOK, unseen
<1>11. CASE Switch \/ Advance
  BY <1>1, <1>11 DEF Switch, Advance, TypeOK, unseen
<1>12. CASE UNCHANGED vars
  BY <1>12 DEF vars, TypeOK
<1> QED
  BY <1>2, <1>3, <1>4, <1>5, <1>6, <1>7, <1>8, <1>9, <1>10, <1>11, <1>12 DEF Next

(* Row, calls and sends keep their types, and secrets their numbers.       *)
THEOREM SubscriptionTypes == Spec => []TypeOK
BY TypedInit, TypedStep, PTL DEF Spec

-------------------------------------------------------------------------------
(* The steps, by what they do: a call begins, a call writes, or neither.   *)
Begins(c) == BeginRotate(c) \/ BeginStatus(c) \/ BeginDelete(c)
Writes(c) == Rotate(c) \/ SetStatus(c) \/ Delete(c)
SendStep(s) == BeginSend(s) \/ Sign(s) \/ Post(s)
Quiet ==
  BeginFanOut \/ FanOut \/ (\E s \in Senders : SendStep(s)) \/ Switch \/ Advance \/ UNCHANGED vars

LEMMA ByStep ==
  ASSUME [Next]_vars
  PROVE  Create \/ (\E c \in Callers : Begins(c)) \/ (\E c \in Callers : Writes(c)) \/ Quiet
BY DEF Next, Begins, Writes, SendStep, Quiet

LEMMA Quietly ==
  ASSUME Quiet
  PROVE  UNCHANGED <<kind, row, index, calls, issued, told, deleted, overlapped, hurried, promised>>
BY DEF Quiet, SendStep, BeginFanOut, FanOut, BeginSend, Sign, Post, Switch, Advance, vars, unseen

LEMMA Beginning ==
  ASSUME TypeOK, NEW c \in Callers, Begins(c)
  PROVE  /\ issued > 0 /\ issued' > 0
         /\ Idle(c) /\ ~Idle(c)' /\ \A b \in Callers \ {c} : calls'[b] = calls[b]
         /\ overlapped' = (overlapped \/ (kind = "redis" /\ \E b \in Callers \ {c} : ~Idle(b)))
         /\ calls'[c].step = "rotate" =>
              /\ calls'[c].new \in 1..MaxSecret
              /\ calls'[c].since = clock
              /\ \E grace \in Graces : calls'[c].until = clock + grace
              /\ kind = "redis" => calls'[c].old = row.secret
         /\ kind = "redis" => row # NoRow
         /\ UNCHANGED <<clock, kind, row, index, fanout, sends, held, told, deleted, hurried, promised>>
<1>1. issued \in Nat /\ MaxSecret \in Nat /\ calls \in [Callers -> Call]
  BY SubscriptionAssumption DEF TypeOK
<1>2. CASE BeginRotate(c)
  <2>1. PICK grace \in Graces :
          Begin(c, [NoCall EXCEPT !.step = "rotate", !.new = issued + 1, !.since = clock,
                                  !.until = clock + grace,
                                  !.old = IF kind = "redis" THEN row.secret ELSE None])
    BY <1>2 DEF BeginRotate
  <2>2. kind = "redis" => row # NoRow
    BY <1>2 DEF BeginRotate, NoRow
  <2>3. issued < MaxSecret /\ issued' = issued + 1
    BY <1>2 DEF BeginRotate
  <2>4. calls' = [calls EXCEPT ![c] =
          [NoCall EXCEPT !.step = "rotate", !.new = issued + 1, !.since = clock,
                         !.until = clock + grace,
                         !.old = IF kind = "redis" THEN row.secret ELSE None]]
    BY <2>1 DEF Begin
  <2>5. /\ calls'[c].step = "rotate" /\ calls'[c].new = issued + 1 /\ calls'[c].since = clock
        /\ calls'[c].until = clock + grace /\ kind = "redis" => calls'[c].old = row.secret
        /\ \A b \in Callers \ {c} : calls'[b] = calls[b]
    BY <1>1, <2>4 DEF NoCall
  <2> QED
    BY <1>1, <2>1, <2>2, <2>3, <2>5 DEF Begin, Idle
<1>3. CASE BeginStatus(c)
  <2>1. PICK status \in {"active", "paused"} :
          Begin(c, [NoCall EXCEPT !.step = "status", !.status = status])
    BY <1>3 DEF BeginStatus
  <2>2. calls'[c].step = "status" /\ \A b \in Callers \ {c} : calls'[b] = calls[b]
    BY <1>1, <2>1 DEF Begin, NoCall
  <2> QED
    BY <1>1, <1>3, <2>1, <2>2 DEF Begin, Idle, BeginStatus, MayWrite
<1>4. CASE BeginDelete(c)
  <2>1. calls'[c].step = "delete" /\ \A b \in Callers \ {c} : calls'[b] = calls[b]
    BY <1>1, <1>4 DEF BeginDelete, Begin, NoCall
  <2>2. kind = "redis" => row # NoRow
    BY <1>4 DEF BeginDelete, NoRow
  <2> QED
    BY <1>1, <1>4, <2>1, <2>2 DEF BeginDelete, Begin, Idle
<1> QED
  BY <1>2, <1>3, <1>4 DEF Begins

LEMMA Writing ==
  ASSUME TypeOK, NEW c \in Callers, Writes(c)
  PROVE  /\ ~Idle(c) /\ Idle(c)' /\ \A b \in Callers \ {c} : calls'[b] = calls[b]
         /\ UNCHANGED <<clock, kind, fanout, sends, issued, held, overlapped>>
<1>1. End(c)
  BY DEF Writes, Rotate, SetStatus, Delete
<1>2. calls' = [calls EXCEPT ![c] = NoCall] /\ ~Idle(c)
  BY <1>1 DEF End, Idle
<1>3. Idle(c)' /\ \A b \in Callers \ {c} : calls'[b] = calls[b]
  BY <1>2 DEF TypeOK, Idle, NoCall
<1> QED
  BY <1>2, <1>3 DEF Writes, Rotate, SetStatus, Delete, unseen

-------------------------------------------------------------------------------
(* What the row is: RowInv is inductive.                                   *)
LEMMA RowInvInit == Init => RowInv
<1> SUFFICES ASSUME Init PROVE RowInv
  OBVIOUS
<1>1. MaxSecret \in Nat
  BY SubscriptionAssumption
<1> QED
  BY <1>1, TypedInit DEF Init, RowInv, Numbered, Alone, Idle, NoCall, NoSend, NoRow, None

LEMMA AtCreate ==
  ASSUME TypeOK, Create
  PROVE  row' = [secret |-> 1, previous |-> None, until |-> 0, status |-> "active", whole |-> TRUE]
<1>1. kind \in {"redis", "pg", "mongo"}
  BY SubscriptionAssumption DEF TypeOK
<1> QED
  BY <1>1 DEF Create, Inserted, RedisInserted, PgInserted, MongoInserted, NoRow

LEMMA NumberedStep == RowInv /\ [Next]_vars => Numbered'
<1> SUFFICES ASSUME RowInv, [Next]_vars PROVE Numbered'
  OBVIOUS
<1>1. TypeOK /\ Numbered /\ Alone
  BY DEF RowInv
<1>2. /\ row.secret \in Nat /\ MaxSecret \in Nat \ {0} /\ issued \in Nat /\ NoRow.secret = 0
      /\ kind \in {"redis", "pg", "mongo"}
  BY <1>1, SubscriptionAssumption DEF TypeOK, Row, NoRow, None
<1>3. CASE Create
  BY <1>1, <1>2, <1>3, AtCreate DEF Create, Numbered, Idle
<1>4. ASSUME NEW c \in Callers, Begins(c)
      PROVE  Numbered'
  <2>1. /\ calls'[c].step = "rotate" => calls'[c].new \in 1..MaxSecret
        /\ \A b \in Callers \ {c} : calls'[b] = calls[b]
        /\ issued' > 0 /\ row' = row
    BY <1>1, <1>4, Beginning
  <2> QED
    BY <1>1, <1>2, <2>1 DEF Numbered
<1>5. ASSUME NEW c \in Callers, Writes(c)
      PROVE  Numbered'
  <2>1. /\ ~Idle(c) /\ Idle(c)' /\ \A b \in Callers \ {c} : calls'[b] = calls[b]
        /\ issued' = issued /\ sends' = sends
    BY <1>1, <1>5, Writing
  <2>2. issued # 0
    BY <1>1, <2>1 DEF Numbered
  <2>3. row'.secret <= MaxSecret
    <3>1. CASE Rotate(c)
      <4>1. calls[c].new \in 1..MaxSecret
        BY <1>1, <3>1 DEF Rotate, Numbered
      <4> QED
        BY <1>1, <1>2, <3>1, <4>1, RowAfterRotate DEF Numbered
    <3>2. CASE SetStatus(c)
      BY <1>1, <3>2, RowAfterStatus DEF Numbered
    <3>3. CASE Delete(c)
      BY <1>1, <1>2, <3>3, RowAfterDelete
    <3> QED
      BY <1>5, <3>1, <3>2, <3>3 DEF Writes
  <2>4. \A b \in Callers : calls'[b].step = "rotate" => calls'[b].new \in 1..MaxSecret
    BY <1>1, <2>1 DEF Numbered, Idle
  <2> QED
    BY <2>1, <2>2, <2>3, <2>4 DEF Numbered
<1>6. CASE Quiet
  <2>1. UNCHANGED <<row, calls, issued, deleted, promised>>
    BY <1>6, Quietly
  <2>2. issued = 0 => \A s \in Senders : sends'[s].stage = "idle"
    <3>1. SUFFICES ASSUME issued = 0 PROVE sends' = sends
      BY <1>1 DEF Numbered
    <3>2. ASSUME NEW s \in Senders PROVE ~SendStep(s)
      BY <1>1, <1>2, <3>1 DEF SendStep, BeginSend, Sign, Post, Numbered
    <3> QED
      BY <1>6, <3>2 DEF Quiet, BeginFanOut, FanOut, Switch, Advance, vars, unseen
  <2> QED
    BY <1>1, <2>1, <2>2 DEF Numbered, Idle
<1> QED
  BY <1>3, <1>4, <1>5, <1>6, ByStep

LEMMA AloneStep == RowInv /\ [Next]_vars => Alone'
<1> SUFFICES ASSUME RowInv, [Next]_vars PROVE Alone'
  OBVIOUS
<1>1. TypeOK /\ Numbered /\ Alone
  BY DEF RowInv
<1>2. /\ row \in Row /\ MaxSecret \in Nat \ {0} /\ NoRow.secret = None /\ NoRow.whole = FALSE
      /\ kind \in {"redis", "pg", "mongo"}
  BY <1>1, SubscriptionAssumption DEF TypeOK, NoRow
<1>3. CASE Create
  <2>1. row'.whole = TRUE /\ row'.secret # None /\ kind' = kind /\ overlapped' = overlapped
    BY <1>1, <1>3, AtCreate DEF Create, None, unseen
  <2>2. \A c \in Callers : Idle(c)'
    BY <1>1, <1>3 DEF Create, Numbered, Idle
  <2> QED
    BY <1>1, <2>1, <2>2 DEF Alone
<1>4. ASSUME NEW c \in Callers, Begins(c)
      PROVE  Alone'
  <2>1. /\ calls'[c].step = "rotate" /\ kind = "redis" => calls'[c].old = row.secret
        /\ \A b \in Callers \ {c} : calls'[b] = calls[b]
        /\ overlapped' = (overlapped \/ (kind = "redis" /\ \E b \in Callers \ {c} : ~Idle(b)))
        /\ kind = "redis" => row # NoRow
        /\ kind' = kind /\ row' = row
    BY <1>1, <1>4, Beginning
  <2>2. CASE kind # "redis"
    BY <1>1, <2>1, <2>2 DEF Alone
  <2>3. CASE kind = "redis" /\ overlapped'
    BY <1>1, <2>1, <2>3 DEF Alone
  <2>4. CASE kind = "redis" /\ ~overlapped'
    <3>1. ~overlapped /\ row.whole /\ \A b \in Callers \ {c} : Idle(b) /\ Idle(b)'
      BY <1>1, <2>1, <2>4 DEF Alone, Idle
    <3> QED
      BY <1>1, <2>1, <2>4, <3>1 DEF Alone, Idle
  <2> QED
    BY <2>2, <2>3, <2>4
<1>5. ASSUME NEW c \in Callers, Writes(c)
      PROVE  Alone'
  <2>1. /\ ~Idle(c) /\ Idle(c)' /\ \A b \in Callers \ {c} : calls'[b] = calls[b]
        /\ kind' = kind /\ overlapped' = overlapped
    BY <1>1, <1>5, Writing
  <2>2. kind = "redis" /\ ~overlapped => row.whole /\ \A b \in Callers : Idle(b)'
    BY <1>1, <2>1 DEF Alone, Idle
  <2>3. (row'.whole => row'.secret # None) /\ (~overlapped => row'.whole \/ row' = NoRow)
    <3>1. CASE Rotate(c)
      <4>1. calls[c].new \in 1..MaxSecret
        BY <1>1, <3>1 DEF Rotate, Numbered
      <4>2. row # NoRow \/ kind = "redis" => row'.secret # None /\ row'.whole = row.whole
        BY <1>1, <3>1, <4>1, RowAfterRotate DEF None
      <4>3. row = NoRow /\ kind # "redis" => row' = row
        BY <1>1, <3>1, RowAfterRotate
      <4> QED
        BY <1>1, <1>2, <2>2, <4>2, <4>3 DEF Alone
    <3>2. CASE SetStatus(c)
      <4>1. /\ row'.secret = row.secret /\ row'.whole = row.whole
            /\ row = NoRow /\ kind # "redis" => row' = row
        BY <1>1, <3>2, RowAfterStatus
      <4> QED
        BY <1>1, <1>2, <2>2, <4>1 DEF Alone
    <3>3. CASE Delete(c)
      BY <1>1, <1>2, <3>3, RowAfterDelete
    <3> QED
      BY <1>5, <3>1, <3>2, <3>3 DEF Writes
  <2> QED
    BY <1>1, <2>1, <2>2, <2>3 DEF Alone
<1>6. CASE Quiet
  BY <1>1, <1>6, Quietly DEF Alone, Idle
<1> QED
  BY <1>3, <1>4, <1>5, <1>6, ByStep

LEMMA RowInvStep == RowInv /\ [Next]_vars => RowInv'
BY TypedStep, NumberedStep, AloneStep DEF RowInv

LEMMA RowInvAlways == Spec => []RowInv
BY RowInvInit, RowInvStep, PTL DEF Spec

(* While no two calls overlap on Redis, every secret that leaves the row   *)
(* leaves it as the previous one.                                          *)
LEMMA HandOver ==
  ASSUME RowInv, [Next]_vars, ~overlapped, row.secret # None, row.secret # row'.secret,
         row'.secret # None
  PROVE  row'.previous = row.secret
<1>1. TypeOK /\ Numbered /\ Alone /\ NoRow.secret = None
  BY DEF RowInv, NoRow
<1>2. CASE Create
  BY <1>1, <1>2 DEF Create, Numbered
<1>3. ASSUME NEW c \in Callers, Begins(c)
      PROVE  FALSE
  BY <1>1, <1>3, Beginning
<1>4. ASSUME NEW c \in Callers, Writes(c)
      PROVE  row'.previous = row.secret
  <2>1. CASE Rotate(c)
    <3>1. kind = "redis" => calls[c].old = row.secret
      BY <1>1, <1>4, <2>1, Writing DEF Alone, Rotate, Idle
    <3> QED
      BY <1>1, <2>1, <3>1, RowAfterRotate
  <2>2. CASE SetStatus(c)
    BY <1>1, <2>2, RowAfterStatus
  <2>3. CASE Delete(c)
    BY <1>1, <2>3, RowAfterDelete
  <2> QED
    BY <1>4, <2>1, <2>2, <2>3 DEF Writes
<1>5. CASE Quiet
  BY <1>5, Quietly
<1> QED
  BY <1>2, <1>3, <1>4, <1>5, ByStep

(* Every secret that leaves the row while calls do not overlap leaves it   *)
(* as the previous one (the rotate_secret calls of the stores).            *)
THEOREM SecretsAreHandedOver == Spec => SecretsHandOver
<1>1. RowInv /\ [Next]_vars =>
        [~overlapped /\ row.secret # None /\ row.secret # row'.secret /\ row'.secret # None =>
           row'.previous = row.secret]_vars
  BY HandOver
<1> QED
  BY <1>1, RowInvAlways, PTL DEF Spec, SecretsHandOver

-------------------------------------------------------------------------------
(* What deletion leaves behind.                                            *)
LEMMA GoneStep == RowInv /\ Gone /\ [Next]_vars => Gone'
<1> SUFFICES ASSUME RowInv, Gone, [Next]_vars PROVE Gone'
  OBVIOUS
<1>1. TypeOK /\ Numbered /\ Alone /\ NoRow.whole = FALSE
  BY DEF RowInv, NoRow
<1>2. CASE Create
  BY <1>1, <1>2 DEF Create, Gone, Numbered, unseen
<1>3. ASSUME NEW c \in Callers, Begins(c)
      PROVE  Gone'
  BY <1>1, <1>3, Beginning DEF Gone
<1>4. ASSUME NEW c \in Callers, Writes(c)
      PROVE  Gone'
  <2>1. ~Idle(c) /\ UNCHANGED <<fanout, overlapped>>
    BY <1>1, <1>4, Writing
  <2>2. row = NoRow /\ ~overlapped => kind # "redis"
    BY <1>1, <2>1 DEF Alone
  <2>3. CASE Rotate(c)
    BY <1>1, <2>1, <2>2, <2>3, RowAfterRotate DEF Rotate, Gone
  <2>4. CASE SetStatus(c)
    <3>1. UNCHANGED <<index, deleted>>
      BY <2>4 DEF SetStatus, unseen
    <3>2. row = NoRow /\ kind # "redis" => row' = row
      BY <1>1, <2>4, RowAfterStatus
    <3> QED
      BY <2>1, <2>2, <3>1, <3>2 DEF Gone
  <2>5. CASE Delete(c)
    BY <1>1, <2>1, <2>5, RowAfterDelete DEF Delete, Unlinked, Gone
  <2> QED
    BY <1>4, <2>3, <2>4, <2>5 DEF Writes
<1>5. CASE Quiet
  <2>1. UNCHANGED <<row, index, deleted, overlapped>>
    BY <1>5, Quietly
  <2>2. fanout'.late => deleted /\ ~fanout'.member
    <3>1. CASE BeginFanOut
      BY <3>1 DEF BeginFanOut, Gone
    <3>2. CASE FanOut
      <4>1. fanout'.late = fanout.late /\ fanout'.member = fanout.member
        BY <1>1, <3>2 DEF FanOut, TypeOK
      <4> QED
        BY <4>1 DEF Gone
    <3>3. CASE fanout' = fanout
      BY <3>3 DEF Gone
    <3> QED
      BY <1>5, <3>1, <3>2, <3>3
      DEF Quiet, SendStep, BeginSend, Sign, Post, Switch, Advance, vars
  <2> QED
    BY <2>1, <2>2 DEF Gone
<1> QED
  BY <1>2, <1>3, <1>4, <1>5, ByStep

LEMMA GoneAlways == Spec => []Gone
<1>1. Init => Gone
  BY DEF Init, Gone
<1> QED
  BY <1>1, GoneStep, RowInvAlways, PTL DEF Spec

(* On a store whose calls do not overlap no status write or rotation       *)
(* brings a deleted row back.                                              *)
THEOREM DeletedStaysGone == Spec => DeletedIsGone
<1>1. RowInv /\ Gone /\ [Next]_vars => [deleted /\ ~overlapped => row' = NoRow]_vars
  <2> SUFFICES ASSUME RowInv, Gone, [Next]_vars, deleted, ~overlapped PROVE row' = NoRow
    OBVIOUS
  <2>1. row = NoRow /\ TypeOK /\ Numbered /\ Alone /\ NoRow.whole = FALSE
    BY DEF Gone, RowInv, NoRow
  <2>2. ~Create
    BY <2>1 DEF Create, Numbered
  <2>3. ASSUME NEW c \in Callers, Begins(c)
        PROVE  row' = NoRow
    BY <2>1, <2>3, Beginning
  <2>4. ASSUME NEW c \in Callers, Writes(c)
        PROVE  row' = NoRow
    <3>1. ~Idle(c)
      BY <2>1, <2>4, Writing
    <3>2. kind # "redis"
      BY <2>1, <3>1 DEF Alone
    <3> QED
      BY <2>1, <2>4, <3>2, RowAfterRotate, RowAfterStatus, RowAfterDelete DEF Writes
  <2>5. CASE Quiet
    BY <2>1, <2>5, Quietly
  <2> QED
    BY <2>2, <2>3, <2>4, <2>5, ByStep
<1> QED
  BY <1>1, RowInvAlways, GoneAlways, PTL DEF Spec, DeletedIsGone

-------------------------------------------------------------------------------
(* What for_event makes of the row.                                        *)
LEMMA FanOutStep == RowInv /\ Gone /\ DeletedIsQuiet /\ FanOutRuns /\ [Next]_vars
                      => DeletedIsQuiet' /\ FanOutRuns'
<1> SUFFICES ASSUME RowInv, Gone, DeletedIsQuiet, FanOutRuns, [Next]_vars
             PROVE  DeletedIsQuiet' /\ FanOutRuns'
  OBVIOUS
<1>1. /\ TypeOK /\ Numbered /\ Alone /\ kind \in {"redis", "pg", "mongo"}
      /\ NoRow.status = "none"
  BY SubscriptionAssumption DEF RowInv, TypeOK, NoRow
<1>2. CASE Create
  BY <1>2 DEF Create, DeletedIsQuiet, FanOutRuns, unseen
<1>3. ASSUME NEW c \in Callers, Begins(c)
      PROVE  DeletedIsQuiet' /\ FanOutRuns'
  BY <1>1, <1>3, Beginning DEF DeletedIsQuiet, FanOutRuns
<1>4. ASSUME NEW c \in Callers, Writes(c)
      PROVE  DeletedIsQuiet' /\ FanOutRuns'
  BY <1>1, <1>4, Writing DEF DeletedIsQuiet, FanOutRuns
<1>5. CASE BeginFanOut
  BY <1>5 DEF BeginFanOut, DeletedIsQuiet, FanOutRuns
<1>6. CASE FanOut
  <2> DEFINE targeted == CASE kind = "redis" -> RedisForEvent(row)
                           [] kind = "pg"    -> PgForEvent(row)
                           [] kind = "mongo" -> MongoForEvent(row)
  <2>1. targeted => row.status = "active" /\ (kind = "redis" => fanout.member)
    BY <1>1 DEF RedisForEvent, PgForEvent, MongoForEvent
  <2>2. /\ fanout'.late = fanout.late /\ fanout'.targeted = targeted
        /\ fanout'.stage = (IF targeted /\ ~row.whole THEN "raised" ELSE "done")
        /\ overlapped' = overlapped
    BY <1>1, <1>6 DEF FanOut, TypeOK, unseen
  <2> HIDE DEF targeted
  <2>3. targeted => row # NoRow
    BY <1>1, <2>1
  <2>4. targeted => ~fanout.late
    BY <1>1, <2>1, <2>3 DEF Gone, Alone
  <2>5. targeted /\ ~row.whole => overlapped
    BY <1>1, <2>3 DEF Alone
  <2> QED
    BY <2>2, <2>4, <2>5 DEF DeletedIsQuiet, FanOutRuns
<1>7. CASE Quiet /\ fanout' = fanout
  BY <1>7, Quietly DEF DeletedIsQuiet, FanOutRuns
<1>8. Quiet => BeginFanOut \/ FanOut \/ fanout' = fanout
  BY DEF Quiet, SendStep, BeginSend, Sign, Post, Switch, Advance, vars
<1> QED
  BY <1>2, <1>3, <1>4, <1>5, <1>6, <1>7, <1>8, ByStep

LEMMA FanOutAlways == Spec => [](DeletedIsQuiet /\ FanOutRuns)
<1>1. Init => DeletedIsQuiet /\ FanOutRuns
  BY DEF Init, DeletedIsQuiet, FanOutRuns
<1> QED
  BY <1>1, FanOutStep, RowInvAlways, GoneAlways, PTL DEF Spec

(* for_event fails on a hash without its owner only after two Redis calls  *)
(* overlapped, a status write or rotation with a delete.                   *)
THEOREM OnlyRacesBreakFanOut == Spec => []FanOutRuns
BY FanOutAlways, PTL

(* A for_event that begins after a delete neither targets the subscription *)
(* nor fails on what is left of it, whatever calls raced the delete.       *)
THEOREM DeletedIsNeverTargeted == Spec => []DeletedIsQuiet
BY FanOutAlways, PTL

-------------------------------------------------------------------------------
(* What dispatchers sign with.                                             *)
LEMMA Numbers ==
  ASSUME TypeOK
  PROVE  /\ clock \in Nat /\ CallBound \in Nat /\ MaxSecret \in Nat \ {0} /\ Window \in Nat
         /\ held \in Nat /\ told.secret \in Nat /\ told.at \in Nat /\ told.until \in Nat
         /\ row.secret \in Nat /\ row.previous \in Nat /\ row.until \in Nat
         /\ \A n \in 1..MaxSecret : promised[n] \in Nat
         /\ \A c \in Callers : /\ calls[c].since \in Nat /\ calls[c].until \in Nat
                               /\ calls[c].old \in Nat /\ calls[c].new \in Nat
         /\ \A s \in Senders : sends[s].now \in Nat
         /\ Graces \subseteq Nat
BY SubscriptionAssumption DEF TypeOK, Row, Call, Send

(* One dispatcher's step, by what it does to its send.                     *)
LEMMA Sending ==
  ASSUME TypeOK, NEW s \in Senders, SendStep(s)
  PROVE  /\ UNCHANGED <<clock, held>>
         /\ \A z \in Senders \ {s} : sends'[z] = sends[z]
         /\ \/ sends'[s].stage = "idle"
            \/ sends'[s].stage = "reading" /\ sends'[s].now = clock
            \/ /\ sends[s].stage = "reading" /\ sends'[s].stage = "signed"
               /\ sends'[s].now = sends[s].now /\ row.secret # None
               /\ sends'[s].macs = Signatures(row, sends[s].now)
               /\ sends'[s].owed = {n \in 1..MaxSecret : promised[n] > sends[s].now}
<1>1. CASE BeginSend(s)
  BY <1>1 DEF BeginSend, TypeOK, NoSend
<1>2. CASE Sign(s)
  <2>1. CASE row.secret = None
    BY <1>2, <2>1 DEF Sign, TypeOK, NoSend
  <2>2. CASE row.secret # None
    <3>1. sends' = [sends EXCEPT ![s] =
            [sends[s] EXCEPT !.stage = "signed", !.macs = Signatures(row, sends[s].now),
                             !.owed = {n \in 1..MaxSecret : promised[n] > sends[s].now}]]
      BY <1>2, <2>2 DEF Sign, TypeOK
    <3>2. sends[s] \in Send
      BY DEF TypeOK
    <3> HIDE DEF Signatures
    <3> QED
      BY <1>2, <2>2, <3>1, <3>2 DEF Sign, TypeOK, Send
  <2> QED
    BY <2>1, <2>2
<1>3. CASE Post(s)
  BY <1>3 DEF Post, TypeOK, NoSend
<1> QED
  BY <1>1, <1>2, <1>3 DEF SendStep

LEMMA RecentStep == RowInv /\ Recent /\ [Next]_vars => Recent'
<1> SUFFICES ASSUME RowInv, Recent, [Next]_vars PROVE Recent'
  OBVIOUS
<1>1. TypeOK
  BY DEF RowInv
<1>2. CASE Create
  BY <1>1, <1>2, Numbers DEF Create, Recent
<1>3. ASSUME NEW c \in Callers, Begins(c)
      PROVE  Recent'
  <2>1. /\ UNCHANGED <<clock, told, sends>>
        /\ \A b \in Callers \ {c} : calls'[b] = calls[b]
        /\ calls'[c].step = "rotate" =>
             calls'[c].since = clock /\ \E grace \in Graces : calls'[c].until = clock + grace
    BY <1>1, <1>3, Beginning
  <2> QED
    BY <1>1, <2>1, Numbers DEF Recent
<1>4. ASSUME NEW c \in Callers, Writes(c)
      PROVE  Recent'
  <2>1. /\ UNCHANGED <<clock, sends>>
        /\ Idle(c)' /\ \A b \in Callers \ {c} : calls'[b] = calls[b]
    BY <1>1, <1>4, Writing
  <2>2. told'.at <= clock
    BY <1>1, <1>4, Numbers DEF Writes, Rotate, SetStatus, Delete, Recent
  <2> QED
    BY <2>1, <2>2 DEF Recent, Idle
<1>5. ASSUME NEW s \in Senders, SendStep(s)
      PROVE  Recent'
  <2>1. UNCHANGED <<calls, told>>
    BY <1>5, Quietly DEF Quiet
  <2> QED
    BY <1>1, <1>5, <2>1, Sending, Numbers DEF Recent
<1>6. CASE Advance
  BY <1>1, <1>6, Numbers DEF Advance, Recent
<1>7. CASE BeginFanOut \/ FanOut \/ Switch \/ UNCHANGED vars
  BY <1>7 DEF BeginFanOut, FanOut, Switch, Recent, vars
<1> QED
  BY <1>2, <1>3, <1>4, <1>5, <1>6, <1>7, ByStep DEF Quiet

(* A rotation that wrote the row, while calls do not overlap: the secret   *)
(* before it is the one that the row and the last rotation held.           *)
LEMMA RotatedCalmly ==
  ASSUME RowInv, Promises, NEW c \in Callers, Rotate(c), Calm', row'.secret # None
  PROVE  /\ Calm /\ ~Unfinished /\ row.secret \in 1..MaxSecret
         /\ row.secret = told.secret /\ row'.previous = row.secret
         /\ row'.secret = calls[c].new /\ row'.until = calls[c].until
         /\ told' = [secret |-> calls[c].new, at |-> clock, until |-> calls[c].until]
         /\ promised' = [n \in 1..MaxSecret |-> IF n = row.secret THEN calls[c].until ELSE promised[n]]
<1>1. TypeOK /\ Numbered /\ Alone /\ NoRow.secret = None
  BY DEF RowInv, NoRow
<1>2. row # NoRow \/ kind = "redis"
  BY <1>1, RowAfterRotate
<1>3. /\ told' = [secret |-> calls[c].new, at |-> clock, until |-> calls[c].until]
      /\ hurried' = (hurried \/ Unfinished) /\ overlapped' = overlapped
      /\ promised' = [n \in 1..MaxSecret |-> IF n = row.secret THEN calls[c].until ELSE promised[n]]
  BY <1>2 DEF Rotate
<1>4. Calm /\ ~Unfinished
  BY <1>3 DEF Calm
<1>5. row.secret # None /\ (kind = "redis" => calls[c].old = row.secret)
  <2>1. ~Idle(c) /\ calls[c].step = "rotate"
    BY DEF Rotate, Idle
  <2> QED
    BY <1>1, <1>2, <1>4, <2>1 DEF Alone, Calm
<1>6. row.secret \in 1..MaxSecret
  BY <1>1, <1>5, Numbers DEF Numbered, None
<1> QED
  BY <1>1, <1>2, <1>3, <1>4, <1>5, <1>6, RowAfterRotate DEF Promises

LEMMA PromisesStep == RowInv /\ Promises /\ [Next]_vars => Promises'
<1> SUFFICES ASSUME RowInv, Promises, [Next]_vars, Calm', row'.secret # None
             PROVE  Promises'
  BY DEF Promises
<1>1. TypeOK /\ Numbered /\ Alone /\ NoRow.secret = None /\ None = 0
  BY DEF RowInv, NoRow, None
<1>2. CASE Create
  BY <1>1, <1>2, AtCreate DEF Create, Numbered, unseen, Promises
<1>3. ASSUME NEW c \in Callers, Begins(c)
      PROVE  Promises'
  BY <1>1, <1>3, Beginning DEF Calm, Promises
<1>4. ASSUME NEW c \in Callers, Rotate(c)
      PROVE  Promises'
  <2>1. /\ Calm /\ ~Unfinished /\ row.secret \in 1..MaxSecret
        /\ row.secret = told.secret /\ row'.previous = row.secret
        /\ row'.secret = calls[c].new /\ row'.until = calls[c].until
        /\ told' = [secret |-> calls[c].new, at |-> clock, until |-> calls[c].until]
        /\ promised' = [n \in 1..MaxSecret |-> IF n = row.secret THEN calls[c].until ELSE promised[n]]
    BY <1>4, RotatedCalmly
  <2>2. clock' = clock
    BY <1>4 DEF Rotate
  <2>3. ASSUME NEW n \in 1..MaxSecret, n # row.secret
        PROVE  promised[n] = 0 \/ promised[n] + CallBound <= clock
    <3>1. CASE n = row.previous
      <4>1. promised[n] = told.until
        BY <1>1, <2>1, <3>1 DEF Promises
      <4> QED
        BY <1>1, <2>1, <4>1, Numbers DEF Unfinished
    <3>2. CASE n # row.previous
      BY <1>1, <2>1, <3>2 DEF Promises
    <3> QED
      BY <3>1, <3>2
  <2> QED
    BY <2>1, <2>2, <2>3 DEF Promises
<1>5. ASSUME NEW c \in Callers, SetStatus(c)
      PROVE  Promises'
  <2>1. UNCHANGED <<clock, told, promised, hurried, overlapped>>
    BY <1>5 DEF SetStatus, unseen
  <2>2. row'.secret = row.secret /\ row'.previous = row.previous /\ row'.until = row.until
    BY <1>1, <1>5, RowAfterStatus
  <2> QED
    BY <2>1, <2>2 DEF Promises, Calm
<1>6. ASSUME NEW c \in Callers, Delete(c)
      PROVE  FALSE
  BY <1>1, <1>6, RowAfterDelete
<1>7. CASE Quiet
  <2>1. UNCHANGED <<row, told, promised, hurried, overlapped>>
    BY <1>7, Quietly
  <2>2. clock' \in Nat /\ clock <= clock'
    <3>1. clock' = clock \/ clock' = clock + 1
      BY <1>7 DEF Quiet, SendStep, BeginFanOut, FanOut, BeginSend, Sign, Post, Switch, Advance, vars
    <3> QED
      BY <1>1, <3>1, Numbers
  <2>3. ASSUME NEW n \in 1..MaxSecret, promised[n] + CallBound <= clock
        PROVE  promised[n] + CallBound <= clock'
    <3>1. promised[n] \in Nat /\ CallBound \in Nat /\ clock \in Nat
      BY <1>1, Numbers
    <3> QED
      BY <2>2, <2>3, <3>1
  <2> QED
    BY <2>1, <2>3 DEF Promises, Calm
<1> QED
  BY <1>2, <1>3, <1>4, <1>5, <1>6, <1>7, ByStep DEF Writes

(* Only a reading of the secrets adds to what is signed.                   *)
LEMMA SignsStep ==
  RowInv /\ Recent /\ Promises /\ OldSecretSigns /\ [Next]_vars => OldSecretSigns'
<1> SUFFICES ASSUME RowInv, Recent, Promises, OldSecretSigns, [Next]_vars, Calm',
                    NEW s \in Senders, sends'[s].stage = "signed"
             PROVE  sends'[s].owed \subseteq sends'[s].macs
  BY DEF OldSecretSigns, GraceKept, Calm
<1>1. TypeOK
  BY DEF RowInv
<1>2. Calm
  <2>1. CASE Create
    BY <2>1 DEF Create, unseen, Calm
  <2>2. ASSUME NEW c \in Callers, Begins(c) PROVE Calm
    <3>1. hurried' = hurried /\ (overlapped => overlapped')
      BY <1>1, <2>2, Beginning
    <3> QED
      BY <3>1 DEF Calm
  <2>3. ASSUME NEW c \in Callers, Writes(c) PROVE Calm
    <3>1. overlapped' = overlapped
      BY <1>1, <2>3, Writing
    <3>2. hurried => hurried'
      BY <2>3 DEF Writes, Rotate, SetStatus, Delete, unseen
    <3> QED
      BY <3>1, <3>2 DEF Calm
  <2>4. CASE Quiet
    BY <2>4, Quietly DEF Calm
  <2> QED
    BY <2>1, <2>2, <2>3, <2>4, ByStep
<1>3. CASE sends'[s] = sends[s]
  BY <1>2, <1>3 DEF OldSecretSigns, GraceKept, Calm
<1>4. ASSUME NEW z \in Senders, SendStep(z), sends'[s] # sends[s]
      PROVE  sends'[s].owed \subseteq sends'[s].macs
  <2>1. z = s
    BY <1>1, <1>4, Sending
  <2>2. /\ sends[s].stage = "reading" /\ row.secret # None
        /\ sends'[s].macs = Signatures(row, sends[s].now)
        /\ sends'[s].owed = {n \in 1..MaxSecret : promised[n] > sends[s].now}
    BY <1>1, <1>4, <2>1, Sending
  <2>3. clock <= sends[s].now + CallBound
    BY <2>2 DEF Recent
  <2>4. ASSUME NEW n \in 1..MaxSecret, promised[n] > sends[s].now
        PROVE  n \in Signatures(row, sends[s].now)
    <3>1. n = row.previous
      BY <1>1, <1>2, <2>2, <2>3, <2>4, Numbers DEF Promises
    <3>2. row.previous # None /\ row.until > sends[s].now
      BY <1>2, <2>2, <2>4, <3>1 DEF Promises, None
    <3> QED
      BY <3>1, <3>2 DEF Signatures, PreviousAt
  <2> QED
    BY <2>2, <2>4
<1>5. sends' = sends \/ \E z \in Senders : SendStep(z)
  BY <1>1, ByStep, Beginning, Writing
  DEF Quiet, Create, BeginFanOut, FanOut, Switch, Advance, vars
<1> QED
  BY <1>3, <1>4, <1>5

LEMMA SignAlways == Spec => [](RowInv /\ Gone /\ Recent /\ Promises /\ OldSecretSigns)
<1>1. Init => Recent /\ Promises /\ OldSecretSigns
  <2> SUFFICES ASSUME Init PROVE Recent /\ Promises /\ OldSecretSigns
    OBVIOUS
  <2>1. row.secret = None /\ told.at = 0 /\ clock = 1
    BY DEF Init, NoRow
  <2>2. \A c \in Callers : calls[c].step = "idle"
    BY DEF Init, NoCall
  <2>3. \A s \in Senders : sends[s].stage = "idle"
    BY DEF Init, NoSend
  <2> QED
    BY <2>1, <2>2, <2>3 DEF Recent, Promises, OldSecretSigns, GraceKept
<1> QED
  BY <1>1, RecentStep, PromisesStep, SignsStep, RowInvAlways, GoneAlways, PTL DEF Spec

(* Each send signs with every secret whose window is open when it begins,  *)
(* as rotate_secret promises, while no rotation falls into another's       *)
(* window and Redis calls do not overlap.                                  *)
THEOREM OldSecretsSign == Spec => []OldSecretSigns
BY SignAlways, PTL

-------------------------------------------------------------------------------
(* What a patient receiver verifies.                                       *)
LEMMA FollowsStep ==
  Timely /\ RowInv /\ Recent /\ Promises /\ Follows /\ [Next]_vars => Follows'
<1> SUFFICES ASSUME Timely, RowInv, Recent, Promises, Follows, [Next]_vars, Calm'
             PROVE  Follows'
  BY DEF Follows
<1>1. TypeOK /\ Numbered /\ None = 0
  BY DEF RowInv, None
<1>2. CASE Create
  <2>1. held' = told'.secret
    BY <1>2 DEF Create
  <2>2. \A s \in Senders : sends'[s].stage = "idle"
    BY <1>1, <1>2 DEF Create, Numbered
  <2> QED
    BY <2>1, <2>2 DEF Follows
<1>3. ASSUME NEW c \in Callers, Begins(c)
      PROVE  Follows'
  <2>1. UNCHANGED <<clock, row, told, held, sends, hurried>> /\ (overlapped => overlapped')
    BY <1>1, <1>3, Beginning
  <2> QED
    BY <2>1 DEF Follows, Calm
<1>4. ASSUME NEW c \in Callers, Rotate(c), row'.secret # None
      PROVE  Follows'
  <2>1. /\ Calm /\ ~Unfinished /\ row.secret \in 1..MaxSecret
        /\ row.secret = told.secret /\ row'.previous = row.secret
        /\ told' = [secret |-> calls[c].new, at |-> clock, until |-> calls[c].until]
    BY <1>4, RotatedCalmly
  <2>2. UNCHANGED <<clock, held, sends>> /\ calls[c].step = "rotate"
    BY <1>4 DEF Rotate
  <2>3. held = told.secret
    BY <1>1, <2>1, Numbers DEF Follows, Unfinished
  <2>4. clock < calls[c].until
    <3>1. PICK grace \in Graces : calls[c].until = calls[c].since + grace
      BY <2>2 DEF Recent
    <3>2. clock <= calls[c].since + CallBound /\ CallBound < grace /\ grace \in Nat
      BY <1>1, <2>2, <3>1, Numbers DEF Recent, Timely
    <3> QED
      BY <1>1, <3>1, <3>2, Numbers
  <2>5. ASSUME NEW s \in Senders, sends[s].stage = "signed"
        PROVE  held \in sends[s].macs /\ sends[s].now <= clock
    BY <2>1, <2>5 DEF Follows, Recent
  <2> QED
    BY <1>1, <2>1, <2>2, <2>3, <2>4, <2>5 DEF Follows
<1>5. ASSUME NEW c \in Callers, Writes(c), row'.secret = None
      PROVE  Follows'
  <2>1. UNCHANGED <<clock, held, sends, overlapped>>
    BY <1>1, <1>5, Writing
  <2>2. CASE UNCHANGED <<told, hurried>>
    BY <1>5, <2>1, <2>2 DEF Follows, Calm
  <2>3. CASE Rotate(c) /\ (kind = "redis" \/ row # NoRow)
    <3>1. calls[c].new \in 1..MaxSecret
      BY <1>1, <2>3 DEF Rotate, Numbered
    <3> QED
      BY <1>1, <1>5, <2>3, <3>1, RowAfterRotate
  <2> QED
    BY <1>5, <2>2, <2>3 DEF Writes, Rotate, SetStatus, Delete, unseen
<1>6. ASSUME NEW c \in Callers, SetStatus(c)
      PROVE  Follows'
  <2>1. UNCHANGED <<clock, told, held, sends, hurried, overlapped>>
    BY <1>6 DEF SetStatus, unseen
  <2>2. row'.secret = row.secret /\ row'.previous = row.previous
    BY <1>1, <1>6, RowAfterStatus
  <2> QED
    BY <2>1, <2>2 DEF Follows, Calm
<1>7. ASSUME NEW c \in Callers, Delete(c)
      PROVE  row'.secret = None
  BY <1>1, <1>7, RowAfterDelete DEF NoRow
<1>8. ASSUME NEW s \in Senders, SendStep(s)
      PROVE  Follows'
  <2>1. UNCHANGED <<clock, row, told, held, overlapped, hurried>>
    BY <1>1, <1>8, Quietly, Sending DEF Quiet
  <2>2. ASSUME row.secret # None, sends[s].stage = "reading"
        PROVE  /\ told.secret \in Signatures(row, sends[s].now)
               /\ held \in Signatures(row, sends[s].now)
    <3>1. row.secret = told.secret /\ row.until = told.until
      BY <2>1, <2>2 DEF Promises, Calm
    <3>2. held # told.secret => held = row.previous /\ held # None /\ clock < told.until
      BY <2>1, <2>2 DEF Follows, Calm
    <3>3. sends[s].now <= clock
      BY <2>2 DEF Recent
    <3>4. held # told.secret => held \in PreviousAt(row, sends[s].now)
      BY <1>1, <3>1, <3>2, <3>3, Numbers DEF PreviousAt
    <3> QED
      BY <3>1, <3>4 DEF Signatures
  <2>3. ASSUME NEW z \in Senders, sends'[z].stage = "signed"
        PROVE  held \in sends'[z].macs /\ (told.secret \in sends'[z].macs \/ sends'[z].now <= told.at)
    <3>1. CASE z = s
      BY <1>1, <1>8, <2>2, <2>3, <3>1, Sending
    <3>2. CASE z # s
      BY <1>1, <1>8, <2>1, <2>3, <3>2, Sending DEF Follows, Calm
    <3> QED
      BY <3>1, <3>2
  <2> QED
    BY <2>1, <2>3 DEF Follows, Calm
<1>9. CASE Switch
  <2>1. /\ held' = told.secret /\ clock > told.at + CallBound
        /\ UNCHANGED <<clock, row, told, sends, overlapped, hurried>>
    BY <1>9 DEF Switch, Timely, unseen
  <2>2. ASSUME NEW s \in Senders, sends[s].stage = "signed"
        PROVE  told.secret \in sends[s].macs
    <3>1. sends[s].now > told.at
      BY <1>1, <2>1, <2>2, Numbers DEF Recent
    <3> QED
      BY <1>1, <2>1, <2>2, <3>1, Numbers DEF Follows, Calm
  <2> QED
    BY <2>1, <2>2 DEF Follows
<1>10. CASE Advance
  <2>1. /\ UNCHANGED <<row, told, held, sends, overlapped, hurried>>
        /\ ~hurried /\ held # told.secret => clock' < told.until
    BY <1>10 DEF Advance, Timely, unseen
  <2> QED
    BY <2>1 DEF Follows, Calm
<1>11. CASE BeginFanOut \/ FanOut \/ UNCHANGED vars
  BY <1>11 DEF BeginFanOut, FanOut, Follows, Calm, vars, unseen
<1> QED
  BY <1>2, <1>3, <1>4, <1>5, <1>6, <1>7, <1>8, <1>9, <1>10, <1>11, ByStep DEF Quiet, Writes

(* Every delivery that is signed verifies with the secret of a patient     *)
(* receiver, as verify_webhook does it, whatever rotation falls between    *)
(* the clock reading, the signing and the POST of send, if the windows of  *)
(* the rotations are longer than a call and do not run into each other.    *)
THEOREM PatientReceiversVerify == Timely /\ Spec => []ReceiverVerifies
<1>1. Init => Follows
  BY DEF Init, Follows, NoSend
<1>2. RowInv /\ Recent /\ Follows /\ Timely => ReceiverVerifies
  <2> SUFFICES ASSUME RowInv, Recent, Follows, Timely, Calm,
                      NEW s \in Senders, sends[s].stage = "signed"
               PROVE  Verifies(held, sends[s], clock)
    BY DEF ReceiverVerifies, Calm
  <2>1. held \in sends[s].macs
    BY DEF Follows
  <2>2. clock <= sends[s].now + CallBound /\ CallBound <= Window /\ TypeOK
    BY DEF Recent, Timely, RowInv
  <2> QED
    BY <2>1, <2>2, Numbers DEF Verifies
<1>3. CASE Timely
  <2>1. Spec => []Follows
    BY <1>1, <1>3, FollowsStep, SignAlways, PTL DEF Spec
  <2>2. RowInv /\ Recent /\ Follows => ReceiverVerifies
    BY <1>2, <1>3
  <2> QED
    BY <2>1, <2>2, SignAlways, PTL
<1> QED
  BY <1>3
===============================================================================
