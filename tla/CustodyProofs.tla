---------------------------- MODULE CustodyProofs -----------------------------
(***************************************************************************)
(* Who has a delivery of RedisStore: theorems about the two sets, the      *)
(* tasks and the hashes, for every set of replicas and deliveries, in a    *)
(* safe deployment, wherever settling pipelines are cut.                   *)
(***************************************************************************)
EXTENDS RedisProofs

(* A task keeps the lease it claimed up to the first command of the        *)
(* settling pipeline, and is closing the delivery up to the last one that  *)
(* matters.  A task that quarantines a delivery whose pipeline was cut has *)
(* no claim to it: the delivery may be another one's by now.               *)
Keeps(r, d) ==
  \/ Stage(r, d) \in Loading \cup {"queued", "posting"}
  \/ Stage(r, d) \in {"push", "unlease"} /\ (~torn[d] \/ ~tasks[r][d].salvage)
  \/ Stage(r, d) = "note" /\ ~torn[d]

Closing(r, d) ==
  /\ \/ Stage(r, d) \in {"unready", "requeue", "expire"}
     \/ Stage(r, d) = "write" /\ tasks[r][d].verdict # "failed_retry"
  /\ ~torn[d] \/ ~tasks[r][d].salvage

Holds(r, d) == Keeps(r, d) \/ Closing(r, d)

(* Calls do not outlive HoldBound, and ticks run one after the other.      *)
Timed ==
  /\ \A r \in Replicas :
       /\ nowRead[r] <= clock
       /\ pc[r] \in {"reclaim", "claim"} => nowRead[r] >= 1
       /\ pc[r] = "claim" => clock <= nowRead[r] + HoldBound
  /\ \A r \in Replicas, d \in Deliveries :
       /\ Stage(r, d) # "none" => pc[r] \in {"load", "gather"}
       /\ Stage(r, d) # "none" => 1 <= tasks[r][d].since /\ tasks[r][d].since <= clock
       /\ Keeps(r, d) => clock <= tasks[r][d].since + HoldBound
       /\ pc[r] = "load" => Stage(r, d) \in {"none"} \cup Loading

(* One task holds a delivery, which is then not ready.                     *)
Leased(d) ==
  /\ ready[d] = NotIn \/ inflight[d] = NotIn
  /\ \A r \in Replicas : Holds(r, d) =>
       ready[d] = NotIn /\ \A q \in Replicas \ {r} : ~Holds(q, d)
  /\ \A r \in Replicas : Closing(r, d) => inflight[d] = NotIn
  /\ \A r \in Replicas : Keeps(r, d) =>
       inflight[d] = tasks[r][d].since + LeaseTtl \/ (torn[d] /\ inflight[d] = NotIn)

(* Before it is enqueued nobody knows of it; when its hash is gone or has  *)
(* a time to live, it is in neither set and in nobody's hands.             *)
Known(d) ==
  /\ producer[d] # "done" =>
       /\ ready[d] = NotIn /\ inflight[d] = NotIn
       /\ \A r \in Replicas : Stage(r, d) = "none"
  /\ producer[d] = "listing" =>
       hash[d].status = "pending" /\ hash[d].fireAt >= 1 /\ hash[d].expires = Never
  /\ ~torn[d] /\ (hash[d].status = "absent" \/ hash[d].expires # Never) =>
       /\ ready[d] = NotIn /\ inflight[d] = NotIn
       /\ \A r \in Replicas : ~Keeps(r, d) /\ Stage(r, d) # "requeue"

(* Unless it was cut or overtaken, a settling pipeline ends with the       *)
(* delivery listed or settled.                                             *)
Found(d) ==
  ~torn[d] /\ overtaken[d] = 0 =>
    /\ Findable(d)
    /\ \A r \in Replicas :
         /\ Stage(r, d) = "write" /\ tasks[r][d].verdict = "failed_retry" => ready[d] # NotIn
         /\ Stage(r, d) = "expire" => hash[d].status \in Terminal \cup {"absent"}

Custody == \A d \in Deliveries : Leased(d) /\ Known(d) /\ Found(d)

-------------------------------------------------------------------------------
(* A delivery whose keys stay as they are, while tasks may be forgotten or *)
(* started.                                                                *)
Withers(r, d) ==
  \/ tasks'[r][d] \in {tasks[r][d], NoTask}
  \/ /\ Stage(r, d) = "claimed" /\ Stage(r, d)' = "queued"
     /\ tasks'[r][d].since = tasks[r][d].since

LEMMA Fewer ==
  ASSUME NEW r \in Replicas, NEW d \in Deliveries, Withers(r, d), torn[d] => torn'[d]
  PROVE  /\ Keeps(r, d)' => Keeps(r, d) /\ tasks'[r][d].since = tasks[r][d].since
         /\ Closing(r, d)' => Closing(r, d)
         /\ Stage(r, d)' \in {Stage(r, d), "none", "queued"}
         /\ Stage(r, d)' \notin {"none", "queued"} => tasks'[r][d] = tasks[r][d]
<1>1. CASE tasks'[r][d] = tasks[r][d]
  BY <1>1 DEF Keeps, Closing, Stage
<1>2. CASE Stage(r, d)' = "none"
  BY <1>2 DEF Keeps, Closing, Loading
<1>3. CASE /\ Stage(r, d) = "claimed" /\ Stage(r, d)' = "queued"
           /\ tasks'[r][d].since = tasks[r][d].since
  BY <1>3 DEF Keeps, Closing, Loading
<1> QED
  BY <1>1, <1>2, <1>3 DEF Withers, Stage, NoTask

LEMMA Lapse ==
  ASSUME NEW d \in Deliveries,
         ready'[d] = ready[d], inflight'[d] = inflight[d], hash'[d] = hash[d],
         producer'[d] = producer[d], overtaken'[d] = overtaken[d], torn[d] => torn'[d],
         \A q \in Replicas : Withers(q, d),
         ~torn'[d] => \A q \in Replicas : tasks'[q][d] = tasks[q][d] \/ Stage(q, d) \notin Midway,
         Leased(d), Known(d), Found(d)
  PROVE  Leased(d)' /\ Known(d)' /\ Found(d)'
<1>1. \A q \in Replicas :
        /\ Keeps(q, d)' => Keeps(q, d) /\ tasks'[q][d].since = tasks[q][d].since
        /\ Closing(q, d)' => Closing(q, d)
        /\ Stage(q, d)' \in {Stage(q, d), "none", "queued"}
        /\ Stage(q, d)' \notin {"none", "queued"} => tasks'[q][d] = tasks[q][d]
  BY Fewer
<1>2. Leased(d)'
  BY <1>1 DEF Leased, Holds
<1>3. Known(d)'
  <2>1. \A q \in Replicas : Stage(q, d) = "none" => Stage(q, d)' = "none"
    BY DEF Withers, Stage, NoTask
  <2> QED
    BY <1>1, <2>1 DEF Known
<1>4. Found(d)'
  <2> SUFFICES ASSUME ~torn'[d], overtaken'[d] = 0 PROVE Found(d)'
    BY DEF Found
  <2>1. /\ Findable(d)
        /\ \A r \in Replicas :
             /\ Stage(r, d) = "write" /\ tasks[r][d].verdict = "failed_retry" => ready[d] # NotIn
             /\ Stage(r, d) = "expire" => hash[d].status \in Terminal \cup {"absent"}
    BY DEF Found
  <2>2. Settling(d) => Settling(d)'
    BY DEF Settling, Stage
  <2>3. Findable(d)'
    BY <2>1, <2>2 DEF Findable
  <2> QED
    BY <1>1, <2>1, <2>3 DEF Found
<1> QED
  BY <1>2, <1>3, <1>4

-------------------------------------------------------------------------------
(* What one step of one task may do.                                       *)
LEMMA TaskAlone ==
  ASSUME Typed, NEW r \in Replicas, NEW d \in Deliveries, SendStep(r, d) \/ SettleStep(r, d)
  PROVE  /\ \A q \in Replicas, e \in Deliveries :
              q # r \/ e # d => tasks'[q][e] = tasks[q][e]
         /\ \A e \in Deliveries \ {d} :
              /\ ready'[e] = ready[e] /\ inflight'[e] = inflight[e]
              /\ hash'[e] = hash[e] /\ torn'[e] = torn[e]
         /\ torn[d] => torn'[d]
<1>1. \E t : Becomes(r, d, t)
  BY DEF SendStep, SettleStep, Read, MarkInFlight, Post, Reject, Conclude, Raise, Note, NoteFails,
         Notify, CallFails, Push, Unlease, Unready, Requeue, Write, SetTtl, Moved, Ends, To
<1>2. \A q \in Replicas, e \in Deliveries : q # r \/ e # d => tasks'[q][e] = tasks[q][e]
  BY <1>1, OneTask DEF Typed
<1>3. CASE MarkInFlight(r, d)
  BY <1>2, <1>3 DEF MarkInFlight, Typed, TypeOK, history
<1>4. CASE CallFails(r, d)
  BY <1>2, <1>4 DEF CallFails, Typed, TypeOK, redis
<1>5. CASE SendStep(r, d) /\ ~MarkInFlight(r, d) /\ ~CallFails(r, d)
  BY <1>2, <1>5 DEF SendStep, Read, Post, Reject, Conclude, Raise, Note, NoteFails, Notify,
                    redis, history
<1>6. CASE Push(r, d) \/ Unlease(r, d) \/ Unready(r, d) \/ Requeue(r, d)
  BY <1>2, <1>6 DEF Push, Unlease, Unready, Requeue, Moved, history, Typed, TypeOK
<1>7. CASE Write(r, d)
  BY <1>2, <1>7 DEF Write, Moved, history, Typed, TypeOK
<1>8. CASE SetTtl(r, d)
  BY <1>2, <1>8 DEF SetTtl, Moved, history, Typed, TypeOK
<1> QED
  BY <1>3, <1>4, <1>5, <1>6, <1>7, <1>8 DEF SettleStep

(* A step that takes the task to another stage and changes nothing that    *)
(* tells how long it has held the delivery, or for whom.                   *)
LEMMA NextStage ==
  ASSUME Typed, NEW r \in Replicas, NEW d \in Deliveries, NEW stage, To(r, d, stage)
  PROVE  /\ Stage(r, d)' = stage
         /\ tasks'[r][d].since = tasks[r][d].since
         /\ tasks'[r][d].verdict = tasks[r][d].verdict
         /\ tasks'[r][d].salvage = tasks[r][d].salvage
<1>1. tasks[r][d] \in Task
  BY DEF Typed, TypeOK
<1>2. tasks'[r][d] = [tasks[r][d] EXCEPT !.stage = stage]
  BY DEF To, Becomes, Typed, TypeOK
<1> QED
  BY <1>1, <1>2 DEF Task, Stage

LEMMA Forgotten ==
  ASSUME Typed, NEW r \in Replicas, NEW d \in Deliveries, Ends(r, d)
  PROVE  Stage(r, d)' = "none"
BY DEF Ends, Becomes, Typed, TypeOK, Stage, NoTask

(* The stages a task goes through, by what it holds.                       *)
Moves(r, d) ==
  /\ Stage(r, d) # "none"
  /\ Stage(r, d)' # "none" => tasks'[r][d].since = tasks[r][d].since
  /\ Keeps(r, d)' => Keeps(r, d)
  /\ Closing(r, d)' => Closing(r, d) \/ (Unlease(r, d) /\ Keeps(r, d))
  /\ Stage(r, d) \in Loading => Stage(r, d)' \in {"none"} \cup Loading
  /\ Stage(r, d)' = "requeue" => Unlease(r, d)
  /\ Stage(r, d)' = "write" => Unready(r, d) \/ Requeue(r, d)
  /\ Stage(r, d)' = "expire" => Write(r, d)

LEMMA TaskMoves ==
  ASSUME Typed, NEW r \in Replicas, NEW d \in Deliveries, SendStep(r, d) \/ SettleStep(r, d)
  PROVE  Moves(r, d)
<1> DEFINE t == tasks[r][d]
           u == tasks'[r][d]
<1>1. t \in Task /\ Shaped(t) /\ t.stage = Stage(r, d) /\ (torn[d] => torn'[d])
  BY TaskAlone DEF Typed, TypeOK, TaskShapes, Stage
<1>2. Stage(r, d) # "none"
  BY DEF SendStep, SettleStep, Read, MarkInFlight, Post, Reject, Conclude, Raise, Note, NoteFails,
         Notify, CallFails, Push, Unlease, Unready, Requeue, Write, SetTtl, Midway
<1>3. CASE Stage(r, d)' = "none"
  BY <1>2, <1>3 DEF Moves, Keeps, Closing, Loading
<1>4. CASE Ends(r, d)
  BY <1>3, <1>4, Forgotten
<1>5. ASSUME NEW stage, To(r, d, stage),
             \/ Stage(r, d) \in Loading /\ stage \in Loading
             \/ Stage(r, d) \in {"queued", "posting"} /\ stage = "note"
             \/ Stage(r, d) = "push" /\ stage = "unlease"
             \/ Stage(r, d) = "unlease" /\ stage = SecondCommand(t.verdict) /\ Unlease(r, d)
             \/ Stage(r, d) = "unready" /\ stage = "write" /\ Unready(r, d)
             \/ Stage(r, d) = "requeue" /\ stage = "write" /\ Requeue(r, d)
             \/ Stage(r, d) = "write" /\ t.verdict # "failed_retry" /\ stage = "expire" /\ Write(r, d)
             \/ stage = "landed" /\ Stage(r, d) \notin Loading
             \/ Stage(r, d) \in {"push", "unlease"} /\ stage = "note"
             \/ Stage(r, d) \notin Loading /\ stage = "note" /\ torn'[d]
      PROVE  Moves(r, d)
  BY <1>1, <1>2, <1>5, NextStage DEF Moves, Keeps, Closing, Loading, SecondCommand
<1>6. ASSUME NEW v, Becomes(r, d, v), v.since = t.since, v.stage = "posting", Stage(r, d) = "queued"
      PROVE  Moves(r, d)
  <2>1. u = v
    BY <1>6, OneTask DEF Typed
  <2> QED
    BY <1>2, <1>6, <2>1 DEF Moves, Keeps, Closing, Loading, Stage
<1>7. ASSUME NEW v, Becomes(r, d, v), v.since = t.since, v.stage = "push",
             \/ Stage(r, d) \in {"queued", "posting"}
             \/ Stage(r, d) = "note" /\ v.salvage /\ torn' = torn
      PROVE  Moves(r, d)
  <2>1. u = v
    BY <1>7, OneTask DEF Typed
  <2> QED
    BY <1>2, <1>7, <2>1 DEF Moves, Keeps, Closing, Loading, Stage
<1>8. CASE Read(r, d)
  <2>1. CASE Ends(r, d)
    BY <1>4, <2>1
  <2>2. CASE Becomes(r, d, [t EXCEPT !.stage = "loaded", !.attempt = hash[d].attempts + 1])
    <3>1. u = [t EXCEPT !.stage = "loaded", !.attempt = hash[d].attempts + 1]
      BY <2>2, OneTask DEF Typed
    <3>2. u.stage = "loaded" /\ u.since = t.since /\ Stage(r, d) = "leased"
      BY <1>1, <1>8, <3>1 DEF Task, Read
    <3> QED
      BY <1>2, <3>2 DEF Moves, Keeps, Closing, Loading, Stage
  <2> QED
    BY <1>8, <2>1, <2>2 DEF Read
<1>9. CASE MarkInFlight(r, d)
  BY <1>5, <1>9 DEF MarkInFlight, Loading
<1>10. CASE Post(r, d)
  <2>1. [t EXCEPT !.stage = "posting", !.sentAt = clock].since = t.since
        /\ [t EXCEPT !.stage = "posting", !.sentAt = clock].stage = "posting"
    BY <1>1 DEF Task
  <2> QED
    BY <1>6, <1>10, <2>1 DEF Post
<1>11. CASE Reject(r, d)
  <2> DEFINE v == [t EXCEPT !.stage = FirstCommand, !.verdict = "dead_lettered"]
  <2>1. v.since = t.since /\ v.stage = "push"
    BY <1>1 DEF Task, FirstCommand
  <2> QED
    BY <1>7, <1>11, <2>1 DEF Reject
<1>12. CASE Conclude(r, d)
  <2>1. PICK verdict, retryAt :
          Becomes(r, d, [t EXCEPT !.stage = FirstCommand, !.verdict = verdict, !.retryAt = retryAt])
    BY <1>12, ConcludedTask
  <2> DEFINE v == [t EXCEPT !.stage = FirstCommand, !.verdict = verdict, !.retryAt = retryAt]
  <2>2. v.since = t.since /\ v.stage = "push"
    BY <1>1 DEF Task, FirstCommand
  <2> QED
    BY <1>7, <1>12, <2>1, <2>2 DEF Conclude
<1>13. CASE Raise(r, d)
  BY <1>5, <1>13 DEF Raise
<1>14. CASE Note(r, d)
  <2> DEFINE v == [t EXCEPT !.stage = FirstCommand, !.verdict = "dead_lettered", !.salvage = TRUE]
  <2>1. v.since = t.since /\ v.stage = "push" /\ v.salvage
    BY <1>1 DEF Task, FirstCommand
  <2>2. Stage(r, d) = "note" /\ torn' = torn /\ (Becomes(r, d, v) \/ Ends(r, d))
    BY <1>14 DEF Note, history
  <2> QED
    BY <1>4, <1>7, <2>1, <2>2
<1>15. CASE NoteFails(r, d) \/ Notify(r, d)
  BY <1>4, <1>15 DEF NoteFails, Notify
<1>16. CASE CallFails(r, d)
  <2>1. /\ \/ Stage(r, d) \in {"push", "unlease"}
           \/ Stage(r, d) \notin Loading /\ torn'[d]
        /\ Ends(r, d) \/ To(r, d, "note")
    BY <1>16 DEF CallFails, Midway, Loading, Typed, TypeOK
  <2> QED
    BY <1>4, <1>5, <2>1
<1>17. CASE SettleStep(r, d)
  <2>1. CASE Push(r, d)
    BY <1>5, <2>1 DEF Push, Moved
  <2>2. CASE Unlease(r, d)
    BY <1>5, <2>2 DEF Unlease, Moved
  <2>3. CASE Unready(r, d) \/ Requeue(r, d)
    BY <1>5, <2>3 DEF Unready, Requeue, Moved
  <2>4. CASE Write(r, d)
    BY <1>5, <2>4 DEF Write, Moved, Loading
  <2>5. CASE SetTtl(r, d)
    BY <1>5, <2>5 DEF SetTtl, Moved, Loading
  <2> QED
    BY <1>17, <2>1, <2>2, <2>3, <2>4, <2>5 DEF SettleStep
<1> QED
  BY <1>8, <1>9, <1>10, <1>11, <1>12, <1>13, <1>14, <1>15, <1>16, <1>17 DEF SendStep

-------------------------------------------------------------------------------
(* What it does to the delivery.                                           *)
LEMMA OtherTasks ==
  ASSUME Typed, NEW r \in Replicas, NEW d \in Deliveries, SendStep(r, d) \/ SettleStep(r, d),
         NEW q \in Replicas \ {r}
  PROVE  /\ tasks'[q][d] = tasks[q][d] /\ Stage(q, d)' = Stage(q, d)
         /\ Keeps(q, d)' => Keeps(q, d)
         /\ Closing(q, d)' => Closing(q, d)
         /\ Holds(q, d)' => Holds(q, d)
<1>1. tasks'[q][d] = tasks[q][d] /\ (torn[d] => torn'[d])
  BY TaskAlone
<1> QED
  BY <1>1 DEF Stage, Keeps, Closing, Holds

LEMMA SetsInTask ==
  ASSUME Typed, NEW r \in Replicas, NEW d \in Deliveries, SendStep(r, d) \/ SettleStep(r, d)
  PROVE  \/ ready'[d] = ready[d] /\ inflight'[d] = inflight[d] /\ ~Unlease(r, d)
         \/ Unlease(r, d) /\ inflight'[d] = NotIn /\ ready'[d] = ready[d]
         \/ Unready(r, d) /\ ready'[d] = NotIn /\ inflight'[d] = inflight[d]
         \/ Requeue(r, d) /\ ready'[d] = tasks[r][d].retryAt /\ inflight'[d] = inflight[d]
<1>1. CASE SendStep(r, d)
  <2>1. ready' = ready /\ inflight' = inflight
    BY <1>1 DEF SendStep, Read, MarkInFlight, Post, Reject, Conclude, Raise, Note, NoteFails,
                Notify, CallFails, redis
  <2>2. CASE Unlease(r, d)
    BY <2>1, <2>2 DEF Unlease, Typed, TypeOK
  <2> QED
    BY <2>1, <2>2
<1>2. CASE Unlease(r, d)
  BY <1>2 DEF Unlease, Typed, TypeOK
<1>3. CASE Unready(r, d)
  BY <1>3 DEF Unready, Typed, TypeOK
<1>4. CASE Requeue(r, d)
  BY <1>4 DEF Requeue, Typed, TypeOK
<1>5. CASE ~Unlease(r, d) /\ (Push(r, d) \/ Write(r, d) \/ SetTtl(r, d))
  BY <1>5 DEF Push, Write, SetTtl
<1> QED
  BY <1>1, <1>2, <1>3, <1>4, <1>5 DEF SettleStep

(* The command of a retry is the holder's own.                             *)
LEMMA Requeues ==
  ASSUME Typed, NEW r \in Replicas, NEW d \in Deliveries, Requeue(r, d)
  PROVE  /\ Closing(r, d) /\ ~Holds(r, d)' /\ tasks[r][d].retryAt # NotIn
         /\ Stage(r, d)' = "write"
<1>1. /\ Stage(r, d) = "requeue" /\ Shaped(tasks[r][d]) /\ tasks[r][d].stage = "requeue"
  BY DEF Requeue, Typed, TaskShapes, Stage
<1>2. tasks[r][d].verdict = "failed_retry" /\ ~tasks[r][d].salvage /\ tasks[r][d].retryAt >= 1
  BY <1>1 DEF Shaped
<1>3. Stage(r, d)' = "write" /\ tasks'[r][d].verdict = "failed_retry"
  BY <1>2, NextStage DEF Requeue, Moved
<1> QED
  BY <1>1, <1>2, <1>3 DEF Closing, Keeps, Holds, Loading, NotIn

LEMMA LeasedInTask ==
  ASSUME Typed, NEW r \in Replicas, NEW d \in Deliveries, SendStep(r, d) \/ SettleStep(r, d),
         Leased(d)
  PROVE  Leased(d)'
<1>1. /\ Stage(r, d)' # "none" => tasks'[r][d].since = tasks[r][d].since
      /\ Keeps(r, d)' => Keeps(r, d) /\ Stage(r, d)' # "none"
      /\ Closing(r, d)' => Closing(r, d) \/ (Unlease(r, d) /\ Keeps(r, d))
      /\ torn[d] => torn'[d]
  BY TaskMoves, TaskAlone DEF Moves, Keeps, Loading
<1>2. \A q \in Replicas \ {r} :
        /\ tasks'[q][d] = tasks[q][d]
        /\ Keeps(q, d)' => Keeps(q, d)
        /\ Closing(q, d)' => Closing(q, d)
        /\ Holds(q, d)' => Holds(q, d)
  BY OtherTasks
<1>3. Holds(r, d)' => Holds(r, d)
  BY <1>1 DEF Holds
<1>4. CASE ready'[d] = ready[d] /\ inflight'[d] = inflight[d] /\ ~Unlease(r, d)
  BY <1>1, <1>2, <1>3, <1>4 DEF Leased
<1>5. CASE Unlease(r, d) /\ inflight'[d] = NotIn /\ ready'[d] = ready[d]
  <2>1. ~Keeps(r, d)'
    <3>1. Stage(r, d)' \in {"unready", "requeue"}
      BY <1>5, NextStage DEF Unlease, Moved, SecondCommand
    <3> QED
      BY <3>1 DEF Keeps, Loading
  <2>2. torn[d] \/ Keeps(r, d)
    BY <1>5 DEF Unlease, Keeps
  <2>3. \A q \in Replicas \ {r} : Keeps(q, d)' => torn'[d]
    BY <1>1, <1>2, <2>2 DEF Leased, Holds
  <2> QED
    BY <1>2, <1>3, <1>5, <2>1, <2>3 DEF Leased
<1>6. CASE Unready(r, d) /\ ready'[d] = NotIn /\ inflight'[d] = inflight[d]
  <2>1. ~Unlease(r, d)
    BY <1>6 DEF Unready, Unlease
  <2> QED
    BY <1>1, <1>2, <1>3, <1>6, <2>1 DEF Leased
<1>7. CASE Requeue(r, d) /\ inflight'[d] = inflight[d]
  <2>1. Closing(r, d) /\ ~Holds(r, d)'
    BY <1>7, Requeues
  <2>2. inflight[d] = NotIn /\ \A q \in Replicas \ {r} : ~Holds(q, d)
    BY <2>1 DEF Leased, Holds
  <2> QED
    BY <1>2, <1>7, <2>1, <2>2 DEF Leased, Holds
<1> QED
  BY <1>4, <1>5, <1>6, <1>7, SetsInTask

(* What one step of a task does to the hash of its delivery.               *)
LEMMA HashInTask ==
  ASSUME Typed, NEW r \in Replicas, NEW d \in Deliveries, SendStep(r, d) \/ SettleStep(r, d)
  PROVE  /\ hash'[d].status = "absent" => hash[d].status = "absent"
         /\ hash'[d].expires = hash[d].expires \/ SetTtl(r, d)
         /\ hash'[d].status = hash[d].status \/ MarkInFlight(r, d) \/ Write(r, d)
         /\ Write(r, d) => hash'[d].status = tasks[r][d].verdict
         /\ producer' = producer /\ overtaken' = overtaken /\ clock' = clock
<1>1. hash[d] \in Hash /\ Shaped(tasks[r][d]) /\ tasks[r][d].stage = Stage(r, d)
  BY DEF Typed, TypeOK, TaskShapes, Stage
<1>2. producer' = producer /\ overtaken' = overtaken /\ clock' = clock
  BY DEF SendStep, SettleStep, Read, MarkInFlight, Post, Reject, Conclude, Raise, Note, NoteFails,
         Notify, CallFails, Push, Unlease, Unready, Requeue, Write, SetTtl, Moved, history
<1>3. CASE MarkInFlight(r, d)
  <2>1. hash'[d] = [hash[d] EXCEPT !.status = "in_flight"] /\ ~Write(r, d)
    BY <1>3 DEF MarkInFlight, Write, Typed, TypeOK
  <2> QED
    BY <1>1, <1>2, <1>3, <2>1 DEF Hash
<1>4. CASE Write(r, d)
  <2> DEFINE t == tasks[r][d]
  <2>1. t.verdict # "none" /\ t.verdict # "absent"
    BY <1>1, <1>4 DEF Write, Shaped, Settles, Midway, Typed, TypeOK, Task, Verdicts
  <2>2. \/ hash'[d] = [hash[d] EXCEPT !.status = t.verdict, !.attempts = t.attempt, !.fireAt = t.retryAt]
        \/ hash'[d] = [hash[d] EXCEPT !.status = t.verdict, !.attempts = t.attempt]
    BY <1>4 DEF Write, Typed, TypeOK
  <2>3. hash'[d].status = t.verdict /\ hash'[d].expires = hash[d].expires
    BY <1>1, <2>2 DEF Hash
  <2> QED
    BY <1>2, <1>4, <2>1, <2>3
<1>5. CASE SetTtl(r, d)
  <2>1. hash'[d].status = hash[d].status /\ ~Write(r, d)
    BY <1>1, <1>5 DEF SetTtl, Write, Typed, TypeOK, Hash
  <2> QED
    BY <1>2, <1>5, <2>1
<1>6. CASE ~MarkInFlight(r, d) /\ ~Write(r, d) /\ ~SetTtl(r, d)
  <2>1. hash' = hash
    BY <1>6 DEF SendStep, SettleStep, Read, Post, Reject, Conclude, Raise, Note, NoteFails,
                Notify, CallFails, Push, Unlease, Unready, Requeue, redis
  <2> QED
    BY <1>2, <1>6, <2>1
<1> QED
  BY <1>3, <1>4, <1>5, <1>6

(* The TTL is set by the last command of a pipeline: nobody else holds the *)
(* delivery then, and it is in neither set.                                *)
LEMMA TtlIsLast ==
  ASSUME Typed, NEW r \in Replicas, NEW d \in Deliveries, SetTtl(r, d), Leased(d), ~torn[d]
  PROVE  /\ ready[d] = NotIn /\ inflight[d] = NotIn
         /\ \A q \in Replicas : ~Keeps(q, d)' /\ Stage(q, d)' # "requeue"
<1>1. Closing(r, d) /\ Stage(r, d)' = "landed"
  BY NextStage DEF SetTtl, Moved, Closing
<1>2. /\ ready[d] = NotIn /\ inflight[d] = NotIn
      /\ \A q \in Replicas \ {r} : ~Holds(q, d)
  BY <1>1 DEF Leased, Holds
<1>3. \A q \in Replicas \ {r} : tasks'[q][d] = tasks[q][d] /\ ~Keeps(q, d)'
  BY <1>2, OtherTasks DEF Holds, SettleStep
<1>4. \A q \in Replicas \ {r} : Stage(q, d)' # "requeue"
  BY <1>2, <1>3 DEF Stage, Closing, Holds
<1>5. ~Keeps(r, d)'
  BY <1>1 DEF Keeps, Loading
<1> QED
  BY <1>1, <1>2, <1>3, <1>4, <1>5

LEMMA KnownInTask ==
  ASSUME Typed, NEW r \in Replicas, NEW d \in Deliveries, SendStep(r, d) \/ SettleStep(r, d),
         Leased(d), Known(d)
  PROVE  Known(d)'
<1>1. /\ Stage(r, d) # "none"
      /\ Keeps(r, d)' => Keeps(r, d)
  BY TaskMoves DEF Moves
<1>2. producer[d] = "done" /\ producer'[d] = "done"
  BY <1>1, HashInTask DEF Known
<1>3. \A q \in Replicas \ {r} :
        tasks'[q][d] = tasks[q][d] /\ Stage(q, d)' = Stage(q, d) /\ (Keeps(q, d)' => Keeps(q, d))
  BY OtherTasks
<1>4. torn[d] => torn'[d]
  BY TaskAlone
<1>5. ASSUME ~torn'[d], hash'[d].status = "absent" \/ hash'[d].expires # Never
      PROVE  /\ ready'[d] = NotIn /\ inflight'[d] = NotIn
             /\ \A q \in Replicas : ~Keeps(q, d)' /\ Stage(q, d)' # "requeue"
  <2>1. ~torn[d]
    BY <1>4, <1>5
  <2>2. CASE SetTtl(r, d) /\ ~(hash[d].status = "absent" \/ hash[d].expires # Never)
    <3>1. ready'[d] = ready[d] /\ inflight'[d] = inflight[d]
      BY <2>2 DEF SetTtl
    <3> QED
      BY <2>1, <2>2, <3>1, TtlIsLast
  <2>3. CASE hash[d].status = "absent" \/ hash[d].expires # Never
    <3>1. /\ ready[d] = NotIn /\ inflight[d] = NotIn
          /\ \A q \in Replicas : ~Keeps(q, d) /\ Stage(q, d) # "requeue"
      BY <2>1, <2>3 DEF Known
    <3>2. ~Requeue(r, d)
      BY <3>1 DEF Requeue
    <3>3. ~Unlease(r, d)
      BY <2>1, <3>1 DEF Unlease, Keeps
    <3>4. ready'[d] = NotIn /\ inflight'[d] = NotIn
      BY <3>1, <3>2, <3>3, SetsInTask
    <3>5. Stage(r, d)' # "requeue"
      BY <3>1, <3>3, TaskMoves DEF Moves
    <3> QED
      BY <1>1, <1>3, <3>1, <3>4, <3>5
  <2> QED
    BY <1>5, <2>2, <2>3, HashInTask
<1> QED
  BY <1>2, <1>5 DEF Known

LEMMA FoundInTask ==
  ASSUME Typed, NEW r \in Replicas, NEW d \in Deliveries, SendStep(r, d) \/ SettleStep(r, d),
         Leased(d), Found(d)
  PROVE  Found(d)'
<1> SUFFICES ASSUME ~torn'[d], overtaken'[d] = 0 PROVE Found(d)'
  BY DEF Found
<1>1. ~torn[d] /\ overtaken[d] = 0
  BY TaskAlone, HashInTask
<1>2. /\ Findable(d)
      /\ \A q \in Replicas :
           /\ Stage(q, d) = "write" /\ tasks[q][d].verdict = "failed_retry" => ready[d] # NotIn
           /\ Stage(q, d) = "expire" => hash[d].status \in Terminal \cup {"absent"}
  BY <1>1 DEF Found
<1>3. /\ tasks[r][d] \in Task /\ Shaped(tasks[r][d]) /\ tasks[r][d].stage = Stage(r, d)
      /\ tasks'[r][d].stage = Stage(r, d)'
  BY DEF Typed, TypeOK, TaskShapes, Stage
<1>4. \A q \in Replicas \ {r} : tasks'[q][d] = tasks[q][d] /\ Stage(q, d)' = Stage(q, d)
  BY OtherTasks
<1>5. CASE Unready(r, d)
  <2>1. /\ tasks[r][d].verdict # "failed_retry" /\ tasks'[r][d].verdict # "failed_retry"
        /\ Stage(r, d) = "unready" /\ Stage(r, d)' = "write"
    BY <1>3, <1>5, NextStage DEF Unready, Moved, Shaped
  <2>2. ready[d] = NotIn
    BY <1>1, <2>1 DEF Leased, Holds, Closing
  <2>3. hash' = hash /\ Settling(d)'
    BY <1>5, <2>1 DEF Unready, Settling, Midway
  <2> QED
    BY <1>2, <1>4, <2>1, <2>2, <2>3 DEF Found, Findable
<1>6. CASE Requeue(r, d)
  <2>1. ready'[d] # NotIn /\ Stage(r, d)' = "write" /\ hash' = hash
    BY <1>6, Requeues DEF Requeue, Typed, TypeOK
  <2> QED
    BY <1>2, <1>4, <2>1 DEF Found, Findable
<1>7. CASE Unlease(r, d)
  <2>1. /\ Stage(r, d)' \in {"unready", "requeue"}
        /\ hash' = hash /\ ready' = ready
    BY <1>7, NextStage DEF Unlease, Moved, SecondCommand
  <2>2. Settling(d)'
    BY <2>1 DEF Settling, Midway
  <2> QED
    BY <1>2, <1>4, <2>1, <2>2 DEF Found, Findable
<1>8. CASE MarkInFlight(r, d)
  <2>1. Keeps(r, d) /\ Stage(r, d)' = "claimed" /\ ready'[d] = ready[d] /\ inflight'[d] = inflight[d]
    BY <1>8, NextStage DEF MarkInFlight, Keeps, Loading
  <2>2. inflight[d] = tasks[r][d].since + LeaseTtl /\ inflight[d] # NotIn
    BY <1>1, <1>3, <2>1, RedisAssumption DEF Leased, Task, NotIn
  <2>3. \A q \in Replicas : Stage(q, d)' # "expire"
    <3>1. \A q \in Replicas \ {r} : ~Closing(q, d)
      BY <2>1 DEF Leased, Holds
    <3> QED
      BY <1>1, <1>4, <2>1, <3>1 DEF Closing
  <2> QED
    BY <1>2, <1>4, <2>1, <2>2, <2>3 DEF Found, Findable
<1>9. CASE Write(r, d)
  <2>1. /\ Stage(r, d) = "write" /\ ready'[d] = ready[d] /\ inflight'[d] = inflight[d]
        /\ hash'[d].status = tasks[r][d].verdict
        /\ Stage(r, d)' = IF tasks[r][d].verdict = "failed_retry" THEN "landed" ELSE "expire"
    <3>1. hash'[d].status = tasks[r][d].verdict
      BY <1>9, HashInTask
    <3>2. CASE tasks[r][d].verdict = "failed_retry"
      BY <1>9, <3>1, <3>2, NextStage DEF Write, Moved
    <3>3. CASE tasks[r][d].verdict # "failed_retry"
      BY <1>9, <3>1, <3>3, NextStage DEF Write, Moved
    <3> QED
      BY <3>2, <3>3
  <2>2. CASE tasks[r][d].verdict = "failed_retry"
    <3>1. ready[d] # NotIn
      BY <1>2, <2>1, <2>2
    <3>2. \A q \in Replicas \ {r} : Stage(q, d) # "expire"
      BY <1>1, <3>1 DEF Leased, Holds, Closing
    <3> QED
      BY <1>2, <1>4, <2>1, <2>2, <3>1, <3>2 DEF Found, Findable
  <2>3. CASE tasks[r][d].verdict # "failed_retry"
    <3>1. hash'[d].status \in Terminal
      BY <1>3, <2>1, <2>3 DEF Shaped, Settles, Midway, Task, Verdicts, Terminal
    <3> QED
      BY <1>2, <1>4, <2>1, <2>3, <3>1 DEF Found, Findable
  <2> QED
    BY <2>2, <2>3
<1>10. CASE SetTtl(r, d)
  <2>1. /\ Stage(r, d) = "expire" /\ Stage(r, d)' = "landed" /\ ready'[d] = ready[d]
        /\ hash'[d].status = hash[d].status
    <3>1. /\ Stage(r, d) = "expire" /\ To(r, d, "landed") /\ ready'[d] = ready[d]
          /\ inflight'[d] = inflight[d]
      BY <1>10 DEF SetTtl, Moved
    <3>2. ~MarkInFlight(r, d) /\ ~Write(r, d)
      BY <3>1 DEF MarkInFlight, Write
    <3> QED
      BY <3>1, <3>2, HashInTask, NextStage
  <2> QED
    BY <1>2, <1>4, <2>1 DEF Found, Findable
<1>11. CASE /\ ~Unready(r, d) /\ ~Requeue(r, d) /\ ~Unlease(r, d)
            /\ ~MarkInFlight(r, d) /\ ~Write(r, d) /\ ~SetTtl(r, d)
  <2>1. /\ ready'[d] = ready[d] /\ inflight'[d] = inflight[d] /\ hash'[d].status = hash[d].status
        /\ producer' = producer
        /\ Stage(r, d)' \notin {"write", "expire"}
    BY <1>11, SetsInTask, HashInTask, TaskMoves DEF Moves
  <2>2. Stage(r, d) \notin Midway
    <3>1. CASE CallFails(r, d)
      BY <3>1 DEF CallFails, Typed, TypeOK
    <3> QED
      BY <1>11, <3>1 DEF SendStep, SettleStep, Read, Post, Reject, Conclude, Raise, Note, NoteFails,
                         Notify, Push, Midway
  <2>3. Settling(d) => Settling(d)'
    BY <1>4, <2>2 DEF Settling
  <2>4. Findable(d)'
    BY <1>2, <2>1, <2>3 DEF Findable
  <2> QED
    BY <1>2, <1>4, <2>1, <2>4 DEF Found
<1> QED
  BY <1>5, <1>6, <1>7, <1>8, <1>9, <1>10, <1>11

LEMMA TimedInTask ==
  ASSUME Typed, NEW r \in Replicas, NEW d \in Deliveries, SendStep(r, d) \/ SettleStep(r, d),
         Timed
  PROVE  Timed'
<1>1. clock' = clock /\ pc' = pc /\ nowRead' = nowRead
  BY DEF SendStep, SettleStep, Read, MarkInFlight, Post, Reject, Conclude, Raise, Note, NoteFails,
         Notify, CallFails, Push, Unlease, Unready, Requeue, Write, SetTtl, Moved
<1>2. \A q \in Replicas, e \in Deliveries :
        /\ Stage(q, e)' # "none" =>
             Stage(q, e) # "none" /\ tasks'[q][e].since = tasks[q][e].since
        /\ Keeps(q, e)' => Keeps(q, e) /\ Stage(q, e)' # "none"
        /\ Stage(q, e) \in {"none"} \cup Loading => Stage(q, e)' \in {"none"} \cup Loading
  <2> TAKE q \in Replicas, e \in Deliveries
  <2>1. CASE q = r /\ e = d
    BY <2>1, TaskMoves DEF Moves, Keeps, Loading
  <2>2. CASE q # r \/ e # d
    BY <2>2, TaskAlone DEF Keeps, Stage, Loading
  <2> QED
    BY <2>1, <2>2
<1> QED
  BY <1>1, <1>2 DEF Timed

(* The invariant.                                                          *)
Kept == Typed /\ Timed /\ Custody

LEMMA KeptInTask ==
  ASSUME Kept, NEW r \in Replicas, NEW d \in Deliveries, SendStep(r, d) \/ SettleStep(r, d)
  PROVE  Timed' /\ Custody'
<1>1. Typed /\ Timed /\ Custody
  BY DEF Kept
<1>2. ASSUME NEW e \in Deliveries \ {d}
      PROVE  Leased(e)' /\ Known(e)' /\ Found(e)'
  <2>1. /\ ready'[e] = ready[e] /\ inflight'[e] = inflight[e] /\ hash'[e] = hash[e]
        /\ producer' = producer /\ overtaken' = overtaken /\ torn'[e] = torn[e]
        /\ \A q \in Replicas : tasks'[q][e] = tasks[q][e]
    BY <1>1, TaskAlone, HashInTask
  <2> QED
    BY <1>1, <2>1, Lapse DEF Custody, Withers
<1>3. Leased(d)' /\ Known(d)' /\ Found(d)'
  BY <1>1, LeasedInTask, KnownInTask, FoundInTask DEF Custody
<1> QED
  BY <1>1, <1>2, <1>3, TimedInTask DEF Custody

-------------------------------------------------------------------------------
(* The producers and expiry.                                               *)
LEMMA KeptByProducer ==
  ASSUME Kept, NEW d \in Deliveries, ProducerStep(d) \/ Expire(d)
  PROVE  Timed' /\ Custody'
<1>1. Typed /\ Timed /\ Custody
  BY DEF Kept
<1>2. UNCHANGED <<clock, inflight, pc, nowRead, tasks, torn, overtaken>>
  BY DEF ProducerStep, EnqueueHash, EnqueueReady, EnqueueFails, Expire, history, redis
<1>3. \A q \in Replicas, e \in Deliveries :
        /\ Stage(q, e)' = Stage(q, e) /\ Keeps(q, e)' = Keeps(q, e)
        /\ Closing(q, e)' = Closing(q, e) /\ Holds(q, e)' = Holds(q, e)
  BY <1>2 DEF Stage, Keeps, Closing, Holds
<1>4. Timed'
  BY <1>1, <1>2, <1>3 DEF Timed
<1>5. ASSUME NEW e \in Deliveries \ {d}
      PROVE  Leased(e)' /\ Known(e)' /\ Found(e)'
  <2>1. ready'[e] = ready[e] /\ hash'[e] = hash[e] /\ producer'[e] = producer[e]
    BY <1>1 DEF ProducerStep, EnqueueHash, EnqueueReady, EnqueueFails, Expire, redis, Typed, TypeOK
  <2> QED
    BY <1>1, <1>2, <2>1, Lapse DEF Custody, Withers
<1>6. Leased(d) /\ Known(d) /\ Found(d)
  BY <1>1 DEF Custody
<1>7. ASSUME EnqueueHash(d) PROVE Leased(d)' /\ Known(d)' /\ Found(d)'
  <2>1. /\ ready'[d] = ready[d] /\ producer[d] = "idle" /\ producer'[d] = "listing"
        /\ hash'[d] = [NoHash EXCEPT !.status = "pending", !.fireAt = clock]
    BY <1>1, <1>7 DEF EnqueueHash, Typed, TypeOK
  <2>2. hash'[d].status = "pending" /\ hash'[d].fireAt >= 1 /\ hash'[d].expires = Never
    BY <1>1, <2>1 DEF NoHash, Typed, TypeOK
  <2>3. ready[d] = NotIn /\ inflight[d] = NotIn /\ \A q \in Replicas : Stage(q, d) = "none"
    BY <1>6, <2>1 DEF Known
  <2>4. Leased(d)'
    BY <1>2, <1>3, <1>6, <2>1 DEF Leased
  <2>5. Known(d)'
    BY <1>2, <1>3, <2>1, <2>2, <2>3 DEF Known
  <2>6. Found(d)'
    BY <1>3, <2>1, <2>3 DEF Found, Findable
  <2> QED
    BY <2>4, <2>5, <2>6
<1>8. ASSUME EnqueueReady(d) PROVE Leased(d)' /\ Known(d)' /\ Found(d)'
  <2>1. /\ ready'[d] = hash[d].fireAt /\ producer[d] = "listing" /\ producer'[d] = "done"
        /\ hash' = hash
    BY <1>1, <1>8 DEF EnqueueReady, Typed, TypeOK
  <2>2. hash[d].status = "pending" /\ ready'[d] # NotIn /\ hash[d].expires = Never
    BY <1>1, <1>6, <2>1 DEF Known, NotIn
  <2>3. inflight[d] = NotIn /\ \A q \in Replicas : Stage(q, d) = "none"
    BY <1>6, <2>1 DEF Known
  <2>4. \A q \in Replicas : ~Keeps(q, d) /\ ~Closing(q, d) /\ ~Holds(q, d)
    BY <2>3 DEF Holds, Keeps, Closing, Loading
  <2>5. Leased(d)'
    BY <1>2, <1>3, <2>3, <2>4 DEF Leased
  <2>6. Known(d)'
    BY <2>1, <2>2 DEF Known
  <2>7. Found(d)'
    BY <1>3, <2>2, <2>3 DEF Found, Findable
  <2> QED
    BY <2>5, <2>6, <2>7
<1>9. ASSUME EnqueueFails(d) PROVE Leased(d)' /\ Known(d)' /\ Found(d)'
  <2>1. /\ ready' = ready /\ hash' = hash
        /\ producer[d] \in {"idle", "listing"} /\ producer'[d] = "raised"
    BY <1>1, <1>9 DEF EnqueueFails, redis, Typed, TypeOK
  <2>2. ready[d] = NotIn /\ inflight[d] = NotIn /\ \A q \in Replicas : Stage(q, d) = "none"
    BY <1>6, <2>1 DEF Known
  <2>3. Leased(d)'
    BY <1>2, <1>3, <1>6, <2>1 DEF Leased
  <2>4. Known(d)'
    BY <1>2, <1>3, <1>6, <2>1, <2>2 DEF Known
  <2>5. Found(d)'
    BY <1>3, <2>1, <2>2 DEF Found, Findable
  <2> QED
    BY <2>3, <2>4, <2>5
<1>10. ASSUME Expire(d) PROVE Leased(d)' /\ Known(d)' /\ Found(d)'
  <2>1. /\ ready' = ready /\ producer' = producer /\ hash[d].expires # Never
        /\ hash'[d].status = "absent" /\ hash'[d].expires = Never
    BY <1>1, <1>10 DEF Expire, NoHash, Typed, TypeOK
  <2>2. Leased(d)'
    BY <1>2, <1>3, <1>6, <2>1 DEF Leased
  <2>3. Known(d)'
    BY <1>2, <1>3, <1>6, <2>1 DEF Known
  <2>4. Found(d)'
    BY <1>2, <1>3, <1>6, <2>1 DEF Found, Findable
  <2> QED
    BY <2>2, <2>3, <2>4
<1>11. Leased(d)' /\ Known(d)' /\ Found(d)'
  BY <1>7, <1>8, <1>9, <1>10 DEF ProducerStep
<1> QED
  BY <1>4, <1>5, <1>11 DEF Custody

-------------------------------------------------------------------------------
(* The ticks.  First the ones that touch no delivery.                      *)
LEMMA Idle ==
  ASSUME Kept, UNCHANGED <<ready, inflight, hash, producer, overtaken, tasks, torn>>
  PROVE  Custody'
BY Lapse DEF Kept, Custody, Withers

LEMMA KeptByQuietTick ==
  ASSUME Kept, NEW r \in Replicas,
         BeginTick(r) \/ ReclaimFails(r) \/ EndTick(r) \/ Start(r)
  PROVE  Timed' /\ Custody'
<1>1. Typed /\ Timed
  BY DEF Kept
<1>2. UNCHANGED <<clock, ready, inflight, hash, producer, overtaken, tasks, torn>>
  BY DEF BeginTick, ReclaimFails, ThenClaim, EndTick, Start, redis, history
<1>3. \A q \in Replicas, d \in Deliveries :
        Stage(q, d)' = Stage(q, d) /\ Keeps(q, d)' = Keeps(q, d)
  BY <1>2 DEF Stage, Keeps
<1>4. \A q \in Replicas \ {r} : pc'[q] = pc[q] /\ nowRead'[q] = nowRead[q]
  BY <1>1 DEF BeginTick, ReclaimFails, ThenClaim, EndTick, Start, Typed, TypeOK
<1>5. \A d \in Deliveries : Stage(r, d) = "none"
  BY <1>1 DEF BeginTick, ReclaimFails, ThenClaim, EndTick, Start, Timed
<1>6. /\ nowRead'[r] \in {nowRead[r], clock}
      /\ pc'[r] # "load"
      /\ pc'[r] \in {"reclaim", "claim"} => nowRead'[r] = clock
  BY <1>1 DEF BeginTick, ReclaimFails, ThenClaim, EndTick, Start, Typed, TypeOK
<1>7. Timed'
  <2>1. /\ clock \in Nat /\ clock >= 1 /\ HoldBound \in Nat
        /\ \A q \in Replicas : nowRead[q] \in Nat /\ nowRead[q] <= clock
    BY <1>1, RedisAssumption DEF Typed, TypeOK, Timed
  <2>2. \A q \in Replicas :
          /\ nowRead'[q] <= clock'
          /\ pc'[q] \in {"reclaim", "claim"} => nowRead'[q] >= 1
          /\ pc'[q] = "claim" => clock' <= nowRead'[q] + HoldBound
    <3> TAKE q \in Replicas
    <3>1. CASE q = r
      BY <1>2, <1>6, <2>1, <3>1
    <3>2. CASE q # r
      BY <1>1, <1>2, <1>4, <3>2 DEF Timed
    <3> QED
      BY <3>1, <3>2
  <2>3. \A q \in Replicas, d \in Deliveries :
          /\ Stage(q, d)' # "none" => pc'[q] \in {"load", "gather"}
          /\ Stage(q, d)' # "none" => 1 <= tasks'[q][d].since /\ tasks'[q][d].since <= clock'
          /\ Keeps(q, d)' => clock' <= tasks'[q][d].since + HoldBound
          /\ pc'[q] = "load" => Stage(q, d)' \in {"none"} \cup Loading
    BY <1>1, <1>2, <1>3, <1>4, <1>5, <1>6 DEF Timed
  <2> QED
    BY <2>2, <2>3 DEF Timed
<1> QED
  BY <1>2, <1>7, Idle

(* What the clock readings and the tasks of one replica owe to Timed.      *)
LEMMA TimedElsewhere ==
  ASSUME Typed, Timed, NEW r \in Replicas, clock' = clock,
         \A q \in Replicas \ {r} : /\ pc'[q] = pc[q] /\ nowRead'[q] = nowRead[q]
                                   /\ \A d \in Deliveries : tasks'[q][d] = tasks[q][d],
         torn' = torn,
         nowRead'[r] <= clock,
         pc'[r] \in {"reclaim", "claim"} => nowRead'[r] >= 1 /\ clock <= nowRead'[r] + HoldBound,
         \A d \in Deliveries :
           /\ Stage(r, d)' # "none" => pc'[r] \in {"load", "gather"}
           /\ Stage(r, d)' # "none" => 1 <= tasks'[r][d].since /\ tasks'[r][d].since <= clock
           /\ Keeps(r, d)' => clock <= tasks'[r][d].since + HoldBound
           /\ pc'[r] = "load" => Stage(r, d)' \in {"none"} \cup Loading
  PROVE  Timed'
<1>1. \A q \in Replicas \ {r}, d \in Deliveries :
        Stage(q, d)' = Stage(q, d) /\ Keeps(q, d)' = Keeps(q, d)
  BY DEF Stage, Keeps
<1> QED
  BY <1>1 DEF Timed

LEMMA KeptByStart ==
  ASSUME Kept, NEW r \in Replicas, StartTasks(r)
  PROVE  Timed' /\ Custody'
<1>1. Typed /\ Timed /\ Custody
  BY DEF Kept
<1>2. UNCHANGED <<clock, ready, inflight, hash, producer, nowRead, overtaken, torn>>
  BY DEF StartTasks, redis, history
<1>3. \A q \in Replicas \ {r} : tasks'[q] = tasks[q] /\ pc'[q] = pc[q]
  BY <1>1 DEF StartTasks, Typed, TypeOK
<1>4. \A d \in Deliveries :
        \/ Stage(r, d) = "none" /\ tasks'[r][d] = tasks[r][d]
        \/ /\ Stage(r, d) = "claimed" /\ Stage(r, d)' = "queued"
           /\ tasks'[r][d].since = tasks[r][d].since /\ pc'[r] = "gather"
  <2> TAKE d \in Deliveries
  <2>1. Stage(r, d) \in {"none", "claimed"} /\ tasks[r][d] \in Task
    BY <1>1 DEF StartTasks, Typed, TypeOK
  <2>2. CASE Stage(r, d) = "none"
    <3>1. tasks'[r][d] = tasks[r][d]
      BY <1>1, <2>2 DEF StartTasks, Typed, TypeOK
    <3> QED
      BY <2>2, <3>1
  <2>3. CASE Stage(r, d) = "claimed"
    <3>1. tasks'[r][d] = [tasks[r][d] EXCEPT !.stage = "queued"] /\ pc'[r] = "gather"
      BY <1>1, <2>3 DEF StartTasks, Typed, TypeOK
    <3> QED
      BY <2>1, <2>3, <3>1 DEF Task, Stage
  <2> QED
    BY <2>1, <2>2, <2>3
<1>5. pc'[r] \in {"gather", "idle"}
  BY <1>1 DEF StartTasks, Typed, TypeOK
<1>6. Custody'
  <2> SUFFICES ASSUME NEW d \in Deliveries PROVE Leased(d)' /\ Known(d)' /\ Found(d)'
    BY DEF Custody
  <2>1. /\ \A q \in Replicas : Withers(q, d)
        /\ \A q \in Replicas : tasks'[q][d] = tasks[q][d] \/ Stage(q, d) \notin Midway
    BY <1>3, <1>4 DEF Withers, Midway
  <2> QED
    BY <1>1, <1>2, <2>1, Lapse DEF Custody
<1>7. Timed'
  <2>1. \A d \in Deliveries :
          /\ Stage(r, d)' # "none" =>
               Stage(r, d)' = "queued" /\ Stage(r, d) = "claimed" /\ pc'[r] = "gather"
          /\ Stage(r, d)' # "none" => 1 <= tasks'[r][d].since /\ tasks'[r][d].since <= clock
          /\ Keeps(r, d)' => clock <= tasks'[r][d].since + HoldBound
    BY <1>1, <1>4 DEF Timed, Stage, Keeps, Loading
  <2>2. nowRead'[r] <= clock
    BY <1>1, <1>2 DEF Timed
  <2> QED
    BY <1>1, <1>2, <1>3, <1>5, <2>1, <2>2, TimedElsewhere
<1> QED
  BY <1>6, <1>7

(* reclaim_stale takes nothing that a task still holds: its lease would    *)
(* have outlived the call, or the task would be this replica's own.        *)
LEMMA StaleIsNobodys ==
  ASSUME SafeDeployment, Kept, NEW r \in Replicas, pc[r] = "reclaim",
         NEW d \in Stale(nowRead[r])
  PROVE  \A q \in Replicas : ~Holds(q, d)
<1> SUFFICES ASSUME NEW q \in Replicas, Holds(q, d) PROVE FALSE
  OBVIOUS
<1>1. Typed /\ Timed /\ d \in Deliveries /\ Leased(d)
      /\ inflight[d] # NotIn /\ inflight[d] <= nowRead[r]
  BY DEF Kept, Custody, Stale
<1>2. Keeps(q, d) /\ inflight[d] = tasks[q][d].since + LeaseTtl
  BY <1>1 DEF Leased, Holds
<1>3. Stage(q, d) # "none"
  BY <1>2 DEF Keeps, Loading
<1>4. q # r
  BY <1>1, <1>3 DEF Timed
<1>5. HoldBound < LeaseTtl
  BY <1>4 DEF SafeDeployment, SingleReplica, TimelyReplicas
<1>6. clock <= tasks[q][d].since + HoldBound /\ nowRead[r] <= clock
  BY <1>1, <1>2 DEF Timed
<1>7. /\ clock \in Nat /\ nowRead[r] \in Nat /\ tasks[q][d].since \in Nat
      /\ HoldBound \in Nat /\ LeaseTtl \in Nat
  BY <1>1, RedisAssumption DEF Typed, TypeOK, Task
<1> QED
  BY <1>1, <1>2, <1>5, <1>6, <1>7

LEMMA KeptByReclaim ==
  ASSUME SafeDeployment, Kept, NEW r \in Replicas, ReclaimStale(r)
  PROVE  Timed' /\ Custody'
<1>1. Typed /\ Timed /\ Custody
  BY DEF Kept
<1>2. UNCHANGED <<clock, hash, producer, tasks, overtaken, torn>> /\ pc[r] = "reclaim"
  BY DEF ReclaimStale, ThenClaim, history
<1>3. /\ \A q \in Replicas \ {r} : pc'[q] = pc[q] /\ nowRead'[q] = nowRead[q]
      /\ pc'[r] = "claim" /\ nowRead'[r] = clock
  BY <1>1 DEF ReclaimStale, ThenClaim, Typed, TypeOK
<1>4. \A q \in Replicas, d \in Deliveries :
        /\ Stage(q, d)' = Stage(q, d) /\ Keeps(q, d)' = Keeps(q, d)
        /\ Closing(q, d)' = Closing(q, d) /\ Holds(q, d)' = Holds(q, d)
  BY <1>2 DEF Stage, Keeps, Closing, Holds
<1>5. Timed'
  <2>1. \A d \in Deliveries : Stage(r, d)' = "none" /\ ~Keeps(r, d)'
    BY <1>1, <1>2, <1>4 DEF Timed, Keeps, Loading
  <2>2. clock <= clock + HoldBound /\ clock >= 1 /\ clock <= clock
    BY <1>1, RedisAssumption DEF Typed, TypeOK
  <2> QED
    BY <1>1, <1>2, <1>3, <2>1, <2>2, TimedElsewhere
<1>6. ASSUME NEW d \in Deliveries, d \notin Stale(nowRead[r])
      PROVE  Leased(d)' /\ Known(d)' /\ Found(d)'
  <2>1. ready'[d] = ready[d] /\ inflight'[d] = inflight[d]
    BY <1>6 DEF ReclaimStale
  <2> QED
    BY <1>1, <1>2, <2>1, Lapse DEF Custody, Withers
<1>7. ASSUME NEW d \in Deliveries, d \in Stale(nowRead[r])
      PROVE  Leased(d)' /\ Known(d)' /\ Found(d)'
  <2>1. /\ inflight[d] # NotIn /\ inflight'[d] = NotIn
        /\ ready'[d] = nowRead[r] /\ ready'[d] # NotIn
    BY <1>1, <1>2, <1>7 DEF Stale, ReclaimStale, Timed, Typed, TypeOK, NotIn
  <2>2. \A q \in Replicas : ~Holds(q, d)
    BY <1>2, <1>7, StaleIsNobodys
  <2>3. Leased(d)'
    BY <1>4, <2>1, <2>2 DEF Leased, Holds
  <2>4. Known(d)'
    BY <1>1, <1>2, <2>1 DEF Known, Custody
  <2>5. Found(d)'
    BY <1>1, <1>2, <1>4, <2>1 DEF Found, Findable, Custody
  <2> QED
    BY <2>3, <2>4, <2>5
<1> QED
  BY <1>5, <1>6, <1>7 DEF Custody

(* The claim script: the delivery was ready, so nobody holds it, and now   *)
(* one task does at most.                                                  *)
LEMMA KeptInBatch ==
  ASSUME Kept, NEW r \in Replicas, pc[r] = "claim", NEW d \in Deliveries,
         ready[d] # NotIn, ready'[d] = NotIn, inflight'[d] = nowRead[r] + LeaseTtl,
         hash' = hash, producer' = producer, torn' = torn,
         \A q \in Replicas : Stage(q, d) \in Midway => overtaken'[d] # 0,
         \A q \in Replicas \ {r} : tasks'[q] = tasks[q],
         tasks'[r][d] \in {NoTask, [NoTask EXCEPT !.stage = "leased", !.since = nowRead[r]]}
  PROVE  Leased(d)' /\ Known(d)' /\ Found(d)'
<1>1. Typed /\ Timed /\ Leased(d) /\ Known(d) /\ Found(d)
  BY DEF Kept, Custody
<1>2. \A q \in Replicas : ~Holds(q, d)
  BY <1>1 DEF Leased
<1>3. \A q \in Replicas \ {r} : ~Holds(q, d)' /\ Stage(q, d)' = Stage(q, d)
  BY <1>2 DEF Holds, Keeps, Closing, Stage
<1>4. /\ Stage(r, d)' \in {"none", "leased"} /\ ~Closing(r, d)'
      /\ Keeps(r, d)' => tasks'[r][d].since = nowRead[r]
  <2>1. CASE tasks'[r][d] = NoTask
    BY <2>1 DEF Stage, NoTask, Keeps, Closing, Loading
  <2>2. CASE tasks'[r][d] = [NoTask EXCEPT !.stage = "leased", !.since = nowRead[r]]
    <3>1. Stage(r, d)' = "leased" /\ tasks'[r][d].since = nowRead[r]
      BY <2>2 DEF Stage, NoTask
    <3> QED
      BY <3>1 DEF Keeps, Closing, Loading
  <2> QED
    BY <2>1, <2>2
<1>5. nowRead[r] + LeaseTtl # NotIn
  BY <1>1, RedisAssumption DEF Typed, TypeOK, NotIn
<1>6. Leased(d)'
  BY <1>3, <1>4 DEF Leased, Holds
<1>7. Known(d)'
  BY <1>1 DEF Known
<1>8. Found(d)'
  <2>1. overtaken'[d] = 0 =>
          \A q \in Replicas : Stage(q, d)' \notin {"write", "expire"}
    BY <1>3, <1>4 DEF Midway
  <2> QED
    BY <1>5, <2>1 DEF Found, Findable
<1> QED
  BY <1>6, <1>7, <1>8

LEMMA KeptByClaim ==
  ASSUME Kept, NEW r \in Replicas, ClaimIds(r)
  PROVE  Timed' /\ Custody'
<1> DEFINE lease == [NoTask EXCEPT !.stage = "leased", !.since = nowRead[r]]
<1>1. Typed /\ Timed /\ Custody
  BY DEF Kept
<1>2. UNCHANGED <<clock, hash, producer, torn>> /\ pc[r] = "claim"
  BY DEF ClaimIds
<1>3. PICK batch \in Batches(nowRead[r]) :
        /\ Taken(batch, nowRead[r]) /\ Overtakes(batch)
        /\ tasks' = [tasks EXCEPT ![r] = [d \in Deliveries |-> IF d \in batch THEN lease ELSE @[d]]]
        /\ pc' = [pc EXCEPT ![r] = IF batch = {} THEN "idle" ELSE "load"]
  BY DEF ClaimIds
<1>4. \A d \in batch : d \in Deliveries /\ ready[d] # NotIn
  BY DEF Batches
<1>5. \A q \in Replicas \ {r} :
        tasks'[q] = tasks[q] /\ pc'[q] = pc[q] /\ nowRead'[q] = nowRead[q]
  BY <1>1, <1>3 DEF ClaimIds, Typed, TypeOK
<1>6. \A d \in Deliveries : tasks'[r][d] = IF d \in batch THEN lease ELSE tasks[r][d]
  BY <1>1, <1>3 DEF Typed, TypeOK
<1>7. ASSUME NEW d \in Deliveries, d \in batch
      PROVE  Leased(d)' /\ Known(d)' /\ Found(d)'
  <2>1. /\ ready'[d] = NotIn /\ inflight'[d] = nowRead[r] + LeaseTtl
        /\ (\E q \in Replicas : Stage(q, d) \in Midway) => overtaken'[d] = overtaken[d] + 1
    BY <1>3, <1>7 DEF Taken, Overtakes
  <2>2. overtaken[d] \in Nat
    BY <1>1 DEF Typed, TypeOK
  <2>3. tasks'[r][d] = lease
    BY <1>6, <1>7
  <2> QED
    <3>1. \A q \in Replicas : Stage(q, d) \in Midway => overtaken'[d] # 0
      BY <2>1, <2>2
    <3> QED
      BY <1>2, <1>4, <1>5, <1>7, <2>1, <2>3, <3>1, KeptInBatch
<1>8. ASSUME NEW d \in Deliveries, d \notin batch
      PROVE  Leased(d)' /\ Known(d)' /\ Found(d)'
  <2>1. ready'[d] = ready[d] /\ inflight'[d] = inflight[d] /\ overtaken'[d] = overtaken[d]
    BY <1>3, <1>8 DEF Taken, Overtakes
  <2>2. \A q \in Replicas : tasks'[q][d] = tasks[q][d]
    BY <1>5, <1>6, <1>8
  <2> QED
    BY <1>1, <1>2, <2>1, <2>2, Lapse DEF Custody, Withers
<1>9. Timed'
  <2>1. \A d \in Deliveries : Stage(r, d) = "none"
    BY <1>1, <1>2 DEF Timed
  <2>2. /\ nowRead'[r] = 0 /\ pc'[r] \in {"idle", "load"} /\ (batch # {} => pc'[r] = "load")
        /\ clock \in Nat
    BY <1>1, <1>3 DEF ClaimIds, Typed, TypeOK
  <2>3. 1 <= nowRead[r] /\ nowRead[r] <= clock /\ clock <= nowRead[r] + HoldBound
    BY <1>1, <1>2 DEF Timed
  <2>4. \A d \in Deliveries :
          \/ Stage(r, d)' = "none"
          \/ Stage(r, d)' = "leased" /\ tasks'[r][d].since = nowRead[r] /\ pc'[r] = "load"
    BY <1>6, <2>1, <2>2 DEF Stage, NoTask
  <2>5. \A d \in Deliveries :
          /\ Stage(r, d)' # "none" => pc'[r] \in {"load", "gather"}
          /\ Stage(r, d)' # "none" => 1 <= tasks'[r][d].since /\ tasks'[r][d].since <= clock
          /\ Keeps(r, d)' => clock <= tasks'[r][d].since + HoldBound
          /\ pc'[r] = "load" => Stage(r, d)' \in {"none"} \cup Loading
    BY <2>3, <2>4 DEF Keeps, Loading
  <2>6. nowRead'[r] <= clock
    BY <2>2
  <2> QED
    BY <1>1, <1>2, <1>5, <2>2, <2>5, <2>6, TimedElsewhere
<1> QED
  BY <1>7, <1>8, <1>9 DEF Custody

LEMMA KeptByFailedClaim ==
  ASSUME Kept, NEW r \in Replicas, ClaimFails(r)
  PROVE  Timed' /\ Custody'
<1>1. Typed /\ Timed /\ Custody
  BY DEF Kept
<1>2. UNCHANGED <<clock, hash, producer, torn>> /\ pc[r] \in {"claim", "load"}
  BY DEF ClaimFails
<1>3. \A q \in Replicas \ {r} :
        tasks'[q] = tasks[q] /\ pc'[q] = pc[q] /\ nowRead'[q] = nowRead[q]
  BY <1>1 DEF ClaimFails, Typed, TypeOK
<1>4. /\ \A d \in Deliveries : tasks'[r][d] = NoTask
      /\ nowRead'[r] = 0 /\ pc'[r] = "idle"
  BY <1>1 DEF ClaimFails, Typed, TypeOK
<1>5. \A d \in Deliveries : Stage(r, d) \notin Midway
  BY <1>1, <1>2 DEF Timed, Loading, Midway
<1>6. Timed'
  <2>1. \A d \in Deliveries : Stage(r, d)' = "none" /\ ~Keeps(r, d)'
    BY <1>4 DEF Stage, NoTask, Keeps, Loading
  <2>2. nowRead'[r] <= clock
    BY <1>1, <1>4 DEF Typed, TypeOK
  <2> QED
    BY <1>1, <1>2, <1>3, <1>4, <2>1, <2>2, TimedElsewhere
<1>7. ASSUME NEW d \in Deliveries,
             ready'[d] = ready[d], inflight'[d] = inflight[d], overtaken'[d] = overtaken[d]
      PROVE  Leased(d)' /\ Known(d)' /\ Found(d)'
  <2>1. \A q \in Replicas :
          /\ tasks'[q][d] \in {tasks[q][d], NoTask}
          /\ tasks'[q][d] = tasks[q][d] \/ Stage(q, d) \notin Midway
    BY <1>3, <1>4, <1>5
  <2> QED
    BY <1>1, <1>2, <1>7, <2>1, Lapse DEF Custody, Withers
<1>8. CASE UNCHANGED <<ready, inflight, overtaken>>
  BY <1>6, <1>7, <1>8 DEF Custody
<1>9. ASSUME pc[r] = "claim", NEW batch \in Batches(nowRead[r]),
             Taken(batch, nowRead[r]), Overtakes(batch)
      PROVE  Custody'
  <2>1. ASSUME NEW d \in Deliveries, d \in batch
        PROVE  Leased(d)' /\ Known(d)' /\ Found(d)'
    <3>1. /\ ready[d] # NotIn /\ ready'[d] = NotIn /\ inflight'[d] = nowRead[r] + LeaseTtl
          /\ (\E q \in Replicas : Stage(q, d) \in Midway) => overtaken'[d] = overtaken[d] + 1
      BY <1>9, <2>1 DEF Taken, Overtakes, Batches
    <3>2. \A q \in Replicas : Stage(q, d) \in Midway => overtaken'[d] # 0
      BY <1>1, <3>1 DEF Typed, TypeOK
    <3> QED
      BY <1>2, <1>3, <1>4, <1>9, <3>1, <3>2, KeptInBatch
  <2>2. ASSUME NEW d \in Deliveries, d \notin batch
        PROVE  Leased(d)' /\ Known(d)' /\ Found(d)'
    <3>1. ready'[d] = ready[d] /\ inflight'[d] = inflight[d] /\ overtaken'[d] = overtaken[d]
      BY <1>9, <2>2 DEF Taken, Overtakes
    <3> QED
      BY <1>7, <3>1
  <2> QED
    BY <2>1, <2>2 DEF Custody
<1> QED
  BY <1>6, <1>8, <1>9 DEF ClaimFails

-------------------------------------------------------------------------------
(* Crashes and time.                                                       *)
LEMMA KeptByStop ==
  ASSUME Kept, NEW r \in Replicas, Stop(r)
  PROVE  Timed' /\ Custody'
<1>1. Typed /\ Timed /\ Custody
  BY DEF Kept
<1>2. UNCHANGED <<clock, ready, inflight, hash, producer, overtaken>>
  BY DEF Stop, redis
<1>3. \A q \in Replicas \ {r} :
        tasks'[q] = tasks[q] /\ pc'[q] = pc[q] /\ nowRead'[q] = nowRead[q]
  BY <1>1 DEF Stop, Typed, TypeOK
<1>4. /\ \A d \in Deliveries : tasks'[r][d] = NoTask
      /\ nowRead'[r] = 0 /\ pc'[r] = "down"
  BY <1>1 DEF Stop, Typed, TypeOK
<1>5. \A d \in Deliveries : torn'[d] = (torn[d] \/ Stage(r, d) \in Midway)
  BY DEF Stop
<1>6. Custody'
  <2> SUFFICES ASSUME NEW d \in Deliveries PROVE Leased(d)' /\ Known(d)' /\ Found(d)'
    BY DEF Custody
  <2>1. \A q \in Replicas : tasks'[q][d] \in {tasks[q][d], NoTask}
    BY <1>3, <1>4
  <2>2. ~torn'[d] => \A q \in Replicas : tasks'[q][d] = tasks[q][d] \/ Stage(q, d) \notin Midway
    BY <1>3, <1>5
  <2>3. torn[d] => torn'[d]
    BY <1>5
  <2> QED
    BY <1>1, <1>2, <2>1, <2>2, <2>3, Lapse DEF Custody, Withers
<1>7. Timed'
  <2>1. \A d \in Deliveries : Stage(r, d)' = "none" /\ ~Keeps(r, d)'
    BY <1>4 DEF Stage, NoTask, Keeps, Loading
  <2>2. \A q \in Replicas \ {r}, d \in Deliveries :
          Stage(q, d)' = Stage(q, d) /\ (Keeps(q, d)' => Keeps(q, d))
    BY <1>3, <1>5 DEF Stage, Keeps
  <2>3. clock \in Nat /\ nowRead'[r] <= clock
    BY <1>1, <1>4 DEF Typed, TypeOK
  <2> QED
    BY <1>1, <1>2, <1>3, <1>4, <2>1, <2>2, <2>3 DEF Timed
<1> QED
  BY <1>6, <1>7

LEMMA KeptByAdvance ==
  ASSUME Kept, Advance
  PROVE  Timed' /\ Custody'
<1>1. Typed /\ Timed
  BY DEF Kept
<1>2. /\ UNCHANGED <<ready, inflight, hash, producer, pc, nowRead, tasks, torn, overtaken>>
      /\ clock' = clock + 1
  BY DEF Advance, redis, history
<1>3. \A q \in Replicas, d \in Deliveries :
        Stage(q, d)' = Stage(q, d) /\ Keeps(q, d)' = Keeps(q, d)
  BY <1>2 DEF Stage, Keeps
<1>4. /\ clock \in Nat /\ HoldBound \in Nat
      /\ \A q \in Replicas : nowRead[q] \in Nat
      /\ \A q \in Replicas, d \in Deliveries : tasks[q][d].since \in Nat
  BY <1>1, RedisAssumption DEF Typed, TypeOK, Task
<1>5. /\ \A q \in Replicas : pc[q] = "claim" => clock < nowRead[q] + HoldBound
      /\ \A q \in Replicas, d \in Deliveries :
           Keeps(q, d) => clock < tasks[q][d].since + HoldBound
  <2>1. \A q \in Replicas, d \in Deliveries : Keeps(q, d) => Stage(q, d) \notin {"none", "landed"}
    BY DEF Keeps, Loading
  <2> QED
    BY <2>1 DEF Advance, WithinHold
<1>6. \A q \in Replicas :
        /\ nowRead'[q] <= clock'
        /\ pc'[q] \in {"reclaim", "claim"} => nowRead'[q] >= 1
        /\ pc'[q] = "claim" => clock' <= nowRead'[q] + HoldBound
  BY <1>1, <1>2, <1>4, <1>5 DEF Timed
<1>7. \A q \in Replicas, d \in Deliveries :
        /\ Stage(q, d)' # "none" => pc'[q] \in {"load", "gather"}
        /\ Stage(q, d)' # "none" => 1 <= tasks'[q][d].since /\ tasks'[q][d].since <= clock'
        /\ Keeps(q, d)' => clock' <= tasks'[q][d].since + HoldBound
        /\ pc'[q] = "load" => Stage(q, d)' \in {"none"} \cup Loading
  BY <1>1, <1>2, <1>3, <1>4, <1>5 DEF Timed
<1> QED
  BY <1>2, <1>6, <1>7, Idle DEF Timed

-------------------------------------------------------------------------------
LEMMA KeptInit == Init => Kept
<1> SUFFICES ASSUME Init PROVE Kept
  OBVIOUS
<1>1. Typed
  BY TypedInit
<1>2. \A r \in Replicas, d \in Deliveries :
        Stage(r, d) = "none" /\ ~Keeps(r, d) /\ ~Closing(r, d) /\ ~Holds(r, d)
  BY DEF Init, Stage, NoTask, Keeps, Closing, Holds, Loading
<1>3. Timed
  BY <1>2 DEF Timed, Init
<1>4. \A d \in Deliveries : Leased(d) /\ Known(d) /\ Found(d)
  BY <1>2 DEF Leased, Known, Found, Findable, Init
<1> QED
  BY <1>1, <1>3, <1>4 DEF Kept, Custody

LEMMA KeptStep == SafeDeployment /\ Kept /\ [Next]_vars => Kept'
<1> SUFFICES ASSUME SafeDeployment, Kept, [Next]_vars PROVE Kept'
  OBVIOUS
<1>1. Typed'
  BY TypedStep DEF Kept
<1>2. ASSUME NEW d \in Deliveries, ProducerStep(d) \/ Expire(d)
      PROVE  Timed' /\ Custody'
  BY <1>2, KeptByProducer
<1>3. ASSUME NEW r \in Replicas, TickStep(r)
      PROVE  Timed' /\ Custody'
  BY <1>3, KeptByQuietTick, KeptByReclaim, KeptByClaim, KeptByFailedClaim, KeptByStart
     DEF TickStep
<1>4. ASSUME NEW r \in Replicas, NEW d \in Deliveries, SendStep(r, d) \/ SettleStep(r, d)
      PROVE  Timed' /\ Custody'
  BY <1>4, KeptInTask
<1>5. ASSUME NEW r \in Replicas, Stop(r)
      PROVE  Timed' /\ Custody'
  BY <1>5, KeptByStop
<1>6. CASE UNCHANGED vars
  <2>1. UNCHANGED <<clock, ready, inflight, hash, producer, pc, nowRead, tasks, torn, overtaken>>
    BY <1>6 DEF vars, redis, history
  <2>2. Timed'
    BY <2>1 DEF Kept, Timed, Keeps, Stage
  <2> QED
    BY <1>1, <2>1, <2>2, Idle DEF Kept
<1> QED
  BY <1>1, <1>2, <1>3, <1>4, <1>5, <1>6, KeptByAdvance DEF Kept, Next, ReplicaStep

LEMMA AlwaysKept == SafeDeployment /\ Spec => []Kept
<1>1. CASE SafeDeployment
  <2>1. Kept /\ [Next]_vars => Kept'
    BY <1>1, KeptStep
  <2> QED
    BY <2>1, KeptInit, PTL DEF Spec
<1> QED
  BY <1>1

(* No delivery is ready and in flight at once: CLAIM_BATCH_LUA moves it    *)
(* from one set to the other, RECLAIM_LUA back only when nobody works on   *)
(* it any more, and the two commands of schedule_retry, sent separately,   *)
(* are never overtaken by a second lease.                                  *)
THEOREM SetsAreDisjoint == SafeDeployment /\ Spec => []Disjoint
<1>1. Kept => Disjoint
  BY DEF Kept, Custody, Leased, Disjoint
<1> QED
  BY <1>1, AlwaysKept, PTL

(* From claim_batch to the first command of the settling call, a delivery  *)
(* is in flight for one task, under the lease that task claimed.           *)
THEOREM LeasesAreExclusive == SafeDeployment /\ Spec => []ExclusiveLease
<1>1. ASSUME Kept, NEW r \in Replicas, NEW d \in Deliveries,
             Stage(r, d) \in Loading \cup Sending, ~torn[d]
      PROVE  /\ inflight[d] = tasks[r][d].since + LeaseTtl
             /\ \A q \in Replicas \ {r} : Stage(q, d) \notin Loading \cup Sending
  <2>1. Leased(d)
    BY <1>1 DEF Kept, Custody
  <2>2. \A q \in Replicas : Stage(q, d) \in Loading \cup Sending => Keeps(q, d)
    BY <1>1 DEF Keeps, Sending
  <2> QED
    BY <1>1, <2>1, <2>2 DEF Leased, Holds
<1>2. Kept => ExclusiveLease
  BY <1>1 DEF ExclusiveLease
<1> QED
  BY <1>2, AlwaysKept, PTL

(* Retention never deletes the hash of a delivery that is still listed:    *)
(* EXPIRE is the last command of mark_sent and mark_dead, and nobody lists *)
(* the delivery after it.                                                  *)
THEOREM NoOrphanIsMade == SafeDeployment /\ Spec => []NoOrphans
<1>1. Kept => NoOrphans
  BY DEF Kept, Custody, Known, NoOrphans
<1> QED
  BY <1>1, AlwaysKept, PTL

(* A delivery that enqueue_many accepted is settled or can be found by a   *)
(* claim, a reclaim or the task that settles it, through every crash and   *)
(* exception that does not cut a settling pipeline in two.                 *)
THEOREM OnlyCutsLose == SafeDeployment /\ Spec => []LostOnlyByCuts
<1>1. Kept => LostOnlyByCuts
  BY DEF Kept, Custody, Found, LostOnlyByCuts
<1> QED
  BY <1>1, AlwaysKept, PTL
===============================================================================
