----------------------------- MODULE PolicyProofs -----------------------------
(***************************************************************************)
(* Theorems about the retry policy, for every value of its settings and    *)
(* every answer of a receiver.                                             *)
(***************************************************************************)
EXTENDS DeliveryPolicy, TLAPS

LEMMA DelaysAreTimes ==
  ASSUME NEW n \in Nat, NEW wait \in Nat \cup {NoRetryAfter}
  PROVE  NextDelays(n, wait) \subseteq Nat
<1>1. CASE wait = NoRetryAfter
  BY <1>1 DEF NextDelays
<1>2. CASE wait # NoRetryAfter
  <2>1. wait \in Nat
    BY <1>2
  <2>2. Least(wait, MaxDelay) \in Nat
    BY <2>1, PolicyAssumption DEF Least
  <2> QED
    BY <1>2, <2>2 DEF NextDelays
<1> QED
  BY <1>1, <1>2

LEMMA WaitsAreTimes ==
  ASSUME NEW answer \in Answer, NEW now \in Nat
  PROVE  Waited(answer, now) \in Nat \cup {NoRetryAfter}
<1>1. answer.header \in Header
  BY DEF Answer
<1>2. ParseRetryAfter(answer.header, now) \in Nat \cup {NoRetryAfter}
  BY <1>1 DEF ParseRetryAfter, Greatest, Header
<1> QED
  BY <1>2 DEF Waited

LEMMA ReasonOfAnswer ==
  ASSUME NEW answer \in Answer
  PROVE  Reason(answer) \in RetryReason \cup {NoReason}
BY DEF Reason, ClassifyStatus, ClassifyException, RetryReason, Unavailable, Answer

LEMMA OutcomeIsVerdict ==
  ASSUME NEW reason \in RetryReason \cup {NoReason}, NEW willRetry \in BOOLEAN
  PROVE  OutcomeStatus(reason, willRetry) \in {"sent", "failed_retry", "dead_lettered"}
BY DEF OutcomeStatus

-------------------------------------------------------------------------------
(* The promises of next_delay_s: the wait a receiver asked for is kept     *)
(* exactly up to max_delay_s, and without one no delay leaves the band of  *)
(* the jitter around a back-off that max_delay_s caps.                     *)
THEOREM DelaysKeepPromises ==
  ASSUME NEW n \in Nat, NEW wait \in Nat \cup {NoRetryAfter}, NEW delay \in NextDelays(n, wait)
  PROVE  /\ wait \in 0..MaxDelay => delay = wait
         /\ wait # NoRetryAfter => delay <= MaxDelay
         /\ wait = NoRetryAfter => 100 * delay <= (100 + JitterPct) * Backoff(n)
<1>1. CASE wait = NoRetryAfter
  BY <1>1, PolicyAssumption DEF NextDelays, NoRetryAfter
<1>2. CASE wait # NoRetryAfter
  <2>1. wait \in Nat /\ delay = Least(wait, MaxDelay)
    BY <1>2 DEF NextDelays
  <2> QED
    BY <1>2, <2>1, PolicyAssumption DEF Least
<1> QED
  BY <1>1, <1>2

(* retry_on and outcome_status: the attempt that uses up max_attempts is   *)
(* never followed by another one, and no accepted delivery is tried again. *)
THEOREM BudgetEnds ==
  ASSUME NEW answer \in Answer, NEW n \in Nat,
         OutcomeStatus(Reason(answer), RetryOn(Reason(answer), n)) = "failed_retry"
  PROVE  n < MaxAttempts /\ ~(answer.kind = "response" /\ answer.status \in 200..299)
<1>1. Reason(answer) # NoReason /\ RetryOn(Reason(answer), n)
  BY DEF OutcomeStatus
<1> QED
  BY <1>1 DEF RetryOn, Reason, ClassifyStatus, NoReason
===============================================================================
