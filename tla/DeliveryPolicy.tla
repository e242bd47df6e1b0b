---------------------------- MODULE DeliveryPolicy ----------------------------
(***************************************************************************)
(* The pure retry policy of policy.py: which answers of a receiver are     *)
(* worth another attempt, what becomes of a delivery after an attempt, and *)
(* how long the next attempt waits.  Times are whole seconds.              *)
(***************************************************************************)
EXTENDS Integers

CONSTANTS
  MaxAttempts,     \* WebhookRetryConfig.max_attempts
  BaseDelay,       \* WebhookRetryConfig.base_delay_s
  BackoffFactor,   \* WebhookRetryConfig.backoff_factor
  MaxDelay,        \* WebhookRetryConfig.max_delay_s
  JitterPct        \* WebhookRetryConfig.jitter_pct, in percent

ASSUME PolicyAssumption ==
  /\ MaxAttempts \in Nat \ {0}
  /\ BaseDelay \in Nat /\ BackoffFactor \in Nat /\ MaxDelay \in Nat
  /\ JitterPct \in 0..100

Unavailable == {"http_5xx", "http_408", "http_429", "network_error", "timeout"}
RetryReason == Unavailable \cup
  {"non_retryable_4xx", "payload_too_large", "blocked_ip_at_send"}
NoReason     == "none"             \* None: the receiver accepted the POST
NoRetryAfter == -1                 \* None: no usable Retry-After header

(* What a POST comes back with: a response with its Retry-After header, or *)
(* the httpx error it ended in.  A date is a time of the clock.            *)
Header == [form: {"seconds", "date", "other"}, value: Nat]
Answer == [kind: {"response", "timeout", "error"}, status: Nat, header: Header]

RetryableReasons == Unavailable

(* A status outside 2xx, 408, 429 and 5xx (a redirect too: the sender does *)
(* not follow it) is the receiver's final word.                            *)
ClassifyStatus(status) ==
  CASE status \in 200..299 -> NoReason
    [] status >= 500       -> "http_5xx"
    [] status = 408        -> "http_408"
    [] status = 429        -> "http_429"
    [] OTHER               -> "non_retryable_4xx"

ClassifyException(isTimeout) == IF isTimeout THEN "timeout" ELSE "network_error"

Reason(answer) ==
  IF answer.kind = "response" THEN ClassifyStatus(answer.status)
                              ELSE ClassifyException(answer.kind = "timeout")

(* Mutant: the last attempt is counted one too late.                       *)
RetryOnLate(reason, attempt) == reason \in RetryableReasons /\ attempt <= MaxAttempts

RetryOn(reason, attempt) == reason \in RetryableReasons /\ attempt < MaxAttempts

(* Mutant: what is given up is marked with the unused status CANCELLED.    *)
OutcomeCancelled(reason, willRetry) ==
  CASE reason = NoReason -> "sent"
    [] reason # NoReason /\ willRetry -> "failed_retry"
    [] OTHER -> "cancelled"

(* Mutant: the retry flag is looked at before the answer.                  *)
OutcomeIgnoringAnswer(reason, willRetry) ==
  IF willRetry THEN "failed_retry" ELSE "sent"

OutcomeStatus(reason, willRetry) ==
  CASE reason = NoReason -> "sent"
    [] reason # NoReason /\ willRetry -> "failed_retry"
    [] OTHER -> "dead_lettered"

Least(a, b)    == IF a <= b THEN a ELSE b
Greatest(a, b) == IF a >= b THEN a ELSE b

(* Mutant: an HTTP-date is not understood.                                 *)
RetryAfterUndated(header, now) ==
  IF header.form = "seconds" THEN header.value ELSE NoRetryAfter

(* A Retry-After header, parsed: digits are seconds, a zoned HTTP-date is  *)
(* the time left until it, and anything else is ignored.                   *)
ParseRetryAfter(header, now) ==
  CASE header.form = "seconds" -> header.value
    [] header.form = "date"    -> Greatest(0, header.value - now)
    [] OTHER                   -> NoRetryAfter

Waited(answer, now) ==
  IF answer.kind = "response" THEN ParseRetryAfter(answer.header, now) ELSE NoRetryAfter

Backoff(attempt) ==
  Least(BaseDelay * (BackoffFactor ^ Greatest(attempt - 1, 0)), MaxDelay)

(* Every delay next_delay_s can return: the receiver's own wait, capped    *)
(* and exact, or the capped exponential with its jitter either way.        *)
NextDelays(attempt, retryAfter) ==
  IF retryAfter # NoRetryAfter
  THEN {Least(retryAfter, MaxDelay)}
  ELSE LET capped == Backoff(attempt) IN
       {delay \in 0..(2 * MaxDelay) :
          100 * delay \in ((100 - JitterPct) * capped)..((100 + JitterPct) * capped)}
===============================================================================
