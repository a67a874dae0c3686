---------------------------- MODULE RetryPolicy ----------------------------
(***************************************************************************)
(* The pure retry classifier of storage/queue.rs: what a failed send means *)
(* for its job.  Time is a natural number; jitter is a free choice, so a   *)
(* classification is the set of decisions the code can take.               *)
(***************************************************************************)
EXTENDS Integers

CONSTANTS
  MaxAttempts,    \* MAX_ATTEMPTS
  BackoffBase,    \* BACKOFF_BASE
  BackoffCap,     \* BACKOFF_CAP
  MaxRetryAfter   \* the one-hour ceiling of parse_retry_after

ASSUME RetryAssumption ==
  /\ MaxAttempts \in Nat \ {0}
  /\ BackoffBase \in Nat \ {0}
  /\ BackoffCap \in Nat \ {0}
  /\ MaxRetryAfter \in Nat

ErrorKinds ==
  {"Network", "Timeout", "HttpStatus", "Authentication", "Signature",
   "Permission", "Format", "TemporaryPlatform"}

\* status 0 and retryAfter 0 stand for None; the code ignores a zero delay too.
DeliveryError ==
  [kind : ErrorKinds, status : 0..999, retryAfter : 0..MaxRetryAfter]

Decision == [kind : {"RetryAt", "Fail", "Expire"}, at : Nat]
Fail == [kind |-> "Fail", at |-> 0]
Expire == [kind |-> "Expire", at |-> 0]
RetryAt(t) == [kind |-> "RetryAt", at |-> t]

IsRetryableHttpStatus(s) == s \in {408, 429} \cup 500..599

IsRetryable(err) ==
  \/ err.kind \in {"Network", "Timeout", "TemporaryPlatform"}
  \/ err.kind = "HttpStatus" /\ IsRetryableHttpStatus(err.status)

\* A failure of the credential: it never retries and counts as a strike.
IsCredentialError(err) == err.kind \in {"Authentication", "Signature", "Permission"}

\* Every retry delay for a job whose counter stands at n: full jitter is any
\* fraction of the capped exponential, a positive Retry-After is taken as it is.
Delays(n, err) ==
  IF err.retryAfter > 0
  THEN {err.retryAfter}
  ELSE {d \in 0..BackoffCap : d <= BackoffBase * 2^(IF n > 1 THEN n - 1 ELSE 0)}

ScheduledUnclamped(when, expires) == RetryAt(when)   \* a mutant of Scheduled

\* A retry that would land after the deadline is an expiry.
Scheduled(when, expires) == IF when > expires THEN Expire ELSE RetryAt(when)

ExhaustedLate(n) == n > MaxAttempts   \* a mutant of Exhausted
Exhausted(n) == n >= MaxAttempts

Classify(attempts, expires, t, err) ==
  IF expires <= t THEN {Expire}
  ELSE IF ~IsRetryable(err) \/ Exhausted(attempts) THEN {Fail}
  ELSE {Scheduled(t + d, expires) : d \in Delays(attempts, err)}
=============================================================================
