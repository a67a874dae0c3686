------------------------ MODULE DeliveryWorkerProofs ------------------------
(***************************************************************************)
(* Theorems about the delivery queue and its worker, for every number of   *)
(* jobs, channels, faults and edits.                                       *)
(***************************************************************************)
EXTENDS DeliveryWorker, FiniteSetTheorems, TLAPS

-----------------------------------------------------------------------------
(* What one attempt can come to, for every answer of the platform, of the    *)
(* network and of the keyring                                                *)

\* The answers of a platform that puts an errcode into every answer.
Explicit(A) == A \subseteq {a \in Answer : a.code # "none"}

LEMMA CappedType ==
  ASSUME NEW seconds \in Nat
  PROVE  Capped(seconds) \in 0..MaxRetryAfter
  BY RetryAssumption DEF Capped

\* The end of a request with an error of the retry policy's.
IsError(end) == \E err \in DeliveryError : end = [end |-> "error", err |-> err]

\* What an error can carry.
Carried(status, retryAfter) == status \in 0..999 /\ retryAfter \in 0..MaxRetryAfter

LEMMA FailureIsError ==
  ASSUME NEW kind \in ErrorKinds, NEW status, NEW retryAfter, Carried(status, retryAfter)
  PROVE  IsError(Failure(kind, status, retryAfter))
<1>1. [kind |-> kind, status |-> status, retryAfter |-> retryAfter] \in DeliveryError
  BY DEF DeliveryError, Carried
<1>2. QED
  BY <1>1 DEF IsError, Failure

\* A request ends with a receipt, an error of the retry policy's, or, as markdown
\* only, with the platform's rejection.
LEMMA SendOneEnds ==
  ASSUME NEW s \in Sender, NEW a \in Answer, NEW markdown \in BOOLEAN
  PROVE  \/ SendOne(s, a, markdown) = Receipt
         \/ SendOne(s, a, markdown) = TextFallback /\ markdown
         \/ IsError(SendOne(s, a, markdown))
<1>1. Carried(0, 0) /\ Carried(a.status, 0) /\ Carried(a.status, Capped(a.retryAfter))
  <2>1. a.status \in 0..999 /\ a.retryAfter \in Nat
    BY DEF Answer
  <2>2. QED
    BY <2>1, CappedType, RetryAssumption DEF Carried
<1>2. /\ "HttpStatus" \in ErrorKinds /\ "Format" \in ErrorKinds /\ "Signature" \in ErrorKinds
  BY DEF ErrorKinds
<1>3. CASE a.fate \notin {"Answered", "Garbled"}
  <2>1. SendOne(s, a, markdown) = Unanswered(a)
    BY <1>3 DEF SendOne
  <2>2. PICK kind \in ErrorKinds : Unanswered(a) = Failure(kind, 0, 0)
    BY DEF Unanswered, ErrorKinds
  <2>3. IsError(Failure(kind, 0, 0))
    BY <1>1, FailureIsError
  <2>4. QED
    BY <2>1, <2>2, <2>3
<1>4. CASE a.fate \in {"Answered", "Garbled"} /\ ~IsSuccess(a.status)
  <2>1. SendOne(s, a, markdown) = Failure("HttpStatus", a.status, Capped(a.retryAfter))
    BY <1>4 DEF SendOne
  <2>2. IsError(Failure("HttpStatus", a.status, Capped(a.retryAfter)))
    BY <1>1, <1>2, FailureIsError
  <2>3. QED
    BY <2>1, <2>2
<1>5. ASSUME a.fate \in {"Answered", "Garbled"}, IsSuccess(a.status)
      PROVE  IsError(Failure("Format", a.status, 0)) /\ IsError(Failure("Signature", a.status, 0))
  BY <1>1, <1>2, FailureIsError
<1>6. CASE a.fate = "Garbled" /\ IsSuccess(a.status)
  <2>1. SendOne(s, a, markdown) = Failure("Format", a.status, 0)
    BY <1>6 DEF SendOne
  <2>2. QED
    BY <1>5, <1>6, <2>1
<1>7. CASE a.fate = "Answered" /\ IsSuccess(a.status)
  <2>1. PlatformKind(s, a.code) \in ErrorKinds
    BY DEF PlatformKind, ErrorKinds
  <2>2. IsError(Failure(PlatformKind(s, a.code), a.status, 0))
    BY <1>1, <2>1, FailureIsError
  <2>3. \/ SendOne(s, a, markdown) = Receipt
        \/ SendOne(s, a, markdown) = TextFallback /\ markdown
        \/ SendOne(s, a, markdown) = Failure("Signature", a.status, 0)
        \/ SendOne(s, a, markdown) = Failure(PlatformKind(s, a.code), a.status, 0)
    BY <1>7 DEF SendOne
  <2>4. QED
    BY <1>5, <1>7, <2>2, <2>3
<1>8. QED
  BY <1>3, <1>4, <1>6, <1>7

LEMMA EndsApart ==
  /\ Receipt # TextFallback
  /\ \A err : [end |-> "error", err |-> err] \notin {Receipt, TextFallback}
  /\ ~IsError(TextFallback)
  BY DEF Receipt, TextFallback, IsError

\* Only a 200 with errcode 0 is a receipt, and only an explicit rejection falls
\* back: the platform has taken the first message and not the second.
LEMMA WhatIsTaken ==
  ASSUME NEW s \in Sender, NEW a \in Answer, NEW markdown \in BOOLEAN, a.code # "none"
  PROVE  /\ SendOne(s, a, markdown) = Receipt => Takes(a) = {1}
         /\ SendOne(s, a, markdown) = TextFallback => Takes(a) = {0}
         /\ Takes(a) \subseteq {0, 1}
<1>1. a.fate \in Fates
  BY DEF Answer
<1>2. CASE a.fate \notin {"Answered", "Garbled"}
  BY <1>1, <1>2, EndsApart DEF SendOne, Unanswered, Failure, Takes, Fates
<1>3. CASE a.fate \in {"Answered", "Garbled"} /\ ~IsSuccess(a.status)
  BY <1>3, EndsApart DEF SendOne, Failure, Takes
<1>4. CASE a.fate = "Garbled" /\ IsSuccess(a.status)
  BY <1>4, EndsApart DEF SendOne, Failure, Takes
<1>5. CASE a.fate = "Answered" /\ IsSuccess(a.status)
  <2>1. CASE a.code = "ok"
    <3>1. SendOne(s, a, markdown) = Receipt /\ Takes(a) = {1}
      BY <1>5, <2>1 DEF SendOne, Takes
    <3>2. QED
      BY <3>1, EndsApart
  <2>2. CASE a.code # "ok"
    <3>1. Takes(a) = {0}
      BY <1>5, <2>2 DEF Takes
    <3>2. SendOne(s, a, markdown) # Receipt
      BY <1>5, <2>2 DEF SendOne, Failure, Receipt, TextFallback
    <3>3. QED
      BY <3>1, <3>2
  <2>3. QED
    BY <2>1, <2>2
<1>6. QED
  BY <1>2, <1>3, <1>4, <1>5

\* An error after which the platform may have the message is one of those the
\* answer did not arrive with, or could not be read.
LostKinds == {"Network", "Timeout", "HttpStatus", "Format"}
LEMMA TakenUnanswered ==
  ASSUME NEW s \in Sender, NEW a \in Answer, NEW markdown \in BOOLEAN, a.code # "none",
         1 \in Takes(a)
  PROVE  SendOne(s, a, markdown) = Receipt \/ SendOne(s, a, markdown).err.kind \in LostKinds
<1>1. a.fate \in {"TimedOut", "Broken", "Oversized", "Garbled"} \/ a.fate = "Answered"
  BY DEF Takes, Answer, Fates
<1>2. CASE a.fate \in {"TimedOut", "Broken", "Oversized"}
  BY <1>2 DEF SendOne, Unanswered, Failure, LostKinds
<1>3. CASE a.fate \in {"Answered", "Garbled"} /\ ~IsSuccess(a.status)
  BY <1>3 DEF SendOne, Failure, LostKinds
<1>4. CASE a.fate = "Garbled" /\ IsSuccess(a.status)
  BY <1>4 DEF SendOne, Failure, LostKinds
<1>5. CASE a.fate = "Answered" /\ IsSuccess(a.status)
  <2>1. a.code = "ok"
    BY <1>5 DEF Takes
  <2>2. QED
    BY <1>5, <2>1 DEF SendOne
<1>6. QED
  BY <1>1, <1>2, <1>3, <1>4, <1>5

\* A receipt stands for a message the platform has; an error may leave one there
\* only when the answer was lost or unreadable.
Sound(r) ==
  /\ \/ r.end = "receipt" /\ r.copies = 1
     \/ r.end = "error" /\ r.copies \in {0, 1} /\ r.err \in DeliveryError
  /\ r.end = "error" /\ r.copies = 1 => r.err.kind \in LostKinds

LEMMA FinalRequestSound ==
  ASSUME NEW s \in Sender, NEW b \in Answer, b.code # "none", NEW markdown \in BOOLEAN,
         SendOne(s, b, markdown) # TextFallback, NEW n \in Takes(b)
  PROVE  Sound(Attempt(SendOne(s, b, markdown), n))
<1> DEFINE one == SendOne(s, b, markdown)
           r == Attempt(one, n)
<1>1. r.end = one.end /\ r.err = one.err /\ r.copies = n
  BY DEF Attempt
<1>2. n \in {0, 1}
  BY WhatIsTaken
<1>3. CASE one = Receipt
  <2>1. n = 1
    BY <1>3, WhatIsTaken
  <2>2. one.end = "receipt"
    BY <1>3 DEF Receipt
  <2>3. QED
    BY <1>1, <2>1, <2>2 DEF Sound
<1>4. ASSUME NEW err \in DeliveryError, one = [end |-> "error", err |-> err]
      PROVE  Sound(r)
  <2>1. one.end = "error" /\ one.err = err /\ one # Receipt
    BY <1>4, EndsApart
  <2>2. n = 1 => one.err.kind \in LostKinds
    BY <2>1, TakenUnanswered
  <2>3. QED
    BY <1>1, <1>2, <2>1, <2>2 DEF Sound
<1>5. CASE IsError(one)
  <2>1. PICK err \in DeliveryError : one = [end |-> "error", err |-> err]
    BY <1>5 DEF IsError
  <2>2. QED
    BY <1>4, <2>1
<1>6. QED
  BY <1>3, <1>5, SendOneEnds

\* One attempt of either adapter, with or without the text fallback, brings the
\* platform at most one message; it has it when there is a receipt, and may have
\* it after an error only when the answer was lost or unreadable.
THEOREM OneMessagePerAttempt ==
  ASSUME NEW s \in Sender, NEW A, Explicit(A), NEW r \in AttemptsOf(s, A)
  PROVE  Sound(r)
<1>1. PICK a \in A : r \in IF FallsBack(s, a) THEN UNION {WithText(s, a, b) : b \in A} ELSE Alone(s, a)
  BY DEF AttemptsOf
<1>2. a \in Answer /\ a.code # "none"
  BY DEF Explicit
<1>3. CASE ~FallsBack(s, a)
  <2>0. r \in Alone(s, a)
    BY <1>1, <1>3
  <2>1. PICK n \in Takes(a) : r = Attempt(SendOne(s, a, TRUE), n)
    BY <2>0 DEF Alone
  <2>2. SendOne(s, a, TRUE) # TextFallback
    BY <1>3 DEF FallsBack
  <2>3. QED
    BY <1>2, <2>1, <2>2, FinalRequestSound
<1>4. CASE FallsBack(s, a)
  <2>1. PICK b \in A : r \in WithText(s, a, b)
    BY <1>1, <1>4
  <2>2. PICK m \in Takes(a), n \in Takes(b) : r = Attempt(Send(s, a, b), m + n)
    BY <2>1 DEF WithText
  <2>3. b \in Answer /\ b.code # "none"
    BY DEF Explicit
  <2>4. Takes(a) = {0}
    BY <1>2, <1>4, WhatIsTaken DEF FallsBack
  <2>5. n \in {0, 1}
    BY <2>3, WhatIsTaken
  <2>6. m + n = n
    BY <2>4, <2>5
  <2>7. SendOne(s, b, FALSE) # TextFallback
    <3>1. SendOne(s, b, FALSE) = Receipt \/ IsError(SendOne(s, b, FALSE))
      BY <2>3, SendOneEnds
    <3>2. QED
      BY <3>1, EndsApart
  <2>8. r = Attempt(SendOne(s, b, FALSE), n)
    BY <1>4, <2>2, <2>6, <2>7 DEF Send
  <2>9. QED
    BY <2>3, <2>7, <2>8, FinalRequestSound
<1>5. QED
  BY <1>3, <1>4

-----------------------------------------------------------------------------

USE DEF NoLease, Unlimited

-----------------------------------------------------------------------------
(* The outcome of an attempt *)

LEMMA AttemptIsSound ==
  ASSUME NEW j \in Jobs, NEW attempt \in Attempts(j)
  PROVE  Sound(attempt)
<1>1. SenderOf[ChannelOf[j]] \in Sender
  BY QueueAssumption, WorkerAssumption
<1>2. Explicit(Answers)
  BY WorkerAssumption DEF Explicit
<1>3. QED
  BY <1>1, <1>2, OneMessagePerAttempt DEF Attempts

\* A receipt adds one copy for each job of the claim.
LEMMA AcceptedOnce ==
  ASSUME TypeOK, NEW j \in Jobs, PlatformAccepts(j)
  PROVE  copies' = [k \in Jobs |-> IF k \in ClaimOf(j) THEN copies[k] + 1 ELSE copies[k]]
<1>1. PICK attempt \in Attempts(j) :
        attempt.end = "receipt" /\ copies' = Arrives(j, copies, attempt.copies)
  BY DEF PlatformAccepts
<1>2. attempt.copies = 1
  BY <1>1, AttemptIsSound DEF Sound
<1>3. QED
  BY <1>1, <1>2 DEF Arrives

\* An error is one of the retry policy's, and adds at most one copy.
LEMMA RefusedWithError ==
  ASSUME TypeOK, NEW j \in Jobs, PlatformRefuses(j)
  PROVE  \E err \in DeliveryError, taken \in BOOLEAN :
           /\ task' = Become(ClaimOf(j), [task[j] EXCEPT !.stage = "refused", !.err = err])
           /\ copies' = [k \in Jobs |-> IF taken /\ k \in ClaimOf(j) THEN copies[k] + 1 ELSE copies[k]]
           /\ lost' = [k \in Jobs |-> IF taken /\ k \in ClaimOf(j) THEN lost[k] + 1 ELSE lost[k]]
           /\ strikes' = IF IsCredentialError(err) /\ ~Outdated(j)
                         THEN [strikes EXCEPT ![ChannelOf[j]].own = @ + 1] ELSE strikes
           /\ UNCHANGED <<now, job, chan, pass, spent>>
<1>1. PICK attempt \in Attempts(j) :
        /\ attempt.end = "error"
        /\ task' = Become(ClaimOf(j), [task[j] EXCEPT !.stage = "refused", !.err = attempt.err])
        /\ copies' = Arrives(j, copies, attempt.copies)
        /\ lost' = Arrives(j, lost, attempt.copies)
        /\ strikes' = IF IsCredentialError(attempt.err) /\ ~Outdated(j)
                      THEN [strikes EXCEPT ![ChannelOf[j]].own = @ + 1] ELSE strikes
        /\ UNCHANGED <<now, job, chan, pass, spent>>
  BY DEF PlatformRefuses
<1>2. attempt.err \in DeliveryError /\ attempt.copies \in {0, 1}
  BY <1>1, AttemptIsSound DEF Sound
<1>3. \A counts \in [Jobs -> Nat] :
        Arrives(j, counts, attempt.copies)
          = [k \in Jobs |-> IF attempt.copies = 1 /\ k \in ClaimOf(j) THEN counts[k] + 1 ELSE counts[k]]
  BY <1>2 DEF Arrives
<1>4. copies \in [Jobs -> Nat] /\ lost \in [Jobs -> Nat]
  BY DEF TypeOK
<1>5. QED
  BY <1>1, <1>2, <1>3, <1>4

-----------------------------------------------------------------------------
(* The classifier *)

\* Whatever the error, the classifier answers with a decision.  It retries only
\* a retryable error, before the deadline, with attempts left, and at a time
\* between now and the deadline.
LEMMA ClassifyMeaning ==
  ASSUME NEW n \in Nat, NEW e \in Nat, NEW t \in Nat, NEW err \in DeliveryError,
         NEW d \in Classify(n, e, t, err)
  PROVE  /\ d \in Decision
         /\ d.kind = "RetryAt" => /\ n < MaxAttempts
                                  /\ IsRetryable(err)
                                  /\ t <= d.at /\ d.at <= e
<1> USE RetryAssumption
<1>1. CASE e <= t
  BY <1>1 DEF Classify, Expire, Decision
<1>2. CASE ~(e <= t) /\ (~IsRetryable(err) \/ Exhausted(n))
  BY <1>2 DEF Classify, Fail, Decision
<1>3. CASE ~(e <= t) /\ ~(~IsRetryable(err) \/ Exhausted(n))
  <2>1. PICK x \in Delays(n, err) : d = Scheduled(t + x, e)
    BY <1>3 DEF Classify
  <2>2. x \in Nat
    BY <2>1 DEF Delays, DeliveryError
  <2>3. n < MaxAttempts
    BY <1>3 DEF Exhausted
  <2>4. CASE t + x > e
    BY <2>1, <2>2, <2>4 DEF Scheduled, Expire, Decision
  <2>5. CASE ~(t + x > e)
    BY <1>3, <2>1, <2>2, <2>3, <2>5 DEF Scheduled, RetryAt, Decision
  <2> QED
    BY <2>4, <2>5
<1> QED
  BY <1>1, <1>2, <1>3
-----------------------------------------------------------------------------
(* Types *)

LEMMA NoErrorType == NoError \in DeliveryError
BY RetryAssumption DEF NoError, DeliveryError, ErrorKinds

LEMMA AtType ==
  ASSUME NEW s \in Stages
  PROVE  At(s) \in Task
BY NoErrorType DEF At, Task

LEMMA NoTaskType == NoTask \in Task
BY AtType DEF NoTask, Stages

LEMMA BecomeType ==
  ASSUME TypeOK, NEW C, NEW t \in Task
  PROVE  Become(C, t) \in [Jobs -> Task]
BY DEF TypeOK, Become

LEMMA BlankType ==
  ASSUME NEW s \in {"absent", "deleted", "pending"}
  PROVE  Blank(s) \in JobRow
BY DEF Blank, JobRow, Waiting, Terminal

LEMMA FreshChannelType ==
  ASSUME NEW n \in Nat
  PROVE  FreshChannel(n) \in ChannelRow
BY DEF FreshChannel, CleanChannel, ChannelRow

\* A strike keeps the type and the pause in step with the counter.
LEMMA StruckType ==
  ASSUME NEW r \in ChannelRow, NEW n \in Nat
  PROVE  Struck(r, n) \in ChannelRow
<1> DEFINE p == r.paused \/ (n > 0 /\ r.failures + n >= AuthPauseThreshold)
<1>1. p \in BOOLEAN /\ r.failures + n \in Nat
  BY DEF ChannelRow
<1> HIDE DEF p
<1>2. [[r EXCEPT !.failures = r.failures + n] EXCEPT !.paused = p] \in ChannelRow
  BY <1>1 DEF ChannelRow
<1> QED
  BY <1>2 DEF Struck, p

LEMMA SweptType ==
  ASSUME TypeOK
  PROVE  Swept \in [Jobs -> JobRow]
<1> SUFFICES ASSUME NEW j \in Jobs PROVE Swept[j] \in JobRow
  BY DEF Swept, Expired
<1>1. job[j] \in JobRow
  BY DEF TypeOK, QueueTypeOK
<1>2. [job[j] EXCEPT !.state = "expired", !.lease = NoLease] \in JobRow
  BY <1>1 DEF JobRow, Terminal
<1> QED
  BY <1>1, <1>2 DEF Swept, Expired

LEMMA LeasedType ==
  ASSUME TypeOK, NEW C, NEW t \in Nat
  PROVE  Leased(C, t) \in [Jobs -> JobRow]
<1> SUFFICES ASSUME NEW j \in Jobs PROVE Leased(C, t)[j] \in JobRow
  BY DEF Leased
<1>1. job[j] \in JobRow /\ t + LeaseDuration \in Nat
  BY QueueAssumption DEF TypeOK, QueueTypeOK
<1>2. [job[j] EXCEPT !.state = "sending", !.lease = t + LeaseDuration] \in JobRow
  BY <1>1 DEF JobRow
<1> QED
  BY <1>1, <1>2 DEF Leased

LEMMA TallyType ==
  ASSUME TypeOK, NEW c \in Channels, NEW t \in Tally
  PROVE  [strikes EXCEPT ![c] = t] \in [Channels -> Tally]
BY DEF TypeOK

LEMMA RecountType ==
  ASSUME TypeOK, NEW c \in Channels, Recount(c)
  PROVE  strikes' \in [Channels -> Tally]
<1>1. [own |-> 0, older |-> IF ChannelBusy(c) THEN 1 ELSE 0] \in Tally
  BY DEF Tally
<1> QED
  BY <1>1, TallyType DEF Recount

\* One field of a row at a time.
LEMMA JobRowField ==
  ASSUME NEW r \in JobRow, NEW n \in Nat,
         NEW s \in {"pending", "retry_wait", "sending", "succeeded", "failed", "expired"}
  PROVE  /\ [r EXCEPT !.state = s] \in JobRow
         /\ [r EXCEPT !.attempts = n] \in JobRow
         /\ [r EXCEPT !.next = n] \in JobRow
         /\ [r EXCEPT !.lease = n] \in JobRow
         /\ [r EXCEPT !.ledger = n] \in JobRow
BY DEF JobRow, Waiting, Terminal

LEMMA JobRowFieldTypes ==
  ASSUME NEW r \in JobRow
  PROVE  /\ r.attempts \in Nat /\ r.next \in Nat /\ r.expires \in Nat
         /\ r.created \in Nat /\ r.lease \in Nat /\ r.ledger \in Nat
BY DEF JobRow

LEMMA CompletedType ==
  ASSUME NEW r \in JobRow
  PROVE  Completed(r) \in JobRow
<1> DEFINE r1 == [r EXCEPT !.state = "succeeded"]
           r2 == [r1 EXCEPT !.attempts = r.attempts + 1]
           r3 == [r2 EXCEPT !.lease = 0]
           r4 == [r3 EXCEPT !.ledger = r.ledger + 1]
<1>1. r.attempts + 1 \in Nat /\ r.ledger + 1 \in Nat
  BY JobRowFieldTypes
<1>2. r1 \in JobRow
  BY JobRowField, 0 \in Nat
<1>3. r2 \in JobRow
  BY <1>1, <1>2, JobRowField DEF r2
<1>4. r3 \in JobRow
  BY <1>3, JobRowField, 0 \in Nat DEF r3
<1>5. r4 \in JobRow
  BY <1>1, <1>4, JobRowField DEF r4
<1> QED
  BY <1>5 DEF Completed, r4

LEMMA AfterFailureType ==
  ASSUME NEW r \in JobRow, NEW d \in Decision
  PROVE  AfterFailure(r, d) \in JobRow
<1> DEFINE r1 == [r EXCEPT !.state = StateAfter(d)]
           r2 == [r1 EXCEPT !.attempts = r.attempts + 1]
           r3 == [r2 EXCEPT !.next = IF d.kind = "RetryAt" THEN d.at ELSE r.next]
           r4 == [r3 EXCEPT !.lease = 0]
           r5 == [r4 EXCEPT !.ledger = r.ledger + 1]
<1>1. StateAfter(d) \in {"retry_wait", "failed", "expired"}
  BY DEF StateAfter, Decision
<1>2. /\ r.attempts + 1 \in Nat /\ r.ledger + 1 \in Nat
      /\ (IF d.kind = "RetryAt" THEN d.at ELSE r.next) \in Nat
  BY JobRowFieldTypes DEF Decision
<1>3. r1 \in JobRow
  BY <1>1, JobRowField, 0 \in Nat
<1> HIDE DEF r1
<1>4. r2 \in JobRow
  BY <1>2, <1>3, JobRowField
<1> HIDE DEF r2
<1>5. r3 \in JobRow
  BY <1>2, <1>4, JobRowField
<1> HIDE DEF r3
<1>6. r4 \in JobRow
  BY <1>5, JobRowField, 0 \in Nat
<1> HIDE DEF r4
<1>7. r5 \in JobRow
  BY <1>2, <1>6, JobRowField
<1> QED
  BY <1>7 DEF AfterFailure, r1, r2, r3, r4, r5

LEMMA ClaimIsFinite ==
  ASSUME NEW C \in SUBSET Jobs
  PROVE  IsFiniteSet(C) /\ Cardinality(C) \in Nat
BY QueueAssumption, FS_Subset, FS_CardinalityType

LEMMA ClaimOfType ==
  ASSUME NEW j \in Jobs
  PROVE  ClaimOf(j) \in SUBSET Jobs
BY DEF ClaimOf

LEMMA ChannelAfterFailureType ==
  ASSUME TypeOK, NEW r \in ChannelRow, NEW C \in SUBSET Jobs, NEW d \in [C -> Decision],
         NEW err \in DeliveryError, NEW last \in C
  PROVE  ChannelAfterFailure(r, C, d, err, last) \in ChannelRow
<1> DEFINE failed == {j \in C : d[j].kind = "Fail"}
           struck == IF err.kind = "Authentication" THEN Struck(r, Cardinality(failed)) ELSE r
           when == Latest(d[last].at, now + Cooldown)
<1>1. Cardinality(failed) \in Nat
  BY ClaimIsFinite
<1>2. struck \in ChannelRow
  BY <1>1, StruckType
<1>3. when \in Nat
  BY QueueAssumption DEF Latest, Decision, TypeOK, QueueTypeOK
<1> HIDE DEF struck, when
<1>4. [struck EXCEPT !.allowed = when] \in ChannelRow
  BY <1>2, <1>3 DEF ChannelRow
<1> QED
  BY <1>2, <1>4 DEF ChannelAfterFailure, struck, when

LEMMA RemovedType ==
  ASSUME TypeOK, NEW S
  PROVE  Removed(S) \in [Jobs -> JobRow]
BY BlankType DEF Removed, TypeOK, QueueTypeOK

LEMMA RetryType ==
  ASSUME TypeOK, NEW C \in SUBSET Jobs, NEW c \in Channels, NEW err \in DeliveryError,
         Retry(C, c, err)
  PROVE  job' \in [Jobs -> JobRow] /\ chan' \in [Channels -> ChannelRow]
<1>1. PICK d \in [C -> UNION {Classify(job[j].attempts, job[j].expires, now, err) : j \in C}] :
        /\ \A j \in C : d[j] \in Classify(job[j].attempts, job[j].expires, now, err)
        /\ job' = [j \in Jobs |-> IF j \in C THEN AfterFailure(job[j], d[j]) ELSE job[j]]
        /\ \E last \in C :
             /\ (\E j \in C : d[j].kind = "RetryAt") => d[last].kind = "RetryAt"
             /\ chan' = [chan EXCEPT ![c] = ChannelAfterFailure(@, C, d, err, last)]
  BY DEF Retry
<1>2. \A j \in C : d[j] \in Decision
  <2> TAKE j \in C
  <2>1. job[j].attempts \in Nat /\ job[j].expires \in Nat /\ now \in Nat
    BY DEF TypeOK, QueueTypeOK, JobRow
  <2> QED
    BY <1>1, <2>1, ClassifyMeaning
<1>3. d \in [C -> Decision]
  BY <1>1, <1>2
<1>4. job' \in [Jobs -> JobRow]
  BY <1>1, <1>2, AfterFailureType DEF TypeOK, QueueTypeOK
<1>5. chan' \in [Channels -> ChannelRow]
  BY <1>1, <1>3, ChannelAfterFailureType DEF TypeOK, QueueTypeOK
<1> QED
  BY <1>4, <1>5

LEMMA InitTypeOK == Init => TypeOK
<1> SUFFICES ASSUME Init PROVE TypeOK
  OBVIOUS
<1>1. QueueTypeOK
  BY BlankType, FreshChannelType, 0 \in Nat DEF Init, QueueInit, QueueTypeOK
<1>2. task \in [Jobs -> Task]
  BY NoTaskType DEF Init
<1>3. pass \in Pass /\ strikes \in [Channels -> Tally]
  BY DEF Init, NoPass, Pass, NoTally, Tally
<1> QED
  BY <1>1, <1>2, <1>3 DEF Init, TypeOK

LEMMA NextTypeOK ==
  ASSUME TypeOK, [Next]_vars
  PROVE  TypeOK'
<1> USE DEF QueueTypeOK
<1>1. CASE Tick
  BY <1>1 DEF Tick, TypeOK, ghosts
<1>0. pass.at \in Nat /\ NoPass \in Pass
  BY DEF TypeOK, Pass, NoPass
<1>2. CASE Sweep
  <2>1. job' \in [Jobs -> JobRow]
    BY <1>2, SweptType DEF Sweep, ExpireDue
  <2>2. pass' \in Pass
    BY <1>2 DEF Sweep, Pass, TypeOK
  <2> QED
    BY <1>2, <2>1, <2>2 DEF Sweep, ExpireDue, TypeOK, ghosts
<1>22. CASE ClaimDue
  <2>1. job' \in [Jobs -> JobRow]
    BY <1>0, <1>22, LeasedType DEF ClaimDue
  <2>2. task' \in [Jobs -> Task]
    BY <1>22, BecomeType, AtType DEF ClaimDue, Stages
  <2> QED
    BY <1>0, <1>22, <2>1, <2>2 DEF ClaimDue, TypeOK, ghosts
<1>23. CASE PassFails
  BY <1>0, <1>23 DEF PassFails, TypeOK, Spend, Bounds
<1>3. CASE Restart
  <2>1. task' \in [Jobs -> Task]
    BY <1>3, NoTaskType DEF Restart
  <2>2. copies' \in [Jobs -> Nat] /\ lost' \in [Jobs -> Nat] /\ spent' \in [Bounds -> Nat]
    BY <1>3 DEF Restart, TypeOK, Spend, Bounds
  <2> QED
    BY <1>0, <1>3, <2>1, <2>2 DEF Restart, TypeOK
<1>4. CASE UserClearsHistory
  BY <1>4, RemovedType DEF UserClearsHistory, ClearHistory, TypeOK, Spend, Bounds
<1>5. CASE Retain
  BY <1>5, RemovedType DEF Retain, Prune, TypeOK, ghosts
<1>6. ASSUME NEW j \in Jobs, Accept(j) PROVE TypeOK'
  <2>1. PICK ttl \in TTLs : Enqueue(j, ttl)
    BY <1>6 DEF Accept
  <2>2. now + ttl \in Nat
    BY QueueAssumption DEF TypeOK
  <2>3. [Blank("pending") EXCEPT !.next = now, !.expires = now + ttl, !.created = now] \in JobRow
    BY <2>2 DEF TypeOK, Blank, JobRow, Waiting
  <2>4. job' \in [Jobs -> JobRow]
    BY <2>1, <2>3 DEF Enqueue, TypeOK
  <2> QED
    BY <1>6, <2>1, <2>4 DEF Accept, Enqueue, TypeOK, ghosts
<1>7. ASSUME NEW j \in Jobs, UserRetries(j) PROVE TypeOK'
  <2> DEFINE r == [job[j] EXCEPT !.state = "pending", !.attempts = 0, !.next = now, !.lease = NoLease]
  <2>1. r \in JobRow
    BY DEF TypeOK, JobRow, Waiting
  <2>2. job' \in [Jobs -> JobRow]
    BY <1>7, <2>1 DEF UserRetries, ManualRetry, TypeOK
  <2>3. [pass EXCEPT !.revived = @ \cup {j}] \in Pass
    BY DEF TypeOK, Pass
  <2>4. pass' \in Pass
    BY <1>7, <2>3 DEF UserRetries, TypeOK
  <2> QED
    BY <1>7, <2>2, <2>4 DEF UserRetries, ManualRetry, TypeOK, Spend, Bounds
<1>8. ASSUME NEW j \in Jobs, TaskFails(j) PROVE TypeOK'
  <2>1. task' \in [Jobs -> Task] /\ lost' \in [Jobs -> Nat]
    BY <1>8, BecomeType, NoTaskType DEF TaskFails, Abandon, TypeOK
  <2> QED
    BY <1>8, <2>1 DEF TaskFails, TypeOK, Spend, Bounds
<1>9. ASSUME NEW j \in Jobs PROVE AfterRefusal(j) \in Task
  <2>1. [task[j] EXCEPT !.stage = "striking"] \in Task
    BY DEF TypeOK, Task, Stages
  <2> QED
    BY <2>1, NoTaskType DEF AfterRefusal
<1>10. ASSUME NEW j \in Jobs, RetryNotRecorded(j) PROVE TypeOK'
  <2>1. task' \in [Jobs -> Task]
    BY <1>9, <1>10, BecomeType DEF RetryNotRecorded
  <2> QED
    BY <1>10, <2>1 DEF RetryNotRecorded, TypeOK, Spend, Bounds
<1>11. ASSUME NEW j \in Jobs, Admit(j) PROVE TypeOK'
  <2>1. task' \in [Jobs -> Task]
    BY <1>11, BecomeType, AtType DEF Admit, Stages
  <2> QED
    BY <1>11, <2>1 DEF Admit, TypeOK, ghosts
<1>12. ASSUME NEW j \in Jobs, Post(j) PROVE TypeOK'
  <2>1. chan[ChannelOf[j]].cred \in Nat
    BY QueueAssumption DEF TypeOK, ChannelRow
  <2>2. [At("posting") EXCEPT !.cred = chan[ChannelOf[j]].cred] \in Task
    BY <2>1, AtType DEF Task, Stages
  <2>3. task' \in [Jobs -> Task]
    BY <1>12, <2>2, BecomeType, NoTaskType DEF Post, SendFrom
  <2> QED
    BY <1>12, <2>3 DEF Post, SendFrom, TypeOK, ghosts
<1>13. ASSUME NEW j \in Jobs, PlatformAccepts(j) PROVE TypeOK'
  <2>1. [task[j] EXCEPT !.stage = "accepted"] \in Task
    BY DEF TypeOK, Task, Stages
  <2>2. task' \in [Jobs -> Task]
    BY <1>13, <2>1, BecomeType DEF PlatformAccepts
  <2>3. copies' \in [Jobs -> Nat]
    BY <1>13, AcceptedOnce DEF TypeOK
  <2> QED
    BY <1>13, <2>2, <2>3 DEF PlatformAccepts, TypeOK
<1>14. ASSUME NEW j \in Jobs, PlatformRefuses(j) PROVE TypeOK'
  <2>1. PICK err \in DeliveryError, taken \in BOOLEAN :
          /\ task' = Become(ClaimOf(j), [task[j] EXCEPT !.stage = "refused", !.err = err])
          /\ copies' = [k \in Jobs |-> IF taken /\ k \in ClaimOf(j) THEN copies[k] + 1 ELSE copies[k]]
          /\ lost' = [k \in Jobs |-> IF taken /\ k \in ClaimOf(j) THEN lost[k] + 1 ELSE lost[k]]
          /\ strikes' = IF IsCredentialError(err) /\ ~Outdated(j)
                        THEN [strikes EXCEPT ![ChannelOf[j]].own = @ + 1] ELSE strikes
          /\ UNCHANGED <<now, job, chan, pass, spent>>
    BY <1>14, RefusedWithError
  <2>3. [task[j] EXCEPT !.stage = "refused", !.err = err] \in Task
    BY DEF TypeOK, Task, Stages
  <2>4. task' \in [Jobs -> Task]
    BY <2>1, <2>3, BecomeType
  <2>5. copies' \in [Jobs -> Nat] /\ lost' \in [Jobs -> Nat]
    BY <2>1 DEF TypeOK
  <2>6. strikes' \in [Channels -> Tally]
    <3>1. ChannelOf[j] \in Channels /\ strikes[ChannelOf[j]] \in Tally
      BY QueueAssumption DEF TypeOK
    <3>2. [strikes[ChannelOf[j]] EXCEPT !.own = @ + 1] \in Tally
      BY <3>1 DEF Tally
    <3> QED
      BY <2>1, <3>1, <3>2 DEF TypeOK
  <2> QED
    BY <2>1, <2>4, <2>5, <2>6 DEF TypeOK
<1>15. ASSUME NEW j \in Jobs, RecordSuccess(j) PROVE TypeOK'
  <2>1. CASE Complete(ClaimOf(j)) /\ task' = Become(ClaimOf(j), [task[j] EXCEPT !.stage = "healing"])
             /\ UNCHANGED lost
    <3>1. [task[j] EXCEPT !.stage = "healing"] \in Task
      BY DEF TypeOK, Task, Stages
    <3>2. task' \in [Jobs -> Task]
      BY <2>1, <3>1, BecomeType
    <3>3. job' \in [Jobs -> JobRow]
      BY <2>1, CompletedType DEF Complete, TypeOK
    <3> QED
      BY <1>15, <2>1, <3>2, <3>3 DEF RecordSuccess, RecordSuccessAt, Complete, TypeOK
  <2>2. CASE Abandon(ClaimOf(j)) /\ UNCHANGED <<now, job, chan>>
    <3>1. task' \in [Jobs -> Task] /\ lost' \in [Jobs -> Nat]
      BY <2>2, BecomeType, NoTaskType DEF Abandon, TypeOK
    <3> QED
      BY <1>15, <2>2, <3>1 DEF RecordSuccess, RecordSuccessAt, TypeOK
  <2> QED
    BY <1>15, <2>1, <2>2 DEF RecordSuccess, RecordSuccessAt
<1>16. ASSUME NEW j \in Jobs, HealChannel(j) PROVE TypeOK'
  <2>1. ASSUME NEW r \in ChannelRow PROVE Healed(r) \in ChannelRow
    BY DEF Healed, ChannelRow
  <2>2. chan' \in [Channels -> ChannelRow]
    BY <1>16, <2>1 DEF HealChannel, ResetAuthFailures, TypeOK
  <2>3. task' \in [Jobs -> Task]
    BY <1>16, BecomeType, NoTaskType DEF HealChannel
  <2>4. strikes' \in [Channels -> Tally]
    BY <1>16, TallyType, QueueAssumption DEF HealChannel, NoTally, Tally
  <2> QED
    BY <1>16, <2>2, <2>3, <2>4 DEF HealChannel, ResetAuthFailures, TypeOK
<1>17. ASSUME NEW j \in Jobs, RecordFailure(j) PROVE TypeOK'
  <2>1. task[j].err \in DeliveryError /\ ChannelOf[j] \in Channels
    BY QueueAssumption DEF TypeOK, Task
  <2>2. now' = now
    BY <1>17 DEF RecordFailure, Retry
  <2>3. job' \in [Jobs -> JobRow] /\ chan' \in [Channels -> ChannelRow]
    BY <1>17, <2>1, RetryType, ClaimOfType DEF RecordFailure, TypeOK
  <2>4. task' \in [Jobs -> Task]
    BY <1>9, <1>17, BecomeType DEF RecordFailure
  <2> QED
    BY <1>17, <2>2, <2>3, <2>4 DEF RecordFailure, TypeOK, ghosts
<1>18. ASSUME NEW j \in Jobs, StrikeChannel(j) PROVE TypeOK'
  <2>1. chan' \in [Channels -> ChannelRow]
    BY <1>18, StruckType DEF StrikeChannel, BumpAuthFailure, TypeOK
  <2>2. task' \in [Jobs -> Task]
    BY <1>18, BecomeType, NoTaskType DEF StrikeChannel
  <2> QED
    BY <1>18, <2>1, <2>2 DEF StrikeChannel, BumpAuthFailure, TypeOK, ghosts
<1>19. ASSUME NEW c \in Channels, UserSavesChannel(c) PROVE TypeOK'
  <2>1. chan[c].cred + 1 \in Nat
    BY DEF TypeOK, ChannelRow
  <2>2. chan' \in [Channels -> ChannelRow]
    BY <1>19, <2>1, FreshChannelType DEF UserSavesChannel, SaveChannel, TypeOK
  <2>3. strikes' \in [Channels -> Tally]
    BY <1>19, RecountType DEF UserSavesChannel
  <2> QED
    BY <1>19, <2>2, <2>3 DEF UserSavesChannel, SaveChannel, TypeOK, Spend, Bounds
<1>20. ASSUME NEW c \in Channels, UserDeletesChannel(c) PROVE TypeOK'
  <2>1. chan[c].cred \in Nat
    BY DEF TypeOK, ChannelRow
  <2>2. CleanChannel(FALSE, chan[c].cred) \in ChannelRow
    BY <2>1 DEF CleanChannel, ChannelRow
  <2>3. chan' \in [Channels -> ChannelRow]
    BY <1>20, <2>2 DEF UserDeletesChannel, DeleteChannel, TypeOK
  <2>4. job' \in [Jobs -> JobRow]
    BY <1>20, RemovedType DEF UserDeletesChannel, DeleteChannel
  <2> QED
    <3>1. now' = now
      BY <1>20 DEF UserDeletesChannel, DeleteChannel
    <3>2. strikes' \in [Channels -> Tally] /\ spent' \in [Bounds -> Nat]
      BY <1>20, RecountType DEF UserDeletesChannel, TypeOK, Spend, Bounds
    <3> QED
      BY <1>20, <2>3, <2>4, <3>1, <3>2 DEF UserDeletesChannel, TypeOK
<1>21. CASE UNCHANGED vars
  BY <1>21 DEF vars, TypeOK
<1> QED
  BY <1>1, <1>2, <1>3, <1>4, <1>5, <1>6, <1>7, <1>8, <1>10, <1>11, <1>12, <1>13, <1>14,
     <1>15, <1>16, <1>17, <1>18, <1>19, <1>20, <1>21, <1>22, <1>23 DEF Next, TaskStep

\* Every reachable state is well typed: the rows of both tables, the tasks of
\* the pass and the counters keep their shape through every transaction.
THEOREM TypeCorrect == Spec => []TypeOK
<1>1. TypeOK /\ [Next]_vars => TypeOK'
  BY NextTypeOK
<1> QED
  BY InitTypeOK, <1>1, PTL DEF Spec

-----------------------------------------------------------------------------
(* Rows: what each transaction makes of one *)

\* The sweep changes nothing but waiting rows past their deadline.
LEMMA SweptRow ==
  ASSUME TypeOK, NEW j \in Jobs
  PROVE  \/ /\ Swept[j] = job[j]
            /\ job[j].state \in Waiting => now < job[j].expires
         \/ /\ job[j].state \in Waiting
            /\ Swept[j] = [job[j] EXCEPT !.state = "expired", !.lease = NoLease]
<1>1. now \in Nat /\ job[j].expires \in Nat
  BY DEF TypeOK, QueueTypeOK, JobRow
<1> QED
  BY <1>1 DEF Swept, Expired

\* A pass claims waiting rows, and rows whose lease ran out.
LEMMA ClaimedRow ==
  ASSUME NEW t, NEW S, NEW B, Claims(S, B, t), NEW j \in ClaimedJobs(S, B, t)
  PROVE  j \in Jobs /\ Claimable(job[j], t)
<1>1. S \subseteq DueSingles(t)
  BY DEF Claims, IsFirst
<1>2. j \in S \/ \E b \in B : j \in BucketMembers(b, t)
  BY DEF ClaimedJobs
<1> QED
  BY <1>1, <1>2 DEF DueSingles, BucketMembers

LEMMA BlankRow ==
  ASSUME NEW s \in {"absent", "deleted"}
  PROVE  RowOK(Blank(s))
BY RetryAssumption DEF RowOK, Blank, Waiting

LEMMA CompletedRow ==
  ASSUME NEW r \in JobRow, RowOK(r), r.state = "sending"
  PROVE  RowOK(Completed(r)) /\ Completed(r).state = "succeeded"
<1>1. /\ Completed(r).state = "succeeded" /\ Completed(r).lease = 0
      /\ Completed(r).attempts = r.attempts + 1 /\ Completed(r).ledger = r.ledger + 1
  BY DEF Completed, JobRow
<1>2. r.attempts \in Nat /\ r.ledger \in Nat
  BY JobRowFieldTypes
<1> QED
  BY <1>1, <1>2, RetryAssumption DEF RowOK, Waiting

LEMMA AfterFailureRow ==
  ASSUME NEW r \in JobRow, RowOK(r), r.state = "sending", NEW t \in Nat,
         NEW err \in DeliveryError, NEW d \in Classify(r.attempts, r.expires, t, err)
  PROVE  /\ RowOK(AfterFailure(r, d))
         /\ AfterFailure(r, d).state \in {"retry_wait", "failed", "expired"}
<1>1. r.attempts \in Nat /\ r.ledger \in Nat /\ r.expires \in Nat /\ r.next \in Nat
  BY JobRowFieldTypes
<1>2. /\ d \in Decision
      /\ d.kind = "RetryAt" => r.attempts < MaxAttempts /\ d.at <= r.expires
  BY <1>1, ClassifyMeaning
<1>3. /\ StateAfter(d) \in {"retry_wait", "failed", "expired"}
      /\ StateAfter(d) = "retry_wait" => d.kind = "RetryAt"
  BY <1>2 DEF StateAfter, Decision
<1>4. /\ AfterFailure(r, d).state = StateAfter(d)
      /\ AfterFailure(r, d).attempts = r.attempts + 1
      /\ AfterFailure(r, d).next = IF d.kind = "RetryAt" THEN d.at ELSE r.next
      /\ AfterFailure(r, d).expires = r.expires
      /\ AfterFailure(r, d).lease = 0
      /\ AfterFailure(r, d).ledger = r.ledger + 1
  BY DEF AfterFailure, JobRow
<1>5. d.at \in Nat
  BY <1>2 DEF Decision
<1> QED
  BY <1>1, <1>2, <1>3, <1>4, <1>5, RetryAssumption DEF RowOK, Waiting

LEMMA RemovedRow ==
  ASSUME NEW S, NEW j \in Jobs
  PROVE  \/ Removed(S)[j] = job[j]
         \/ Present(j) /\ Removed(S)[j] = Blank("deleted")
BY DEF Removed

\* What a sweep makes of a row.
LEMMA SweepRow ==
  ASSUME TypeOK, Sweep, NEW j \in Jobs
  PROVE  \/ /\ job'[j] = job[j]
            /\ job[j].state \in Waiting => now < job[j].expires
         \/ /\ job[j].state \in Waiting
            /\ job'[j] = [job[j] EXCEPT !.state = "expired", !.lease = NoLease]
BY SweptRow DEF Sweep, ExpireDue

\* What a claim makes of a row.
LEMMA ClaimRow ==
  ASSUME TypeOK, ClaimDue, NEW j \in Jobs
  PROVE  \/ /\ job'[j] = job[j] /\ task'[j] = task[j]
         \/ /\ job[j].state \in Waiting \cup {"sending"}
            /\ job'[j] = [job[j] EXCEPT !.state = "sending", !.lease = pass.at + LeaseDuration]
            /\ task'[j] = At("queued")
<1>1. PICK S, B : LET C == ClaimedJobs(S, B, pass.at)
                  IN  /\ Claims(S, B, pass.at)
                      /\ job' = Leased(C, pass.at)
                      /\ task' = Become(C, At("queued"))
  BY DEF ClaimDue
<1> DEFINE C == ClaimedJobs(S, B, pass.at)
<1>2. CASE j \in C
  <2>1. Claimable(job[j], pass.at)
    BY <1>1, <1>2, ClaimedRow
  <2>2. job'[j] = [job[j] EXCEPT !.state = "sending", !.lease = pass.at + LeaseDuration]
    BY <1>1, <1>2 DEF Leased
  <2>3. task'[j] = At("queued")
    BY <1>1, <1>2 DEF Become
  <2> QED
    BY <2>1, <2>2, <2>3 DEF Claimable
<1>3. CASE j \notin C
  BY <1>1, <1>3 DEF Leased, Become
<1> QED
  BY <1>2, <1>3

LEMMA InitRowsOK == Init => RowsOK
BY BlankRow DEF Init, QueueInit, RowsOK

LEMMA NextRowsOK ==
  ASSUME TypeOK, RowsOK, [Next]_vars
  PROVE  RowsOK'
<1> SUFFICES ASSUME NEW k \in Jobs PROVE RowOK(job'[k])
  BY DEF RowsOK
<1>0. /\ job[k] \in JobRow /\ RowOK(job[k]) /\ now \in Nat
      /\ job[k].lease \in Nat /\ job[k].attempts \in Nat /\ job[k].ledger \in Nat
  BY JobRowFieldTypes DEF TypeOK, QueueTypeOK, RowsOK
<1>1. CASE Sweep
  <2>1. CASE job'[k] = job[k]
    BY <1>0, <2>1
  <2>2. CASE /\ job[k].state \in Waiting
             /\ job'[k] = [job[k] EXCEPT !.state = "expired", !.lease = NoLease]
    BY <1>0, <2>2 DEF RowOK, Waiting, JobRow
  <2> QED
    BY <1>1, <2>1, <2>2, SweepRow
<1>10. CASE ClaimDue
  <2>1. CASE job'[k] = job[k]
    BY <1>0, <2>1
  <2>2. CASE /\ job[k].state \in Waiting \cup {"sending"}
             /\ job'[k] = [job[k] EXCEPT !.state = "sending", !.lease = pass.at + LeaseDuration]
    <3>1. /\ job'[k].state = "sending" /\ job'[k].lease = pass.at + LeaseDuration
          /\ job'[k].attempts = job[k].attempts /\ job'[k].ledger = job[k].ledger
      BY <1>0, <2>2 DEF JobRow
    <3>2. pass.at \in Nat
      BY DEF TypeOK, Pass
    <3> QED
      BY <1>0, <2>2, <3>1, <3>2, QueueAssumption DEF RowOK, Waiting
  <2> QED
    BY <1>10, <2>1, <2>2, ClaimRow
<1>2. ASSUME NEW S, job' = Removed(S) PROVE RowOK(job'[k])
  BY <1>0, <1>2, RemovedRow, BlankRow
<1>3. CASE UserClearsHistory \/ Retain \/ \E c \in Channels : UserDeletesChannel(c)
  <2>1. PICK S : job' = Removed(S)
    BY <1>3 DEF UserClearsHistory, ClearHistory, Retain, Prune, UserDeletesChannel, DeleteChannel
  <2> QED
    BY <1>2, <2>1
<1>4. ASSUME NEW j \in Jobs, Accept(j) PROVE RowOK(job'[k])
  <2>1. PICK ttl \in TTLs : job' = [job EXCEPT ![j] =
           [Blank("pending") EXCEPT !.next = now, !.expires = now + ttl, !.created = now]]
    BY <1>4 DEF Accept, Enqueue
  <2>2. RowOK([Blank("pending") EXCEPT !.next = now, !.expires = now + ttl, !.created = now])
    BY RetryAssumption DEF RowOK, Blank, Waiting
  <2> QED
    BY <1>0, <2>1, <2>2 DEF TypeOK, QueueTypeOK
<1>5. ASSUME NEW j \in Jobs, UserRetries(j) PROVE RowOK(job'[k])
  <2>1. job' = [job EXCEPT ![j] =
           [@ EXCEPT !.state = "pending", !.attempts = 0, !.next = now, !.lease = NoLease]]
    BY <1>5 DEF UserRetries, ManualRetry
  <2>2. CASE k = j
    <3>1. /\ job'[k].state = "pending" /\ job'[k].attempts = 0 /\ job'[k].lease = 0
          /\ job'[k].ledger = job[k].ledger
      BY <1>0, <2>1, <2>2 DEF TypeOK, QueueTypeOK, JobRow
    <3> QED
      BY <1>0, <3>1, RetryAssumption DEF RowOK, Waiting
  <2> QED
    BY <1>0, <2>1, <2>2 DEF TypeOK, QueueTypeOK
<1>6. ASSUME NEW j \in Jobs, RecordSuccess(j) PROVE RowOK(job'[k])
  <2>1. CASE Complete(ClaimOf(j))
    BY <1>0, <2>1, CompletedRow DEF Complete, AllSending
  <2> QED
    BY <1>0, <1>6, <2>1 DEF RecordSuccess, RecordSuccessAt
<1>7. ASSUME NEW j \in Jobs, RecordFailure(j) PROVE RowOK(job'[k])
  <2>1. CASE Retry(ClaimOf(j), ChannelOf[j], task[j].err)
    <3>1. task[j].err \in DeliveryError
      BY DEF TypeOK, Task
    <3>2. k \notin ClaimOf(j) => job'[k] = job[k]
      BY <2>1 DEF Retry
    <3>3. k \in ClaimOf(j) =>
            /\ job[k].state = "sending"
            /\ \E d \in Classify(job[k].attempts, job[k].expires, now, task[j].err) :
                 job'[k] = AfterFailure(job[k], d)
      BY <2>1 DEF Retry, AllSending
    <3> QED
      BY <1>0, <3>1, <3>2, <3>3, AfterFailureRow
  <2> QED
    BY <1>0, <1>7, <2>1 DEF RecordFailure
<1>8. CASE UNCHANGED job
  BY <1>0, <1>8
<1>9. CASE \/ Tick \/ PassFails \/ Restart \/ UNCHANGED vars
           \/ \E j \in Jobs : TaskFails(j) \/ RetryNotRecorded(j)
           \/ \E j \in Jobs : \/ Admit(j) \/ Post(j) \/ PlatformAccepts(j) \/ PlatformRefuses(j)
                              \/ HealChannel(j) \/ StrikeChannel(j)
           \/ \E c \in Channels : UserSavesChannel(c)
  BY <1>8, <1>9 DEF Tick, PassFails, Restart, vars, TaskFails, RetryNotRecorded, Admit, Post, SendFrom,
     PlatformAccepts, PlatformRefuses, HealChannel, ResetAuthFailures, StrikeChannel,
     BumpAuthFailure, UserSavesChannel, SaveChannel
<1> QED
  BY <1>1, <1>3, <1>4, <1>5, <1>6, <1>7, <1>9, <1>10 DEF Next, TaskStep

-----------------------------------------------------------------------------
(* Channels: the pause and its counter *)

InStep(r) == r.paused <=> r.failures >= AuthPauseThreshold

LEMMA CleanInStep ==
  ASSUME NEW e, NEW n
  PROVE  InStep(CleanChannel(e, n))
BY QueueAssumption DEF InStep, CleanChannel

LEMMA StruckInStep ==
  ASSUME NEW r \in ChannelRow, InStep(r), NEW n \in Nat
  PROVE  InStep(Struck(r, n))
<1> DEFINE p == r.paused \/ (n > 0 /\ r.failures + n >= AuthPauseThreshold)
           s == [[r EXCEPT !.failures = r.failures + n] EXCEPT !.paused = p]
<1>1. r.failures \in Nat /\ r.paused \in BOOLEAN
  BY DEF ChannelRow
<1>2. p <=> r.failures + n >= AuthPauseThreshold
  BY <1>1, QueueAssumption DEF InStep
<1> HIDE DEF p
<1>3. s.failures = r.failures + n
  BY DEF ChannelRow
<1>4. s.paused = p
  BY DEF ChannelRow
<1>5. InStep(s)
  BY <1>2, <1>3, <1>4 DEF InStep
<1> QED
  BY <1>5 DEF Struck, p

LEMMA AfterFailureInStep ==
  ASSUME NEW r \in ChannelRow, InStep(r), NEW C \in SUBSET Jobs, NEW d, NEW err, NEW last
  PROVE  InStep(ChannelAfterFailure(r, C, d, err, last))
<1> DEFINE failed == {j \in C : d[j].kind = "Fail"}
           struck == IF err.kind = "Authentication" THEN Struck(r, Cardinality(failed)) ELSE r
           when == Latest(d[last].at, now + Cooldown)
<1>1. Cardinality(failed) \in Nat
  BY ClaimIsFinite
<1>2. struck \in ChannelRow /\ InStep(struck)
  BY <1>1, StruckType, StruckInStep
<1> HIDE DEF struck, when
<1>3. /\ [struck EXCEPT !.allowed = when].failures = struck.failures
      /\ [struck EXCEPT !.allowed = when].paused = struck.paused
  BY <1>2 DEF ChannelRow
<1>4. InStep([struck EXCEPT !.allowed = when])
  BY <1>2, <1>3 DEF InStep
<1> QED
  BY <1>2, <1>4 DEF ChannelAfterFailure, struck, when

LEMMA InitPausedAtThreshold == Init => PausedAtThreshold
<1> SUFFICES ASSUME Init, NEW c \in Channels PROVE InStep(chan[c])
  BY DEF PausedAtThreshold, InStep
<1>1. chan[c] = CleanChannel(TRUE, 0)
  BY DEF Init, QueueInit, FreshChannel
<1> QED
  BY <1>1, CleanInStep

LEMMA NextPausedAtThreshold ==
  ASSUME TypeOK, PausedAtThreshold, [Next]_vars
  PROVE  PausedAtThreshold'
<1> SUFFICES ASSUME NEW c \in Channels PROVE InStep(chan'[c])
  BY DEF PausedAtThreshold, InStep
<1>0. /\ chan[c] \in ChannelRow /\ InStep(chan[c])
      /\ chan \in [Channels -> ChannelRow]
  BY DEF TypeOK, QueueTypeOK, PausedAtThreshold, InStep
<1>1. ASSUME NEW j \in Jobs, RecordFailure(j) PROVE InStep(chan'[c])
  <2>1. CASE Retry(ClaimOf(j), ChannelOf[j], task[j].err)
    <3>1. \E d, last : chan' = [chan EXCEPT ![ChannelOf[j]] =
                                  ChannelAfterFailure(@, ClaimOf(j), d, task[j].err, last)]
      BY <2>1 DEF Retry
    <3> QED
      BY <1>0, <3>1, ClaimOfType, AfterFailureInStep
  <2> QED
    BY <1>0, <1>1, <2>1 DEF RecordFailure
<1>2. ASSUME NEW j \in Jobs, StrikeChannel(j) PROVE InStep(chan'[c])
  BY <1>0, <1>2, StruckInStep DEF StrikeChannel, BumpAuthFailure
<1>3. ASSUME NEW j \in Jobs, HealChannel(j) PROVE InStep(chan'[c])
  <2>1. InStep(Healed(chan[c]))
    BY <1>0, QueueAssumption DEF Healed, InStep, ChannelRow
  <2> QED
    BY <1>0, <1>3, <2>1 DEF HealChannel, ResetAuthFailures
<1>4. CASE \E e \in Channels : UserSavesChannel(e) \/ UserDeletesChannel(e)
  <2>1. \E e \in Channels : \E x, n : chan' = [chan EXCEPT ![e] = CleanChannel(x, n)]
    BY <1>4 DEF UserSavesChannel, SaveChannel, FreshChannel, UserDeletesChannel, DeleteChannel
  <2> QED
    BY <1>0, <2>1, CleanInStep
<1>5. CASE UNCHANGED chan
  BY <1>0, <1>5
<1>6. CASE \/ Tick \/ Sweep \/ ClaimDue \/ PassFails \/ Restart \/ UserClearsHistory \/ Retain \/ UNCHANGED vars
           \/ \E j \in Jobs : Accept(j) \/ UserRetries(j) \/ TaskFails(j) \/ RetryNotRecorded(j)
           \/ \E j \in Jobs : \/ Admit(j) \/ Post(j) \/ PlatformAccepts(j) \/ PlatformRefuses(j)
                              \/ RecordSuccess(j)
  BY <1>5, <1>6 DEF Tick, Sweep, ExpireDue, ClaimDue, PassFails, Restart, UserClearsHistory, ClearHistory, Retain, Prune,
     vars, Accept, Enqueue, UserRetries, ManualRetry, TaskFails, RetryNotRecorded, Admit, Post,
     SendFrom, PlatformAccepts, PlatformRefuses, RecordSuccess, RecordSuccessAt, Complete
<1> QED
  BY <1>1, <1>2, <1>3, <1>4, <1>6 DEF Next, TaskStep

-----------------------------------------------------------------------------
(* Tasks, their rows, and the copies at the platform *)

\* TaskOwnsItsRow and Accounted say this of every job.
JobOK(state, stage, c, l) ==
  /\ stage \in Unsent \cup {"accepted"} => state \in {"sending", "deleted"}
  /\ c = l \/ c = l + 1
  /\ state = "succeeded" \/ stage = "accepted" => c = l + 1
  /\ stage \in Unsent => c = l
  /\ state \notin {"succeeded", "deleted"} /\ stage # "accepted" => c = l

JobsOK == \A k \in Jobs : JobOK(job[k].state, Stage(k), copies[k], lost[k])

LEMMA JobsOKMeaning == JobsOK <=> TaskOwnsItsRow /\ Accounted
BY DEF JobsOK, JobOK, TaskOwnsItsRow, Accounted, Unsent

\* The members of a claim share its task.
LEMMA ClaimTasks ==
  ASSUME OneTaskPerBucket, NEW j \in Jobs, InFlight(j)
  PROVE  j \in ClaimOf(j) /\ \A k \in ClaimOf(j) : k \in Jobs /\ task[k] = task[j]
BY DEF OneTaskPerBucket, ClaimOf

\* A step that moves a whole claim to another task keeps the buckets together.
LEMMA BecomeKeepsBuckets ==
  ASSUME OneTaskPerBucket, TypeOK, NEW j \in Jobs, InFlight(j), NEW t \in Task,
         task' = Become(ClaimOf(j), t)
  PROVE  OneTaskPerBucket'
<1> SUFFICES ASSUME NEW k \in Jobs, NEW l \in Jobs,
                    BucketOf[k] = BucketOf[l], BucketOf[k] # NoBucket,
                    InFlight(k)', InFlight(l)'
             PROVE  task'[k] = task'[l]
  BY DEF OneTaskPerBucket
<1>1. \A i \in Jobs : task'[i] = IF i \in ClaimOf(j) THEN t ELSE task[i]
  BY DEF Become
<1>2. \A i \in Jobs : i \notin ClaimOf(j) /\ InFlight(i)' => InFlight(i)
  BY <1>1 DEF InFlight, Stage
<1>3. CASE k \in ClaimOf(j) /\ l \in ClaimOf(j)
  BY <1>1, <1>3
<1>4. CASE k \notin ClaimOf(j) /\ l \notin ClaimOf(j)
  BY <1>1, <1>2, <1>4 DEF OneTaskPerBucket
<1>5. ASSUME NEW a \in Jobs, NEW b \in Jobs, BucketOf[a] = BucketOf[b],
             BucketOf[a] # NoBucket, a \in ClaimOf(j), b \notin ClaimOf(j), InFlight(b)'
      PROVE  FALSE
  BY <1>2, <1>5 DEF ClaimOf
<1> QED
  BY <1>3, <1>4, <1>5

\* A pass gives all it claims the same task; every other step moves whole claims.
LEMMA NextOneTaskPerBucket ==
  ASSUME TypeOK, OneTaskPerBucket, PassIsQuiet, [Next]_vars
  PROVE  OneTaskPerBucket'
<1>1. CASE ClaimDue
  <2> SUFFICES ASSUME NEW k \in Jobs, InFlight(k)' PROVE task'[k] = At("queued")
    BY DEF OneTaskPerBucket
  <2>1. Resting
    BY <1>1 DEF ClaimDue, PassIsQuiet
  <2> QED
    BY <1>1, <2>1, ClaimRow DEF Resting, InFlight, Stage
<1>2. CASE Restart
  BY <1>2 DEF Restart, OneTaskPerBucket, InFlight, Stage, NoTask, At
<1>3. ASSUME NEW j \in Jobs, InFlight(j), \E t \in Task : task' = Become(ClaimOf(j), t)
      PROVE  OneTaskPerBucket'
  BY <1>3, BecomeKeepsBuckets
<1>4. ASSUME NEW j \in Jobs,
             \/ TaskFails(j) \/ RetryNotRecorded(j) \/ Admit(j) \/ Post(j)
             \/ PlatformAccepts(j) \/ PlatformRefuses(j) \/ RecordSuccess(j)
             \/ HealChannel(j) \/ RecordFailure(j) \/ StrikeChannel(j)
      PROVE  OneTaskPerBucket'
  <2>1. InFlight(j)
    BY <1>4 DEF InFlight, TaskFails, RetryNotRecorded, Admit, Post, SendFrom, PlatformAccepts,
       PlatformRefuses, RecordSuccess, RecordSuccessAt, HealChannel, RecordFailure, StrikeChannel
  <2>2. \E t : task' = Become(ClaimOf(j), t)
    BY <1>4 DEF TaskFails, RetryNotRecorded, Admit, Post, SendFrom, PlatformAccepts, Abandon,
       PlatformRefuses, RecordSuccess, RecordSuccessAt, HealChannel, RecordFailure, StrikeChannel
  <2>3. PICK t : task' = Become(ClaimOf(j), t)
    BY <2>2
  <2>4. t \in Task
    <3>1. task'[j] = t
      BY <2>1, <2>3, ClaimTasks DEF Become
    <3>2. task' \in [Jobs -> Task]
      BY NextTypeOK DEF TypeOK
    <3> QED
      BY <3>1, <3>2
  <2> QED
    BY <1>3, <2>1, <2>3, <2>4
<1>5. CASE UNCHANGED task
  BY <1>5 DEF OneTaskPerBucket, InFlight, Stage
<1>6. CASE \/ Tick \/ Sweep \/ PassFails \/ UserClearsHistory \/ Retain \/ UNCHANGED vars
           \/ \E j \in Jobs : Accept(j) \/ UserRetries(j)
           \/ \E c \in Channels : UserSavesChannel(c) \/ UserDeletesChannel(c)
  BY <1>5, <1>6 DEF Tick, Sweep, PassFails, UserClearsHistory, Retain, vars, Accept, UserRetries,
     UserSavesChannel, UserDeletesChannel
<1> QED
  BY <1>1, <1>2, <1>4, <1>6 DEF Next, TaskStep

\* Only a pass with nothing in flight opens, and only a claim, which closes it,
\* puts tasks in flight.
LEMMA NextPassIsQuiet ==
  ASSUME PassIsQuiet, [Next]_vars
  PROVE  PassIsQuiet'
<1>1. CASE Sweep
  BY <1>1 DEF Sweep, PassIsQuiet, Resting, InFlight, Stage
<1>2. CASE ClaimDue \/ PassFails \/ Restart
  BY <1>2 DEF ClaimDue, PassFails, Restart, PassIsQuiet, NoPass
<1>3. ASSUME NEW j \in Jobs, InFlight(j), UNCHANGED pass PROVE PassIsQuiet'
  BY <1>3 DEF PassIsQuiet, Resting
<1>4. CASE \E j \in Jobs : TaskFails(j) \/ RetryNotRecorded(j) \/ TaskStep(j)
  BY <1>3, <1>4 DEF InFlight, TaskStep, TaskFails, RetryNotRecorded, Admit, Post, SendFrom,
     PlatformAccepts, PlatformRefuses, RecordSuccess, RecordSuccessAt, HealChannel, RecordFailure,
     StrikeChannel
<1>5. ASSUME pass'.open = pass.open, UNCHANGED task PROVE PassIsQuiet'
  BY <1>5 DEF PassIsQuiet, Resting, InFlight, Stage
<1>6. CASE \/ Tick \/ UserClearsHistory \/ Retain \/ UNCHANGED vars
           \/ \E j \in Jobs : Accept(j)
           \/ \E c \in Channels : UserSavesChannel(c) \/ UserDeletesChannel(c)
  BY <1>5, <1>6 DEF Tick, UserClearsHistory, Retain, vars, Accept, UserSavesChannel,
     UserDeletesChannel
<1>7. ASSUME NEW j \in Jobs, UserRetries(j) PROVE PassIsQuiet'
  BY <1>5, <1>7 DEF UserRetries, PassIsQuiet, Resting, InFlight, Stage
<1> QED
  BY <1>1, <1>2, <1>4, <1>6, <1>7 DEF Next

LEMMA NextJobsOK ==
  ASSUME TypeOK, OneTaskPerBucket, PassIsQuiet, JobsOK, [Next]_vars
  PROVE  JobsOK'
<1> SUFFICES ASSUME NEW k \in Jobs
             PROVE  JobOK(job'[k].state, task'[k].stage, copies'[k], lost'[k])
  BY DEF JobsOK, Stage
<1>0. /\ JobOK(job[k].state, task[k].stage, copies[k], lost[k])
      /\ job[k] \in JobRow /\ task[k] \in Task /\ copies[k] \in Nat /\ lost[k] \in Nat
  BY DEF JobsOK, Stage, TypeOK, QueueTypeOK
<1> USE DEF Unsent
<1>1. CASE Sweep
  <2>1. task[k].stage = "idle"
    BY <1>1 DEF Sweep, Resting, InFlight, Stage
  <2>2. task' = task /\ copies' = copies /\ lost' = lost
    BY <1>1 DEF Sweep, ghosts
  <2>3. CASE job'[k] = job[k]
    BY <1>0, <2>2, <2>3
  <2>4. CASE /\ job[k].state \in Waiting
             /\ job'[k] = [job[k] EXCEPT !.state = "expired", !.lease = NoLease]
    <3>1. job'[k].state = "expired"
      BY <1>0, <2>4 DEF JobRow
    <3> QED
      BY <1>0, <2>1, <2>2, <2>4, <3>1 DEF JobOK, Waiting
  <2> QED
    BY <1>1, <2>3, <2>4, SweepRow
<1>16. CASE ClaimDue
  <2>1. task[k].stage = "idle"
    BY <1>16 DEF ClaimDue, PassIsQuiet, Resting, InFlight, Stage
  <2>2. copies' = copies /\ lost' = lost
    BY <1>16 DEF ClaimDue, ghosts
  <2>3. CASE job'[k] = job[k] /\ task'[k] = task[k]
    BY <1>0, <2>2, <2>3
  <2>4. CASE /\ job[k].state \in Waiting \cup {"sending"} /\ task'[k] = At("queued")
             /\ job'[k] = [job[k] EXCEPT !.state = "sending", !.lease = pass.at + LeaseDuration]
    <3>1. job'[k].state = "sending" /\ task'[k].stage = "queued"
      BY <1>0, <2>4 DEF JobRow, At
    <3> QED
      BY <1>0, <2>1, <2>2, <2>4, <3>1 DEF JobOK, Waiting
  <2> QED
    BY <1>16, <2>3, <2>4, ClaimRow
<1>2. CASE Restart
  <2>1. task'[k].stage = "idle" /\ job' = job
    BY <1>2 DEF Restart, NoTask, At
  <2>2. PICK R \in SUBSET {ClaimOf(i) : i \in {n \in Jobs : Stage(n) = "posting"}} :
          /\ copies'[k] = IF k \in UNION R THEN copies[k] + 1 ELSE copies[k]
          /\ lost'[k] = IF k \in UNION R \/ Stage(k) = "accepted" THEN lost[k] + 1 ELSE lost[k]
    BY <1>2 DEF Restart
  <2>3. CASE k \in UNION R
    <3>1. PICK i \in Jobs : Stage(i) = "posting" /\ k \in ClaimOf(i)
      BY <2>3
    <3>2. task[k].stage = "posting"
      BY <3>1, ClaimTasks DEF InFlight, Stage
    <3> QED
      BY <1>0, <2>1, <2>2, <2>3, <3>2 DEF JobOK, Stage
  <2>4. CASE k \notin UNION R
    BY <1>0, <2>1, <2>2, <2>4 DEF JobOK, Stage
  <2> QED
    BY <2>3, <2>4
<1>3. CASE UserClearsHistory \/ Retain \/ \E c \in Channels : UserDeletesChannel(c)
  <2>1. PICK S : job' = Removed(S)
    BY <1>3 DEF UserClearsHistory, ClearHistory, Retain, Prune, UserDeletesChannel, DeleteChannel
  <2>2. task' = task /\ copies' = copies /\ lost' = lost
    BY <1>3 DEF UserClearsHistory, Retain, UserDeletesChannel, ghosts
  <2>3. Blank("deleted").state = "deleted"
    BY DEF Blank
  <2> QED
    BY <1>0, <2>1, <2>2, <2>3, RemovedRow DEF JobOK
<1>4. ASSUME NEW j \in Jobs, Accept(j)
      PROVE  JobOK(job'[k].state, task'[k].stage, copies'[k], lost'[k])
  <2>1. /\ task' = task /\ copies' = copies /\ lost' = lost /\ job[j].state = "absent"
        /\ \E r : job' = [job EXCEPT ![j] = r] /\ r.state = "pending"
    BY <1>4 DEF Accept, Enqueue, Blank, ghosts
  <2>2. job'[k] = job[k] \/ (job[k].state = "absent" /\ job'[k].state = "pending")
    BY <2>1 DEF TypeOK, QueueTypeOK
  <2> QED
    BY <1>0, <2>1, <2>2 DEF JobOK
<1>5. ASSUME NEW j \in Jobs, UserRetries(j)
      PROVE  JobOK(job'[k].state, task'[k].stage, copies'[k], lost'[k])
  <2> DEFINE r == [job[j] EXCEPT !.state = "pending", !.attempts = 0, !.next = now, !.lease = NoLease]
  <2>0. r.state = "pending"
    BY DEF TypeOK, QueueTypeOK, JobRow
  <2>1. /\ task' = task /\ copies' = copies /\ lost' = lost /\ job[j].state = "failed"
        /\ job' = [job EXCEPT ![j] = r]
    BY <1>5 DEF UserRetries, ManualRetry, Retriable
  <2> HIDE DEF r
  <2>2. job'[k] = job[k] \/ (job[k].state = "failed" /\ job'[k].state = "pending")
    BY <2>0, <2>1 DEF TypeOK, QueueTypeOK
  <2> QED
    BY <1>0, <2>1, <2>2 DEF JobOK
<1>6. ASSUME NEW j \in Jobs, InFlight(j), k \in ClaimOf(j) PROVE task[k] = task[j]
  BY <1>6, ClaimTasks
<1>7. ASSUME NEW C, job' = job, copies' = copies, Abandon(C)
      PROVE  JobOK(job'[k].state, task'[k].stage, copies'[k], lost'[k])
  <2>1. /\ task'[k] = IF k \in C THEN NoTask ELSE task[k]
        /\ lost'[k] = IF k \in C /\ Stage(k) = "accepted" THEN lost[k] + 1 ELSE lost[k]
    BY <1>7 DEF Abandon, Become
  <2> QED
    BY <1>0, <1>7, <2>1 DEF JobOK, Stage, NoTask, At
<1>8. ASSUME NEW j \in Jobs, NEW t, task' = Become(ClaimOf(j), t), job' = job,
             copies' = copies, lost' = lost, InFlight(j), task[j].stage # "accepted",
             t.stage \in Unsent => task[j].stage \in Unsent, t.stage # "accepted"
      PROVE  JobOK(job'[k].state, task'[k].stage, copies'[k], lost'[k])
  <2>1. task'[k] = IF k \in ClaimOf(j) THEN t ELSE task[k]
    BY <1>8 DEF Become
  <2> QED
    BY <1>0, <1>6, <1>8, <2>1 DEF JobOK
<1>9. ASSUME NEW j \in Jobs,
             \/ Admit(j) \/ Post(j) \/ RetryNotRecorded(j) \/ HealChannel(j) \/ StrikeChannel(j)
      PROVE  JobOK(job'[k].state, task'[k].stage, copies'[k], lost'[k])
  <2>1. \E t : /\ task' = Become(ClaimOf(j), t)
               /\ t.stage \in Unsent => task[j].stage \in Unsent
               /\ t.stage # "accepted"
    <3>1. NoTask.stage = "idle" /\ At("admitted").stage = "admitted"
      BY DEF NoTask, At
    <3>2. \A n : [At("posting") EXCEPT !.cred = n].stage = "posting"
      BY DEF At
    <3>3. AfterRefusal(j).stage \in {"idle", "striking"}
      BY <3>1 DEF AfterRefusal, TypeOK, Task
    <3> QED
      BY <1>9, <3>1, <3>2, <3>3 DEF Admit, Post, SendFrom, RetryNotRecorded, HealChannel,
         StrikeChannel, Stage
  <2>2. job' = job /\ copies' = copies /\ lost' = lost
    BY <1>9 DEF Admit, Post, SendFrom, RetryNotRecorded, HealChannel, StrikeChannel, ghosts,
       ResetAuthFailures, BumpAuthFailure
  <2>3. InFlight(j) /\ task[j].stage # "accepted"
    BY <1>9 DEF Admit, Post, SendFrom, RetryNotRecorded, HealChannel, StrikeChannel, Stage,
       InFlight
  <2> QED
    BY <1>8, <2>1, <2>2, <2>3
<1>10. ASSUME NEW j \in Jobs, TaskFails(j)
       PROVE  JobOK(job'[k].state, task'[k].stage, copies'[k], lost'[k])
  BY <1>7, <1>10 DEF TaskFails
<1>11. ASSUME NEW j \in Jobs, PlatformAccepts(j) \/ PlatformRefuses(j)
       PROVE  JobOK(job'[k].state, task'[k].stage, copies'[k], lost'[k])
  <2>1. Stage(j) = "posting" /\ InFlight(j) /\ job' = job
    BY <1>11 DEF PlatformAccepts, PlatformRefuses, InFlight
  <2>2. CASE k \notin ClaimOf(j)
    <3>1. task'[k] = task[k] /\ copies'[k] = copies[k] /\ lost'[k] = lost[k]
      BY <1>11, <2>2 DEF PlatformAccepts, PlatformRefuses, Become, Arrives, TypeOK
    <3> QED
      BY <1>0, <2>1, <3>1
  <2>3. CASE k \in ClaimOf(j) /\ PlatformAccepts(j)
    <3>1. /\ task'[k].stage = "accepted"
          /\ copies'[k] = copies[k] + 1 /\ lost'[k] = lost[k]
      BY <2>3, AcceptedOnce DEF PlatformAccepts, Become, TypeOK, Task
    <3> QED
      BY <1>0, <1>6, <2>1, <2>3, <3>1 DEF JobOK, Stage
  <2>4. CASE k \in ClaimOf(j) /\ PlatformRefuses(j)
    <3>1. \E err : task'[k] = [task[j] EXCEPT !.stage = "refused", !.err = err]
      BY <2>4 DEF PlatformRefuses, Become
    <3>2. task'[k].stage = "refused"
      BY <3>1 DEF TypeOK, Task
    <3>3. \/ copies'[k] = copies[k] + 1 /\ lost'[k] = lost[k] + 1
          \/ copies'[k] = copies[k] /\ lost'[k] = lost[k]
      BY <2>4, RefusedWithError
    <3> QED
      BY <1>0, <1>6, <2>1, <2>4, <3>2, <3>3 DEF JobOK, Stage
  <2> QED
    BY <1>11, <2>2, <2>3, <2>4
<1>12. ASSUME NEW j \in Jobs, RecordSuccess(j)
       PROVE  JobOK(job'[k].state, task'[k].stage, copies'[k], lost'[k])
  <2>1. Stage(j) = "accepted" /\ InFlight(j) /\ copies' = copies
    BY <1>12 DEF RecordSuccess, RecordSuccessAt, InFlight
  <2>2. CASE /\ Complete(ClaimOf(j)) /\ UNCHANGED lost
             /\ task' = Become(ClaimOf(j), [task[j] EXCEPT !.stage = "healing"])
    <3>1. CASE k \in ClaimOf(j)
      <4>1. job'[k].state = "succeeded" /\ task'[k].stage = "healing"
        BY <1>0, <2>2, <3>1 DEF Complete, Completed, Become, JobRow, TypeOK, Task
      <4> QED
        BY <1>0, <1>6, <2>1, <2>2, <3>1, <4>1 DEF JobOK, Stage
    <3>2. CASE k \notin ClaimOf(j)
      BY <1>0, <2>1, <2>2, <3>2 DEF Complete, Become
    <3> QED
      BY <3>1, <3>2
  <2>3. CASE Abandon(ClaimOf(j)) /\ UNCHANGED job
    BY <1>7, <2>1, <2>3
  <2> QED
    BY <1>12, <2>2, <2>3 DEF RecordSuccess, RecordSuccessAt
<1>13. ASSUME NEW j \in Jobs, RecordFailure(j)
       PROVE  JobOK(job'[k].state, task'[k].stage, copies'[k], lost'[k])
  <2>1. /\ Stage(j) = "refused" /\ InFlight(j) /\ copies' = copies /\ lost' = lost
        /\ task' = Become(ClaimOf(j), AfterRefusal(j))
    BY <1>13 DEF RecordFailure, InFlight, ghosts
  <2>2. AfterRefusal(j).stage \in {"idle", "striking"}
    BY DEF AfterRefusal, NoTask, At, TypeOK, Task
  <2>3. CASE k \notin ClaimOf(j)
    <3>1. task'[k] = task[k]
      BY <2>1, <2>3 DEF Become
    <3>2. job'[k] = job[k]
      BY <1>13, <2>3 DEF RecordFailure, Retry
    <3> QED
      BY <1>0, <2>1, <3>1, <3>2
  <2>4. CASE k \in ClaimOf(j)
    <3>1. task'[k].stage \in {"idle", "striking"} /\ task[k].stage = "refused"
      BY <1>6, <2>1, <2>2, <2>4 DEF Become, Stage
    <3>2. job'[k] = job[k] \/ job'[k].state \in {"retry_wait", "failed", "expired"}
      <4>1. CASE Retry(ClaimOf(j), ChannelOf[j], task[j].err)
        <5>1. \E d : d[k] \in Classify(job[k].attempts, job[k].expires, now, task[j].err)
                     /\ job'[k] = AfterFailure(job[k], d[k])
          BY <2>4, <4>1 DEF Retry
        <5>2. task[j].err \in DeliveryError /\ now \in Nat
              /\ job[k].attempts \in Nat /\ job[k].expires \in Nat
          BY <1>0, JobRowFieldTypes DEF TypeOK, QueueTypeOK, Task
        <5>3. PICK d \in Decision : job'[k] = AfterFailure(job[k], d)
          BY <5>1, <5>2, ClassifyMeaning
        <5>4. StateAfter(d) \in {"retry_wait", "failed", "expired"}
          BY DEF StateAfter, Decision
        <5> QED
          BY <1>0, <5>3, <5>4 DEF AfterFailure, JobRow
      <4> QED
        BY <1>13, <4>1 DEF RecordFailure
    <3> QED
      BY <1>0, <2>1, <3>1, <3>2 DEF JobOK
  <2> QED
    BY <2>3, <2>4
<1>14. CASE UNCHANGED <<job, task, copies, lost>>
  BY <1>0, <1>14
<1>15. CASE Tick \/ PassFails \/ UNCHANGED vars \/ \E c \in Channels : UserSavesChannel(c)
  BY <1>14, <1>15 DEF Tick, PassFails, vars, UserSavesChannel, SaveChannel, ghosts
<1> QED
  BY <1>1, <1>2, <1>3, <1>4, <1>5, <1>9, <1>10, <1>11, <1>12, <1>13, <1>15, <1>16
     DEF Next, TaskStep

LEMMA InitJobsOK == Init => JobsOK /\ OneTaskPerBucket /\ PassIsQuiet
BY DEF Init, QueueInit, Blank, NoTask, At, JobsOK, JobOK, Unsent, Stage, OneTaskPerBucket, InFlight,
   PassIsQuiet, NoPass

-----------------------------------------------------------------------------
(* The theorems *)

LEMMA InductiveInvariant == Spec => []IInv
<1>1. Init => IInv
  BY InitTypeOK, InitRowsOK, InitPausedAtThreshold, InitJobsOK, JobsOKMeaning DEF IInv
<1>2. ASSUME IInv, [Next]_vars PROVE IInv'
  <2>1. TypeOK /\ RowsOK /\ PausedAtThreshold /\ JobsOK /\ OneTaskPerBucket /\ PassIsQuiet
    BY <1>2, JobsOKMeaning DEF IInv
  <2>2. TypeOK' /\ RowsOK' /\ PausedAtThreshold' /\ JobsOK' /\ OneTaskPerBucket' /\ PassIsQuiet'
    BY <1>2, <2>1, NextTypeOK, NextRowsOK, NextPausedAtThreshold, NextJobsOK, NextOneTaskPerBucket,
       NextPassIsQuiet
  <2>3. TaskOwnsItsRow' /\ Accounted'
    BY <2>2 DEF JobsOK, JobOK, TaskOwnsItsRow, Accounted, Unsent
  <2> QED
    BY <2>2, <2>3 DEF IInv
<1>3. IInv /\ [Next]_vars => IInv'
  BY <1>2
<1> QED
  BY <1>1, <1>3, PTL DEF Spec

\* A row holds a lease exactly while it is in `sending`, whatever the order of
\* sweeps, claims, outcomes, retries and deletions.
THEOREM LeaseMeansSending == Spec => []LeaseIffSending
<1>1. IInv => LeaseIffSending
  BY DEF IInv, RowsOK, RowOK, LeaseIffSending
<1> QED
  BY <1>1, InductiveInvariant, PTL

\* While a task has an outcome to record nothing takes its row out of `sending`
\* short of deleting it.
THEOREM TasksOwnTheirRows == Spec => []TaskOwnsItsRow
<1>1. IInv => TaskOwnsItsRow
  BY DEF IInv
<1> QED
  BY <1>1, InductiveInvariant, PTL

\* Every copy of a notification beyond the first answers to an acceptance the
\* queue could not record: delivery duplicates nothing on its own.
THEOREM OnlyLossDuplicates == Spec => []NoDuplicateWithoutLoss
<1>1. IInv => NoDuplicateWithoutLoss
  BY DEF IInv, TypeOK, Accounted, NoDuplicateWithoutLoss
<1> QED
  BY <1>1, InductiveInvariant, PTL

\* A job is recorded as succeeded only after the platform accepted a copy.
THEOREM SuccessIsReal == Spec => []SuccessWasAccepted
<1>1. IInv => SuccessWasAccepted
  BY DEF IInv, TypeOK, Accounted, SuccessWasAccepted
<1> QED
  BY <1>1, InductiveInvariant, PTL

\* No retry is scheduled beyond the job's deadline (classify, apply_retry).
THEOREM RetriesComeInTime == Spec => []RetryWithinDeadline
<1>1. IInv => RetryWithinDeadline
  BY DEF IInv, RowsOK, RowOK, RetryWithinDeadline
<1> QED
  BY <1>1, InductiveInvariant, PTL

\* The attempts of a job are bounded (by one more than MAX_ATTEMPTS) and all
\* in the ledger.
THEOREM RetriesAreBounded == Spec => []AttemptsBounded
<1>1. IInv => AttemptsBounded
  BY DEF IInv, RowsOK, RowOK, AttemptsBounded
<1> QED
  BY <1>1, InductiveInvariant, PTL

\* A channel is paused exactly while its failure counter is at the threshold.
THEOREM PauseFollowsCounter == Spec => []PausedAtThreshold
<1>1. IInv => PausedAtThreshold
  BY DEF IInv
<1> QED
  BY <1>1, InductiveInvariant, PTL

-----------------------------------------------------------------------------
(* Steps: how a row moves, and what the move means to the promise *)

Kept(k) == job'[k] = job[k]
SweptAway(k) == job[k].state \in Waiting /\ job'[k].state = "expired"
Claimed(k) ==
  job[k].state \in Waiting \cup {"sending"} /\ job'[k].state = "sending" /\ ClaimDue
Succeeded(k) == job[k].state = "sending" /\ job'[k].state = "succeeded" /\ copies[k] > 0
Refused(k) == job[k].state = "sending" /\ job'[k].state \in {"retry_wait", "failed", "expired"}

\* A pass sweeps, claims or keeps each row.
LEMMA PassMoves ==
  ASSUME TypeOK, Sweep \/ ClaimDue, NEW k \in Jobs
  PROVE  Kept(k) \/ SweptAway(k) \/ Claimed(k)
<1>1. job[k] \in JobRow
  BY DEF TypeOK, QueueTypeOK
<1>2. /\ [job[k] EXCEPT !.state = "expired", !.lease = NoLease].state = "expired"
      /\ [job[k] EXCEPT !.state = "sending", !.lease = pass.at + LeaseDuration].state = "sending"
  BY <1>1 DEF JobRow
<1> QED
  BY <1>2, SweepRow, ClaimRow DEF Kept, SweptAway, Claimed

LEMMA SuccessMoves ==
  ASSUME IInv, NEW j \in Jobs, RecordSuccess(j), NEW k \in Jobs
  PROVE  Kept(k) \/ Succeeded(k)
<1>1. Stage(j) = "accepted" /\ InFlight(j)
  BY DEF RecordSuccess, RecordSuccessAt, InFlight
<1>2. CASE Complete(ClaimOf(j)) /\ k \in ClaimOf(j)
  <2>1. job'[k] = Completed(job[k]) /\ job[k].state = "sending" /\ job[k] \in JobRow
    BY <1>2 DEF Complete, AllSending, IInv, TypeOK, QueueTypeOK
  <2>2. job'[k].state = "succeeded"
    BY <2>1 DEF Completed, JobRow
  <2>3. Stage(k) = "accepted"
    BY <1>1, <1>2, ClaimTasks DEF IInv, Stage
  <2>4. copies[k] > 0
    BY <2>3 DEF IInv, Accounted, TypeOK
  <2> QED
    BY <2>1, <2>2, <2>4 DEF Succeeded
<1>3. CASE ~(Complete(ClaimOf(j)) /\ k \in ClaimOf(j))
  BY <1>3 DEF RecordSuccess, RecordSuccessAt, Complete, Kept
<1> QED
  BY <1>2, <1>3

LEMMA FailureMoves ==
  ASSUME TypeOK, NEW j \in Jobs, RecordFailure(j), NEW k \in Jobs
  PROVE  Kept(k) \/ Refused(k)
<1>1. CASE Retry(ClaimOf(j), ChannelOf[j], task[j].err) /\ k \in ClaimOf(j)
  <2>1. \E d : /\ d[k] \in Classify(job[k].attempts, job[k].expires, now, task[j].err)
               /\ job'[k] = AfterFailure(job[k], d[k])
    BY <1>1 DEF Retry
  <2>2. task[j].err \in DeliveryError /\ now \in Nat
        /\ job[k].attempts \in Nat /\ job[k].expires \in Nat /\ job[k] \in JobRow
    BY JobRowFieldTypes DEF TypeOK, QueueTypeOK, Task
  <2>3. PICK d \in Decision : job'[k] = AfterFailure(job[k], d)
    BY <2>1, <2>2, ClassifyMeaning
  <2>4. StateAfter(d) \in {"retry_wait", "failed", "expired"}
    BY DEF StateAfter, Decision
  <2>5. job'[k].state = StateAfter(d)
    BY <2>2, <2>3 DEF AfterFailure, JobRow
  <2>6. job[k].state = "sending"
    BY <1>1 DEF Retry, AllSending
  <2> QED
    BY <2>4, <2>5, <2>6 DEF Refused
<1>2. CASE ~(Retry(ClaimOf(j), ChannelOf[j], task[j].err) /\ k \in ClaimOf(j))
  BY <1>2 DEF RecordFailure, Retry, Kept
<1> QED
  BY <1>1, <1>2

\* The user's retry starts a failed job over.
LEMMA ReopenMoves ==
  ASSUME TypeOK, NEW j \in Jobs, UserRetries(j)
  PROVE  /\ job[j].state = "failed" /\ job'[j].state = "pending" /\ job'[j].attempts = 0
         /\ \A k \in Jobs : k # j => Kept(k)
<1> DEFINE r == [job[j] EXCEPT !.state = "pending", !.attempts = 0, !.next = now, !.lease = NoLease]
<1>1. r.state = "pending" /\ r.attempts = 0
  BY DEF TypeOK, QueueTypeOK, JobRow
<1>2. job[j].state = "failed" /\ job' = [job EXCEPT ![j] = r]
  BY DEF UserRetries, ManualRetry, Retriable
<1> HIDE DEF r
<1> QED
  BY <1>1, <1>2 DEF TypeOK, QueueTypeOK, Kept

LEMMA AcceptMoves ==
  ASSUME TypeOK, NEW j \in Jobs, Accept(j)
  PROVE  /\ job[j].state = "absent" /\ job'[j].state = "pending"
         /\ \A k \in Jobs : k # j => Kept(k)
<1>1. job[j].state = "absent" /\ \E r : job' = [job EXCEPT ![j] = r] /\ r.state = "pending"
  BY DEF Accept, Enqueue, Blank
<1> QED
  BY <1>1 DEF TypeOK, QueueTypeOK, Kept

\* Every way a row can move.
LEMMA RowMoves ==
  ASSUME IInv, [Next]_vars, NEW k \in Jobs
  PROVE  \/ Kept(k) \/ SweptAway(k) \/ Claimed(k) \/ Succeeded(k) \/ Refused(k)
         \/ job[k].state = "absent" /\ job'[k].state = "pending"
         \/ job[k].state = "failed" /\ job'[k].state = "pending" /\ job'[k].attempts = 0
         \/ Present(k) /\ job'[k].state = "deleted"
<1>0. TypeOK
  BY DEF IInv
<1>1. CASE UserClearsHistory \/ Retain \/ \E c \in Channels : UserDeletesChannel(c)
  <2>1. PICK S : job' = Removed(S)
    BY <1>1 DEF UserClearsHistory, ClearHistory, Retain, Prune, UserDeletesChannel, DeleteChannel
  <2> QED
    BY <2>1, RemovedRow DEF Kept, Blank
<1>2. CASE \/ Tick \/ PassFails \/ Restart \/ UNCHANGED vars
           \/ \E j \in Jobs : TaskFails(j) \/ RetryNotRecorded(j)
           \/ \E j \in Jobs : \/ Admit(j) \/ Post(j) \/ PlatformAccepts(j) \/ PlatformRefuses(j)
                              \/ HealChannel(j) \/ StrikeChannel(j)
           \/ \E c \in Channels : UserSavesChannel(c)
  BY <1>2 DEF Kept, Tick, PassFails, Restart, vars, TaskFails, RetryNotRecorded, Admit, Post, SendFrom,
     PlatformAccepts, PlatformRefuses, HealChannel, ResetAuthFailures, StrikeChannel,
     BumpAuthFailure, UserSavesChannel, SaveChannel
<1>3. CASE Sweep \/ ClaimDue
  BY <1>0, <1>3, PassMoves
<1>4. CASE \E j \in Jobs : \/ Accept(j) \/ UserRetries(j) \/ RecordSuccess(j) \/ RecordFailure(j)
  BY <1>0, <1>4, AcceptMoves, ReopenMoves, SuccessMoves, FailureMoves
<1> QED
  BY <1>1, <1>2, <1>3, <1>4 DEF Next, TaskStep

-----------------------------------------------------------------------------
(* Strikes: sends on a channel are one at a time, and each strikes once *)

\* Two jobs that go, or would go, in one claim.
Together(j, k) == j = k \/ (BucketOf[j] = BucketOf[k] /\ BucketOf[j] # NoBucket)

LEMMA TogetherInClaim ==
  ASSUME NEW j \in Jobs, NEW k \in Jobs, InFlight(k)
  PROVE  k \in ClaimOf(j) <=> Together(j, k)
BY DEF ClaimOf, Together

LEMMA ClaimTogether ==
  ASSUME NEW j \in Jobs, NEW k \in ClaimOf(j)
  PROVE  k \in Jobs /\ Together(j, k) /\ ChannelOf[k] = ChannelOf[j]
BY QueueAssumption DEF ClaimOf, Together

LEMMA SentInFlight == \A j : Sent(j) => InFlight(j)
BY DEF Sent, InFlight

\* A claim moves on; if it is out now, it was before, or nothing else was.
LEMMA ClaimMoves ==
  ASSUME OneSendPerChannel, NEW j \in Jobs, NEW t, task' = Become(ClaimOf(j), t), InFlight(j),
         t.stage \in {"idle", "queued", "admitted"} \/ Sent(j) \/ ~ChannelBusy(ChannelOf[j])
  PROVE  OneSendPerChannel'
<1>1. \A i \in Jobs : task'[i] = IF i \in ClaimOf(j) THEN t ELSE task[i]
  BY DEF Become
<1>2. \A i \in Jobs : i \notin ClaimOf(j) /\ Sent(i)' => Sent(i)
  BY <1>1 DEF Sent, Stage
<1>3. ASSUME NEW a \in Jobs, NEW b \in Jobs, ChannelOf[a] = ChannelOf[b],
             Sent(a)', Sent(b)', a \in ClaimOf(j), b \notin ClaimOf(j)
      PROVE  FALSE
  <2>1. Sent(b) /\ ChannelOf[b] = ChannelOf[j]
    BY <1>2, <1>3, ClaimTogether
  <2>2. t.stage \notin {"idle", "queued", "admitted"}
    BY <1>1, <1>3 DEF Sent, Stage
  <2>3. ~Sent(j)
    BY <1>3, <2>1 DEF OneSendPerChannel
  <2>4. ChannelBusy(ChannelOf[j])
    BY <2>1 DEF ChannelBusy, Sent
  <2> QED
    BY <2>2, <2>3, <2>4
<1>4. ASSUME NEW a \in Jobs, NEW b \in Jobs, ChannelOf[a] = ChannelOf[b], Sent(a)', Sent(b)'
      PROVE  Together(a, b)
  <2>1. CASE a \in ClaimOf(j) /\ b \in ClaimOf(j)
    BY <2>1, ClaimTogether DEF Together
  <2>2. CASE a \notin ClaimOf(j) /\ b \notin ClaimOf(j)
    <3>1. Sent(a) /\ Sent(b)
      BY <1>2, <1>4, <2>2
    <3> QED
      BY <1>4, <3>1, SentInFlight, TogetherInClaim DEF OneSendPerChannel
  <2> QED
    BY <1>3, <1>4, <2>1, <2>2
<1>5. \A a, b \in Jobs : Sent(b)' /\ Together(a, b) => (b \in ClaimOf(a))'
  BY DEF ClaimOf, Together, Sent, InFlight
<1> QED
  BY <1>4, <1>5 DEF OneSendPerChannel

LEMMA NextOneSendPerChannel ==
  ASSUME IInv, OneSendPerChannel, [Next]_vars
  PROVE  OneSendPerChannel'
<1>1. CASE ClaimDue
  <2>1. \A k \in Jobs : task'[k] = task[k] \/ task'[k] = At("queued")
    BY <1>1 DEF ClaimDue, Become
  <2>2. \A k \in Jobs : Stage(k) = "idle"
    BY <1>1 DEF ClaimDue, IInv, PassIsQuiet, Resting, InFlight
  <2>3. At("queued").stage = "queued"
    BY DEF At
  <2>4. \A k \in Jobs : ~Sent(k)'
    BY <2>1, <2>2, <2>3 DEF Sent, Stage
  <2> QED
    BY <2>4 DEF OneSendPerChannel
<1>2. CASE Restart
  BY <1>2 DEF Restart, OneSendPerChannel, Sent, Stage, NoTask, At
<1>3. ASSUME NEW j \in Jobs, Admit(j) PROVE OneSendPerChannel'
  BY <1>3, ClaimMoves DEF Admit, InFlight, At
<1>4. ASSUME NEW j \in Jobs, Post(j) PROVE OneSendPerChannel'
  BY <1>4, ClaimMoves DEF Post, SendFrom, InFlight
<1>5. ASSUME NEW j \in Jobs,
             \/ TaskFails(j) \/ RetryNotRecorded(j) \/ PlatformAccepts(j) \/ PlatformRefuses(j)
             \/ RecordSuccess(j) \/ HealChannel(j) \/ RecordFailure(j) \/ StrikeChannel(j)
      PROVE  OneSendPerChannel'
  <2>1. InFlight(j) /\ (Sent(j) \/ TaskFails(j))
    BY <1>5 DEF InFlight, Sent, TaskFails, RetryNotRecorded, PlatformAccepts,
       PlatformRefuses, RecordSuccess, RecordSuccessAt, HealChannel, RecordFailure, StrikeChannel
  <2>2. CASE TaskFails(j)
    BY <2>1, <2>2, ClaimMoves DEF TaskFails, Abandon, NoTask, At
  <2>3. \E t : task' = Become(ClaimOf(j), t)
    BY <1>5 DEF TaskFails, RetryNotRecorded, PlatformAccepts, Abandon,
       PlatformRefuses, RecordSuccess, RecordSuccessAt, HealChannel, RecordFailure, StrikeChannel
  <2> QED
    BY <2>1, <2>2, <2>3, ClaimMoves
<1>6. CASE UNCHANGED task
  BY <1>6 DEF OneSendPerChannel, Sent, Stage, ClaimOf, InFlight
<1>7. CASE \/ Tick \/ Sweep \/ PassFails \/ UserClearsHistory \/ Retain \/ UNCHANGED vars
           \/ \E j \in Jobs : Accept(j) \/ UserRetries(j)
           \/ \E c \in Channels : UserSavesChannel(c) \/ UserDeletesChannel(c)
  BY <1>6, <1>7 DEF Tick, Sweep, PassFails, UserClearsHistory, Retain, vars, Accept, UserRetries,
     UserSavesChannel, UserDeletesChannel
<1> QED
  BY <1>1, <1>2, <1>3, <1>4, <1>5, <1>7 DEF Next, TaskStep

\* Deleting a channel takes its rows along, and no row comes without its channel.
LEMMA NextGoneChannelsAreClean ==
  ASSUME IInv, GoneChannelsAreClean, [Next]_vars
  PROVE  GoneChannelsAreClean'
<1>0. /\ TypeOK /\ chan \in [Channels -> ChannelRow] /\ ChannelOf \in [Jobs -> Channels]
  BY QueueAssumption DEF IInv, TypeOK, QueueTypeOK
<1>1. \A k \in Jobs : Present(k)' => Present(k) \/ (job[k].state = "absent" /\ ~Kept(k))
  BY RowMoves DEF Kept, SweptAway, Claimed, Succeeded, Refused, Waiting, Present
<1>2. ASSUME UNCHANGED chan,
             \A k \in Jobs : job[k].state = "absent" => Kept(k) \/ chan[ChannelOf[k]].exists
      PROVE  GoneChannelsAreClean'
  BY <1>1, <1>2 DEF GoneChannelsAreClean
<1>3. ASSUME NEW c \in Channels, NEW r, chan' = [chan EXCEPT ![c] = r],
             r.exists \/ ~chan[c].exists, r.exists \/ r.failures = 0, UNCHANGED job
      PROVE  GoneChannelsAreClean'
  BY <1>0, <1>3 DEF GoneChannelsAreClean, Present
<1>4. ASSUME NEW j \in Jobs, RecordFailure(j) PROVE GoneChannelsAreClean'
  \* A row that can be written is there, and so is its channel.
  <2>1. \A k \in Jobs : Kept(k) \/ Refused(k)
    BY <1>0, <1>4, FailureMoves
  <2>2. \A k \in Jobs : Present(k)' => Present(k)
    BY <2>1 DEF Kept, Refused, Present
  <2>3. CASE Retry(ClaimOf(j), ChannelOf[j], task[j].err)
    <3>1. j \in ClaimOf(j)
      BY <1>4, ClaimTasks DEF IInv, RecordFailure, InFlight
    <3>2. chan[ChannelOf[j]].exists
      BY <2>3, <3>1 DEF Retry, AllSending, GoneChannelsAreClean, Present
    <3>3. PICK d, last : chan' = [chan EXCEPT ![ChannelOf[j]] =
                                    ChannelAfterFailure(@, ClaimOf(j), d, task[j].err, last)]
      BY <2>3 DEF Retry
    <3>4. ChannelAfterFailure(chan[ChannelOf[j]], ClaimOf(j), d, task[j].err, last).exists
      BY <1>0, <3>2 DEF ChannelAfterFailure, Struck, ChannelRow
    <3>5. \A c \in Channels : chan'[c].exists <=> chan[c].exists
      BY <1>0, <3>2, <3>3, <3>4
    <3>6. \A c \in Channels : ~chan[c].exists => chan'[c] = chan[c]
      BY <1>0, <3>2, <3>3
    <3> QED
      BY <1>0, <2>2, <3>5, <3>6 DEF GoneChannelsAreClean
  <2>4. CASE UNCHANGED chan
    BY <2>2, <2>4 DEF GoneChannelsAreClean
  <2> QED
    BY <1>4, <2>3, <2>4 DEF RecordFailure
<1>5. ASSUME NEW j \in Jobs, HealChannel(j) \/ StrikeChannel(j) PROVE GoneChannelsAreClean'
  <2> DEFINE r == chan[ChannelOf[j]]
  <2>1. r \in ChannelRow /\ ChannelOf[j] \in Channels
    BY <1>0
  <2>2. Healed(r).exists = r.exists /\ Struck(r, 1).exists = r.exists
    BY <2>1 DEF Healed, Struck, ChannelRow
  <2>3. \/ chan' = [chan EXCEPT ![ChannelOf[j]] = IF r.exists THEN Healed(r) ELSE r]
        \/ chan' = [chan EXCEPT ![ChannelOf[j]] = IF r.exists THEN Struck(r, 1) ELSE r]
    BY <1>5 DEF HealChannel, ResetAuthFailures, StrikeChannel, BumpAuthFailure
  <2>4. UNCHANGED job
    BY <1>5 DEF HealChannel, ResetAuthFailures, StrikeChannel, BumpAuthFailure
  <2>5. ~r.exists => r.failures = 0
    BY <2>1 DEF GoneChannelsAreClean
  <2> HIDE DEF r
  <2> QED
    BY <1>3, <2>1, <2>2, <2>3, <2>4, <2>5 DEF r
<1>6. ASSUME NEW c \in Channels, UserSavesChannel(c) PROVE GoneChannelsAreClean'
  BY <1>3, <1>6 DEF UserSavesChannel, SaveChannel, FreshChannel, CleanChannel
<1>7. ASSUME NEW c \in Channels, UserDeletesChannel(c) PROVE GoneChannelsAreClean'
  <2>1. \A k \in Jobs : Present(k)' => Present(k) /\ ChannelOf[k] # c
    BY <1>0, <1>7 DEF UserDeletesChannel, DeleteChannel, Removed, Present, Blank
  <2>2. \A e \in Channels : chan'[e] = IF e = c THEN CleanChannel(FALSE, chan[c].cred) ELSE chan[e]
    BY <1>0, <1>7 DEF UserDeletesChannel, DeleteChannel
  <2> QED
    BY <1>0, <2>1, <2>2 DEF GoneChannelsAreClean, CleanChannel
<1>8. ASSUME NEW j \in Jobs, Accept(j) PROVE GoneChannelsAreClean'
  BY <1>0, <1>2, <1>8, AcceptMoves DEF Accept, Enqueue
<1>9. ASSUME NEW j \in Jobs, UserRetries(j) PROVE GoneChannelsAreClean'
  <2>1. \A k \in Jobs : job[k].state = "absent" => Kept(k)
    BY <1>0, <1>9, ReopenMoves
  <2> QED
    BY <1>2, <1>9, <2>1 DEF UserRetries, ManualRetry
<1>10. CASE Sweep \/ ClaimDue
  <2>1. \A k \in Jobs : job[k].state = "absent" => Kept(k)
    BY <1>0, <1>10, PassMoves DEF SweptAway, Claimed, Waiting
  <2> QED
    BY <1>2, <1>10, <2>1 DEF Sweep, ExpireDue, ClaimDue
<1>11. ASSUME NEW j \in Jobs, RecordSuccess(j) PROVE GoneChannelsAreClean'
  <2>1. \A k \in Jobs : job[k].state = "absent" => Kept(k)
    BY <1>11, SuccessMoves DEF Succeeded
  <2> QED
    BY <1>2, <1>11, <2>1 DEF RecordSuccess, RecordSuccessAt, Complete
<1>12. CASE UserClearsHistory \/ Retain
  <2>1. \A k \in Jobs : job[k].state = "absent" => Kept(k)
    BY <1>12 DEF UserClearsHistory, ClearHistory, Retain, Prune, Removed, Present, Kept
  <2> QED
    BY <1>2, <1>12, <2>1 DEF UserClearsHistory, ClearHistory, Retain, Prune
<1>13. CASE UNCHANGED <<job, chan>>
  BY <1>2, <1>13 DEF Kept
<1>14. CASE \/ Tick \/ PassFails \/ Restart \/ UNCHANGED vars
            \/ \E j \in Jobs : TaskFails(j) \/ RetryNotRecorded(j)
            \/ \E j \in Jobs : Admit(j) \/ Post(j) \/ PlatformAccepts(j) \/ PlatformRefuses(j)
  BY <1>13, <1>14 DEF Tick, PassFails, Restart, vars, TaskFails, RetryNotRecorded, Admit, Post, SendFrom,
     PlatformAccepts, PlatformRefuses
<1> QED
  BY <1>4, <1>5, <1>6, <1>7, <1>8, <1>9, <1>10, <1>11, <1>12, <1>14 DEF Next, TaskStep

\* What a width allows for s sends that may strike.
Allowed(n, s) == n * s
Against(c) == strikes[c].own + strikes[c].older
Counted(n, c) == chan[c].failures + (IF Owing(c) THEN n ELSE 0) <= Allowed(n, Against(c))

LEMMA AllowedGrows ==
  ASSUME NEW n \in Nat, NEW s \in Nat
  PROVE  /\ Allowed(n, s) \in Nat /\ Allowed(n, 0) = 0 /\ Allowed(n, 1) = n
         /\ Allowed(n, s + 1) = Allowed(n, s) + n
BY DEF Allowed

LEMMA AgainstType ==
  ASSUME TypeOK, NEW c \in Channels
  PROVE  Against(c) \in Nat
BY DEF TypeOK, Tally, Against

\* A width bounds every claim, and what fails of it.
LEMMA WidthBounds ==
  ASSUME NEW n \in Widths, NEW j \in Jobs, NEW S \in SUBSET ClaimOf(j)
  PROVE  n \in Nat /\ n >= 1 /\ Cardinality(S) \in Nat /\ Cardinality(S) <= n
<1>1. IsFiniteSet(Jobs) /\ Cardinality(Jobs) \in Nat
  BY QueueAssumption, FS_CardinalityType
<1>2. n \in Nat /\ n >= 1
  BY <1>1 DEF Widths
<1>3. CASE BucketOf[j] = NoBucket
  <2>1. S \in SUBSET {j}
    BY <1>3 DEF ClaimOf
  <2>2. IsFiniteSet({j}) /\ Cardinality({j}) = 1
    BY FS_Singleton
  <2>3. Cardinality(S) \in Nat /\ Cardinality(S) <= 1
    BY <2>1, <2>2, FS_Subset, FS_CardinalityType
  <2> QED
    BY <1>2, <2>3
<1>4. CASE BucketOf[j] # NoBucket
  <2> DEFINE M == {k \in Jobs : BucketOf[k] = BucketOf[j]}
  <2>1. BucketOf[j] \in Buckets
    BY <1>4, QueueAssumption
  <2>2. Cardinality(M) <= n
    BY <2>1 DEF Widths
  <2>3. S \in SUBSET M /\ M \in SUBSET Jobs
    BY <1>4 DEF ClaimOf
  <2>4. IsFiniteSet(M) /\ Cardinality(M) \in Nat
    BY <1>1, <2>3, FS_Subset, FS_CardinalityType
  <2> HIDE DEF M
  <2>5. Cardinality(S) \in Nat /\ Cardinality(S) <= Cardinality(M)
    BY <2>3, <2>4, FS_Subset, FS_CardinalityType
  <2> QED
    BY <1>2, <2>2, <2>4, <2>5
<1> QED
  BY <1>3, <1>4

\* A claim of which strikes are to come has the channel for itself.
LEMMA OnlyClaimOwes ==
  ASSUME IInv, OneSendPerChannel, NEW j \in Jobs, Sent(j),
         NEW t, task' = Become(ClaimOf(j), t), t.stage = "idle", NEW c \in Channels,
         c # ChannelOf[j] => chan'[c].cred = chan[c].cred
  PROVE  Owing(c)' => c # ChannelOf[j] /\ Owing(c)
<1> SUFFICES ASSUME NEW k \in Jobs, ChannelOf[k] = c, StrikeToCome(k)'
             PROVE  c # ChannelOf[j] /\ Owing(c)
  BY DEF Owing
<1>1. k \notin ClaimOf(j)
  BY DEF Become, StrikeToCome, Stage
<1>2. task'[k] = task[k]
  BY <1>1 DEF Become
<1>3. Sent(k)
  BY <1>2 DEF StrikeToCome, Sent, Stage
<1>4. c # ChannelOf[j]
  BY <1>1, <1>3 DEF OneSendPerChannel
<1>5. StrikeToCome(k)
  BY <1>2, <1>4 DEF StrikeToCome, Stage, Outdated
<1> QED
  BY <1>4, <1>5 DEF Owing

\* A task with strikes to come to channel c, whatever its job.
Owes(t, c) ==
  \/ t.stage = "posting" /\ t.cred # chan[c].cred
  \/ t.stage = "striking"
  \/ t.stage = "refused" /\ IsCredentialError(t.err)

\* A claim that moves to a task with no more to come than before owes nothing
\* new, and nothing at all to other channels.
LEMMA OwingOnlyShrinks ==
  ASSUME IInv, NEW j \in Jobs, InFlight(j), NEW t, task' = Become(ClaimOf(j), t),
         NEW c \in Channels, chan'[c].cred = chan[c].cred,
         ~Owes(t, c) \/ StrikeToCome(j) \/ c # ChannelOf[j]
  PROVE  Owing(c)' => Owing(c)
<1> SUFFICES ASSUME NEW k \in Jobs, ChannelOf[k] = c, StrikeToCome(k)' PROVE Owing(c)
  BY DEF Owing
<1>1. CASE k \in ClaimOf(j)
  <2>1. task'[k] = t
    BY <1>1 DEF Become
  <2>2. ChannelOf[j] = c
    BY <1>1, ClaimTogether
  <2>3. StrikeToCome(j)
    BY <2>1, <2>2 DEF StrikeToCome, Stage, Owes, Outdated
  <2> QED
    BY <2>2, <2>3 DEF Owing
<1>2. CASE k \notin ClaimOf(j)
  <2>1. task'[k] = task[k]
    BY <1>2 DEF Become
  <2> QED
    BY <2>1 DEF Owing, StrikeToCome, Stage, Outdated
<1> QED
  BY <1>1, <1>2

\* Steps that leave the tasks, and the channels' credentials, alone owe nothing new.
LEMMA OwingStays ==
  ASSUME NEW c \in Channels, UNCHANGED task, chan'[c].cred = chan[c].cred
  PROVE  Owing(c)' => Owing(c)
<1> SUFFICES ASSUME NEW k \in Jobs, ChannelOf[k] = c, StrikeToCome(k)' PROVE Owing(c)
  BY DEF Owing
<1>1. StrikeToCome(k)
  BY DEF StrikeToCome, Stage, Outdated
<1> QED
  BY <1>1 DEF Owing

LEMMA CountKept ==
  ASSUME NEW n \in Widths, NEW c \in Channels, Counted(n, c), TypeOK,
         chan'[c].failures = chan[c].failures, strikes'[c] = strikes[c], Owing(c)' => Owing(c)
  PROVE  Counted(n, c)'
<1>1. n \in Nat /\ chan[c].failures \in Nat /\ Against(c) \in Nat
  BY QueueAssumption, FS_CardinalityType, AgainstType DEF Widths, TypeOK, QueueTypeOK, ChannelRow
<1>2. Allowed(n, Against(c)) \in Nat
  BY <1>1, AllowedGrows
<1>3. Allowed(n, Against(c))' = Allowed(n, Against(c))
  BY DEF Allowed, Against
<1> QED
  BY <1>1, <1>2, <1>3 DEF Counted

\* With its counter at zero a channel needs room for what is owing only.
LEMMA CountFresh ==
  ASSUME NEW n \in Widths, NEW c \in Channels, chan'[c].failures = 0, strikes'[c].own = 0,
         \/ strikes'[c].older = 0 /\ ~Owing(c)'
         \/ strikes'[c].older = 1
  PROVE  Counted(n, c)'
<1>1. n \in Nat
  BY QueueAssumption, FS_CardinalityType DEF Widths
<1>2. Against(c)' = strikes'[c].older
  BY DEF Against
<1>3. /\ strikes'[c].older = 1 => Allowed(n, Against(c))' = n
      /\ strikes'[c].older = 0 => Allowed(n, Against(c))' = 0
  BY <1>1, <1>2 DEF Allowed
<1> QED
  BY <1>1, <1>3 DEF Counted

LEMMA FailuresAfter ==
  ASSUME NEW r \in ChannelRow, NEW C \in SUBSET Jobs, NEW d, NEW err, NEW last
  PROVE  \E S \in SUBSET C :
           ChannelAfterFailure(r, C, d, err, last).failures
             = r.failures + (IF err.kind = "Authentication" THEN Cardinality(S) ELSE 0)
<1> DEFINE failed == {j \in C : d[j].kind = "Fail"}
           struck == IF err.kind = "Authentication" THEN Struck(r, Cardinality(failed)) ELSE r
           when == Latest(d[last].at, now + Cooldown)
<1>1. Cardinality(failed) \in Nat
  BY ClaimIsFinite
<1>2. struck \in ChannelRow
  BY <1>1, StruckType
<1>3. struck.failures
        = r.failures + (IF err.kind = "Authentication" THEN Cardinality(failed) ELSE 0)
  BY <1>1 DEF Struck, ChannelRow
<1> HIDE DEF struck, when
<1>4. [struck EXCEPT !.allowed = when].failures = struck.failures
  BY <1>2 DEF ChannelRow
<1> QED
  BY <1>3, <1>4 DEF ChannelAfterFailure, struck, when

LEMMA FailureKeepsCredential ==
  ASSUME TypeOK, NEW j \in Jobs, RecordFailure(j), NEW c \in Channels
  PROVE  chan'[c].cred = chan[c].cred
<1>1. CASE Retry(ClaimOf(j), ChannelOf[j], task[j].err)
  <2>1. PICK d, last : chan' = [chan EXCEPT ![ChannelOf[j]] =
                                  ChannelAfterFailure(@, ClaimOf(j), d, task[j].err, last)]
    BY <1>1 DEF Retry
  <2>2. \A r \in ChannelRow :
          ChannelAfterFailure(r, ClaimOf(j), d, task[j].err, last).cred = r.cred
    BY DEF ChannelAfterFailure, Struck, ChannelRow
  <2> QED
    BY <2>1, <2>2 DEF TypeOK, QueueTypeOK
<1>2. CASE UNCHANGED chan
  BY <1>2
<1> QED
  BY <1>1, <1>2 DEF RecordFailure

LEMMA FailureCounted ==
  ASSUME IInv, StrikeInv, NEW j \in Jobs, RecordFailure(j), NEW n \in Widths, NEW c \in Channels
  PROVE  Counted(n, c)'
<1>0. /\ TypeOK /\ chan \in [Channels -> ChannelRow] /\ Counted(n, c)
      /\ OneSendPerChannel /\ ChannelOf[j] \in Channels
  BY QueueAssumption DEF IInv, TypeOK, QueueTypeOK, StrikeInv, StrikesCounted, Counted, Allowed, Against
<1>1. /\ Stage(j) = "refused" /\ Sent(j) /\ InFlight(j)
      /\ task' = Become(ClaimOf(j), AfterRefusal(j)) /\ UNCHANGED strikes
  BY DEF RecordFailure, Sent, InFlight, ghosts
<1>2. /\ NoTask.stage = "idle"
      /\ [task[j] EXCEPT !.stage = "striking"].stage = "striking"
  BY <1>0 DEF NoTask, At, TypeOK, Task
<1>3. ~Owes(AfterRefusal(j), c) \/ StrikeToCome(j)
  BY <1>1, <1>2 DEF AfterRefusal, Owes, StrikeToCome, IsCredentialError
<1>7. chan'[c].cred = chan[c].cred
  BY <1>0, FailureKeepsCredential
<1>4. Owing(c)' => Owing(c)
  BY <1>1, <1>3, <1>7, OwingOnlyShrinks
<1>5. CASE UNCHANGED chan \/ c # ChannelOf[j]
  <2>1. chan'[c] = chan[c]
    BY <1>0, <1>5 DEF RecordFailure, Retry
  <2> QED
    BY <1>0, <1>1, <1>4, <2>1, CountKept
<1>6. CASE Retry(ClaimOf(j), ChannelOf[j], task[j].err) /\ c = ChannelOf[j]
  <2>1. PICK d, last : chan' = [chan EXCEPT ![c] =
                                  ChannelAfterFailure(@, ClaimOf(j), d, task[j].err, last)]
    BY <1>6 DEF Retry
  <2>2. PICK S \in SUBSET ClaimOf(j) :
          chan'[c].failures
            = chan[c].failures + (IF task[j].err.kind = "Authentication" THEN Cardinality(S) ELSE 0)
    BY <1>0, <2>1, ClaimOfType, FailuresAfter
  <2>3. n \in Nat /\ Cardinality(S) \in Nat /\ Cardinality(S) <= n
    BY WidthBounds
  <2>4. chan[c].failures \in Nat /\ Against(c) \in Nat
    BY <1>0, AgainstType DEF TypeOK, ChannelRow
  <2>5. Allowed(n, Against(c)) \in Nat /\ Allowed(n, Against(c))' = Allowed(n, Against(c))
    BY <1>1, <2>3, <2>4, AllowedGrows DEF Allowed, Against
  <2>6. CASE task[j].err.kind = "Authentication"
    \* The claim's strikes were still to come, and come now.
    <3>1. Owing(c)
      BY <1>1, <1>6, <2>6 DEF Owing, StrikeToCome, IsCredentialError
    <3>2. AfterRefusal(j) = NoTask
      BY <2>6 DEF AfterRefusal
    <3>3. ~Owing(c)'
      BY <1>0, <1>1, <1>2, <1>6, <1>7, <3>2, OnlyClaimOwes
    <3>4. chan'[c].failures = chan[c].failures + Cardinality(S)
      BY <2>2, <2>6
    <3>5. chan[c].failures + n <= Allowed(n, Against(c))
      BY <1>0, <3>1 DEF Counted
    <3> QED
      BY <2>3, <2>4, <2>5, <3>3, <3>4, <3>5 DEF Counted
  <2>7. CASE task[j].err.kind # "Authentication"
    <3>1. chan'[c].failures = chan[c].failures
      BY <2>2, <2>4, <2>7
    <3> QED
      BY <1>0, <1>1, <1>4, <3>1, CountKept
  <2> QED
    BY <2>6, <2>7
<1> QED
  BY <1>5, <1>6 DEF RecordFailure

LEMMA StrikeCounted ==
  ASSUME IInv, StrikeInv, NEW j \in Jobs, StrikeChannel(j), NEW n \in Widths, NEW c \in Channels
  PROVE  Counted(n, c)'
<1>0. /\ TypeOK /\ chan \in [Channels -> ChannelRow] /\ Counted(n, c)
      /\ OneSendPerChannel /\ ChannelOf[j] \in Channels
  BY QueueAssumption DEF IInv, TypeOK, QueueTypeOK, StrikeInv, StrikesCounted, Counted, Allowed, Against
<1>1. /\ Stage(j) = "striking" /\ Sent(j) /\ InFlight(j)
      /\ task' = Become(ClaimOf(j), NoTask) /\ UNCHANGED strikes /\ NoTask.stage = "idle"
  BY DEF StrikeChannel, Sent, InFlight, ghosts, NoTask, At
<1>2. chan' = [chan EXCEPT ![ChannelOf[j]] = IF @.exists THEN Struck(@, 1) ELSE @]
  BY DEF StrikeChannel, BumpAuthFailure
<1>3. CASE c # ChannelOf[j]
  <2>0. chan'[c] = chan[c]
    BY <1>0, <1>2, <1>3
  <2>1. Owing(c)' => Owing(c)
    BY <1>1, <1>3, <2>0, OwingOnlyShrinks
  <2> QED
    BY <1>0, <1>1, <2>0, <2>1, CountKept
<1>4. CASE c = ChannelOf[j]
  <2>1. ~Owing(c)' /\ Owing(c)
    BY <1>0, <1>1, <1>4, OnlyClaimOwes DEF Owing, StrikeToCome
  <2>2. chan[c].failures \in Nat /\ Against(c) \in Nat
    BY <1>0, AgainstType DEF TypeOK, ChannelRow
  <2>3. Struck(chan[c], 1).failures = chan[c].failures + 1
    BY <1>0 DEF Struck, ChannelRow
  <2>4. chan'[c] = chan[c] \/ chan'[c] = Struck(chan[c], 1)
    BY <1>0, <1>2, <1>4
  <2>5. n \in Nat /\ n >= 1
    BY WidthBounds
  <2>6. Allowed(n, Against(c)) \in Nat /\ Allowed(n, Against(c))' = Allowed(n, Against(c))
    BY <1>1, <2>2, <2>5, AllowedGrows DEF Allowed, Against
  <2>7. chan[c].failures + n <= Allowed(n, Against(c))
    BY <1>0, <2>1 DEF Counted
  <2>8. chan'[c].failures <= chan[c].failures + 1 /\ chan'[c].failures \in Nat
    BY <2>2, <2>3, <2>4
  <2> QED
    BY <2>1, <2>2, <2>5, <2>6, <2>7, <2>8 DEF Counted
<1> QED
  BY <1>3, <1>4

LEMMA RefusalCounted ==
  ASSUME IInv, StrikeInv, NEW j \in Jobs, PlatformRefuses(j), NEW n \in Widths, NEW c \in Channels
  PROVE  Counted(n, c)'
<1>0. TypeOK /\ Counted(n, c) /\ ChannelOf[j] \in Channels
  BY QueueAssumption DEF IInv, StrikeInv, StrikesCounted, Counted, Allowed, Against
<1>1. PICK err \in DeliveryError :
        /\ task' = Become(ClaimOf(j), [task[j] EXCEPT !.stage = "refused", !.err = err])
        /\ strikes' = IF IsCredentialError(err) /\ ~Outdated(j)
                      THEN [strikes EXCEPT ![ChannelOf[j]].own = @ + 1] ELSE strikes
        /\ UNCHANGED chan
  BY <1>0, RefusedWithError
<1> DEFINE t == [task[j] EXCEPT !.stage = "refused", !.err = err]
<1>2. t.stage = "refused" /\ t.err = err
  BY <1>0 DEF TypeOK, Task
<1>3. InFlight(j) /\ Stage(j) = "posting"
  BY DEF PlatformRefuses, InFlight
<1> HIDE DEF t
<1>4. CASE ~IsCredentialError(err) \/ Outdated(j) \/ c # ChannelOf[j]
  \* A refusal of an older credential was owing when that credential was replaced.
  <2>1. ~Owes(t, c) \/ StrikeToCome(j) \/ c # ChannelOf[j]
    BY <1>2, <1>3, <1>4 DEF Owes, StrikeToCome
  <2>2. Owing(c)' => Owing(c)
    BY <1>1, <1>3, <2>1, OwingOnlyShrinks DEF t
  <2>3. strikes'[c] = strikes[c]
    BY <1>0, <1>1, <1>4 DEF TypeOK
  <2> QED
    BY <1>0, <1>1, <2>2, <2>3, CountKept
<1>5. CASE IsCredentialError(err) /\ ~Outdated(j) /\ c = ChannelOf[j]
  <2>1. Against(c)' = Against(c) + 1
    <3>1. strikes[c] \in Tally /\ strikes'[c] = [strikes[c] EXCEPT !.own = @ + 1]
      BY <1>0, <1>1, <1>5 DEF TypeOK
    <3> QED
      BY <3>1 DEF Against, Tally
  <2>2. n \in Nat
    BY WidthBounds
  <2>3. chan[c].failures \in Nat /\ Against(c) \in Nat /\ chan'[c].failures = chan[c].failures
    BY <1>0, <1>1, AgainstType DEF TypeOK, QueueTypeOK, ChannelRow
  <2>4. /\ Allowed(n, Against(c)) \in Nat
        /\ Allowed(n, Against(c))' = Allowed(n, Against(c)) + n
    BY <2>1, <2>2, <2>3, AllowedGrows DEF Allowed
  <2>5. chan[c].failures <= Allowed(n, Against(c))
    BY <1>0, <2>2, <2>3, <2>4 DEF Counted
  <2> QED
    BY <2>2, <2>3, <2>4, <2>5 DEF Counted
<1> QED
  BY <1>4, <1>5

LEMMA HealCounted ==
  ASSUME IInv, StrikeInv, NEW j \in Jobs, HealChannel(j), NEW n \in Widths, NEW c \in Channels
  PROVE  Counted(n, c)'
<1>0. /\ TypeOK /\ chan \in [Channels -> ChannelRow] /\ strikes \in [Channels -> Tally]
      /\ Counted(n, c) /\ ChannelOf[j] \in Channels /\ OneSendPerChannel
  BY QueueAssumption
     DEF IInv, TypeOK, QueueTypeOK, StrikeInv, StrikesCounted, Counted, Allowed, Against
<1>1. /\ InFlight(j) /\ Sent(j) /\ task' = Become(ClaimOf(j), NoTask) /\ NoTask.stage = "idle"
      /\ strikes' = [strikes EXCEPT ![ChannelOf[j]] = NoTally]
      /\ chan' = [chan EXCEPT ![ChannelOf[j]] = IF @.exists THEN Healed(@) ELSE @]
  BY DEF HealChannel, ResetAuthFailures, InFlight, Sent, NoTask, At
<1>2. CASE c # ChannelOf[j]
  <2>0. chan'[c] = chan[c]
    BY <1>0, <1>1, <1>2
  <2>1. Owing(c)' => Owing(c)
    BY <1>1, <1>2, <2>0, OwingOnlyShrinks
  <2> QED
    BY <1>0, <1>1, <1>2, <2>0, <2>1, CountKept
<1>3. CASE c = ChannelOf[j]
  <2>1. Healed(chan[c]).failures = 0
    BY <1>0 DEF Healed, ChannelRow
  <2>2. chan'[c].failures = 0
    BY <1>0, <1>1, <1>3, <2>1 DEF StrikeInv, GoneChannelsAreClean
  <2>3. strikes'[c].own = 0 /\ strikes'[c].older = 0
    BY <1>0, <1>1, <1>3 DEF NoTally
  \* The claim that healed the channel had it for itself.
  <2>4. ~Owing(c)'
    BY <1>0, <1>1, <1>3, OnlyClaimOwes
  <2> QED
    BY <2>2, <2>3, <2>4, CountFresh
<1> QED
  BY <1>2, <1>3

LEMMA NextStrikesCounted ==
  ASSUME IInv, StrikeInv, [Next]_vars
  PROVE  StrikesCounted'
<1> SUFFICES ASSUME NEW n \in Widths, NEW c \in Channels PROVE Counted(n, c)'
  BY DEF StrikesCounted, Counted, Allowed, Against, Widths
<1>0. /\ TypeOK /\ chan \in [Channels -> ChannelRow] /\ strikes \in [Channels -> Tally]
      /\ Counted(n, c)
  BY DEF IInv, TypeOK, QueueTypeOK, StrikeInv, StrikesCounted, Counted, Allowed, Against
<1>1. CASE \E j \in Jobs : RecordFailure(j) \/ StrikeChannel(j) \/ PlatformRefuses(j) \/ HealChannel(j)
  BY <1>1, FailureCounted, StrikeCounted, RefusalCounted, HealCounted
<1>2. ASSUME NEW j \in Jobs,
             \/ Admit(j) \/ Post(j) \/ PlatformAccepts(j) \/ RecordSuccess(j)
             \/ TaskFails(j) \/ RetryNotRecorded(j)
      PROVE  Counted(n, c)'
  <2>1. InFlight(j) /\ UNCHANGED <<chan, strikes>>
    BY <1>2 DEF Admit, Post, SendFrom, PlatformAccepts, RecordSuccess, RecordSuccessAt, Complete,
       TaskFails, RetryNotRecorded, InFlight, ghosts
  <2>2. /\ NoTask.stage = "idle" /\ At("admitted").stage = "admitted"
        /\ [At("posting") EXCEPT !.cred = chan[ChannelOf[j]].cred].stage = "posting"
        /\ \A s \in Stages : [task[j] EXCEPT !.stage = s].stage = s
    BY <1>0 DEF NoTask, At, TypeOK, Task
  <2>3. \E t : /\ task' = Become(ClaimOf(j), t)
               /\ ~Owes(t, c) \/ StrikeToCome(j) \/ c # ChannelOf[j]
    <3>1. CASE Admit(j) \/ PlatformAccepts(j) \/ RecordSuccess(j) \/ TaskFails(j)
      <4>1. \E t : task' = Become(ClaimOf(j), t) /\ t.stage \notin {"posting", "refused", "striking"}
        BY <2>2, <3>1 DEF Admit, PlatformAccepts, RecordSuccess, RecordSuccessAt,
           TaskFails, Abandon, Stages
      <4> QED
        BY <4>1 DEF Owes
    \* A send starts with the channel's current credential.
    <3>3. CASE Post(j)
      <4> DEFINE p == [At("posting") EXCEPT !.cred = chan[ChannelOf[j]].cred]
      <4>1. p.stage = "posting" /\ p.cred = chan[ChannelOf[j]].cred
        BY DEF At
      <4>2. task' = Become(ClaimOf(j), p) \/ task' = Become(ClaimOf(j), NoTask)
        BY <3>3 DEF Post, SendFrom
      <4> HIDE DEF p
      <4>3. ~Owes(p, c) \/ c # ChannelOf[j]
        BY <4>1 DEF Owes
      <4>4. ~Owes(NoTask, c)
        BY <2>2 DEF Owes
      <4> QED
        BY <4>2, <4>3, <4>4
    <3>2. CASE RetryNotRecorded(j)
      <4>1. task' = Become(ClaimOf(j), AfterRefusal(j)) /\ Stage(j) = "refused"
        BY <3>2 DEF RetryNotRecorded
      <4>2. ~Owes(AfterRefusal(j), c) \/ StrikeToCome(j)
        BY <2>2, <4>1 DEF AfterRefusal, Owes, StrikeToCome, IsCredentialError
      <4> QED
        BY <4>1, <4>2
    <3> QED
      BY <1>2, <3>1, <3>2, <3>3
  <2>4. Owing(c)' => Owing(c)
    BY <2>1, <2>3, OwingOnlyShrinks
  <2> QED
    BY <1>0, <2>1, <2>4, CountKept
<1>3. CASE ClaimDue \/ Restart
  <2>1. \A k \in Jobs : task'[k] = task[k] \/ task'[k] = At("queued") \/ task'[k] = At("idle")
    BY <1>3 DEF ClaimDue, Become, Restart, NoTask
  <2>2. At("queued").stage = "queued" /\ At("idle").stage = "idle"
    BY DEF At
  <2>3. UNCHANGED <<chan, strikes>>
    BY <1>3 DEF ClaimDue, Restart, ghosts
  <2>4. Owing(c)' => Owing(c)
    BY <2>1, <2>2, <2>3 DEF Owing, StrikeToCome, Stage, Outdated
  <2> QED
    BY <1>0, <2>3, <2>4, CountKept
<1>4. ASSUME NEW e \in Channels, UserSavesChannel(e) \/ UserDeletesChannel(e) PROVE Counted(n, c)'
  <2>1. PICK x, k : chan' = [chan EXCEPT ![e] = CleanChannel(x, k)]
    BY <1>4 DEF UserSavesChannel, SaveChannel, FreshChannel, UserDeletesChannel, DeleteChannel
  <2>2. /\ UNCHANGED task
        /\ strikes' = [strikes EXCEPT ![e] = [own |-> 0, older |-> IF ChannelBusy(e) THEN 1 ELSE 0]]
    BY <1>4 DEF UserSavesChannel, UserDeletesChannel, Recount
  <2>3. CASE c = e
    <3>1. chan'[c].failures = 0
      BY <1>0, <2>1, <2>3 DEF CleanChannel
    <3>2. strikes'[c].own = 0 /\ strikes'[c].older = IF ChannelBusy(c) THEN 1 ELSE 0
      BY <1>0, <2>2, <2>3
    <3>3. Owing(c)' => ChannelBusy(c)
      BY <2>2 DEF Owing, StrikeToCome, Stage, ChannelBusy
    <3> QED
      BY <3>1, <3>2, <3>3, CountFresh
  <2>4. CASE c # e
    <3>1. chan'[c] = chan[c] /\ strikes'[c] = strikes[c]
      BY <1>0, <2>1, <2>2, <2>4
    <3> QED
      BY <1>0, <2>2, <3>1, OwingStays, CountKept
  <2> QED
    BY <2>3, <2>4
<1>5. CASE UNCHANGED <<chan, strikes, task>>
  BY <1>0, <1>5, OwingStays, CountKept
<1>6. CASE \/ Tick \/ Sweep \/ PassFails \/ UserClearsHistory \/ Retain \/ UNCHANGED vars
           \/ \E j \in Jobs : Accept(j) \/ UserRetries(j)
  BY <1>5, <1>6 DEF Tick, Sweep, ExpireDue, PassFails, UserClearsHistory, ClearHistory, Retain,
     Prune, vars, Accept, Enqueue, UserRetries, ManualRetry, ghosts
<1> QED
  BY <1>1, <1>2, <1>3, <1>4, <1>6 DEF Next, TaskStep

LEMMA InitStrikeInv == Init => StrikeInv
<1> SUFFICES ASSUME Init PROVE StrikeInv
  OBVIOUS
<1>1. OneSendPerChannel
  BY DEF Init, OneSendPerChannel, Sent, Stage, NoTask, At
<1>2. GoneChannelsAreClean
  BY DEF Init, QueueInit, GoneChannelsAreClean, Present, Blank, FreshChannel, CleanChannel
<1>3. ASSUME NEW n \in Widths, NEW c \in Channels
      PROVE  chan[c].failures + (IF Owing(c) THEN n ELSE 0) <= n * (strikes[c].own + strikes[c].older)
  <2>1. n \in Nat
    BY QueueAssumption, FS_CardinalityType DEF Widths
  <2>2. chan[c].failures = 0 /\ strikes[c].own = 0 /\ strikes[c].older = 0
    BY DEF Init, QueueInit, FreshChannel, CleanChannel, NoTally
  <2>3. ~Owing(c)
    BY DEF Init, Owing, StrikeToCome, Stage, NoTask, At
  <2> QED
    BY <2>1, <2>2, <2>3
<1> QED
  BY <1>1, <1>2, <1>3 DEF StrikeInv, StrikesCounted

\* However sends, refusals, outcomes and credentials follow each other, a channel
\* carries no strikes but those of refusals of the credential it has now, and of
\* at most one send that an older credential had out when it was replaced
\* (process_claim's permit and its reading of the channel after it,
\* bump_auth_failure, reset_auth_failures, save_channel).
THEOREM OldCredentialStrikesOnce == Spec => []OneStaleStrike
<1>1. Init => StrikeInv
  BY InitStrikeInv
<1>2. IInv /\ StrikeInv /\ [Next]_vars => StrikeInv'
  BY NextOneSendPerChannel, NextGoneChannelsAreClean, NextStrikesCounted DEF StrikeInv
<1>3. IInv /\ StrikeInv => OneStaleStrike
  <2> SUFFICES ASSUME IInv, StrikeInv, NEW n \in Widths, NEW c \in Channels
               PROVE  chan[c].failures <= Allowed(n, Against(c))
    BY DEF OneStaleStrike, Allowed, Against
  <2>1. n \in Nat /\ chan[c].failures \in Nat /\ Against(c) \in Nat
    BY QueueAssumption, FS_CardinalityType, AgainstType
       DEF Widths, IInv, TypeOK, QueueTypeOK, ChannelRow
  <2>2. Allowed(n, Against(c)) \in Nat
    BY <2>1, AllowedGrows
  <2>3. Counted(n, c)
    BY DEF StrikeInv, StrikesCounted, Counted, Allowed, Against
  <2> QED
    BY <2>1, <2>2, <2>3 DEF Counted
<1> QED
  BY <1>1, <1>2, <1>3, InductiveInvariant, PTL DEF Spec

-----------------------------------------------------------------------------
(* Action properties, and the promise *)

LEMMA NextSweptInv ==
  ASSUME IInv, SweptInv, [Next]_vars
  PROVE  SweptInv'
<1>0. /\ TypeOK /\ now \in Nat /\ pass \in Pass
      /\ \A k \in Jobs : job[k].expires \in Nat /\ job[k] \in JobRow
  BY JobRowFieldTypes DEF IInv, TypeOK, QueueTypeOK
<1>1. CASE Sweep
  <2> SUFFICES ASSUME NEW k \in Jobs, job'[k].state \in Waiting PROVE job'[k].expires > now
    BY <1>0, <1>1 DEF Sweep, ExpireDue, SweptInv
  <2>1. [job[k] EXCEPT !.state = "expired", !.lease = NoLease].state = "expired"
    BY <1>0 DEF JobRow
  <2>2. job'[k] = job[k] /\ now < job[k].expires
    BY <1>0, <1>1, <2>1, SweepRow DEF Waiting
  <2> QED
    BY <1>0, <2>2
<1>2. CASE ClaimDue \/ PassFails \/ Restart
  BY <1>2 DEF ClaimDue, PassFails, Restart, NoPass, SweptInv
\* Nothing is in flight, so no task brings a row back to waiting.
<1>3. CASE \E j \in Jobs : TaskFails(j) \/ RetryNotRecorded(j) \/ TaskStep(j)
  <2>1. PICK j \in Jobs : TaskFails(j) \/ RetryNotRecorded(j) \/ TaskStep(j)
    BY <1>3
  <2>2. InFlight(j)
    BY <2>1 DEF InFlight, TaskStep, TaskFails, RetryNotRecorded, Admit, Post, SendFrom,
       PlatformAccepts, PlatformRefuses, RecordSuccess, RecordSuccessAt, HealChannel,
       RecordFailure, StrikeChannel
  <2>3. pass' = pass
    BY <2>1 DEF TaskStep, TaskFails, RetryNotRecorded, Admit, Post, SendFrom,
       PlatformAccepts, PlatformRefuses, RecordSuccess, RecordSuccessAt, HealChannel,
       RecordFailure, StrikeChannel
  <2> QED
    BY <2>2, <2>3 DEF IInv, PassIsQuiet, Resting, SweptInv
<1>4. ASSUME UNCHANGED <<now, pass>>, \A k \in Jobs : Kept(k) \/ job'[k].state = "deleted"
      PROVE  SweptInv'
  BY <1>4 DEF SweptInv, Kept, Waiting
<1>5. CASE UserClearsHistory \/ Retain \/ \E c \in Channels : UserDeletesChannel(c)
  <2>1. PICK S : job' = Removed(S) /\ UNCHANGED <<now, pass>>
    BY <1>5 DEF UserClearsHistory, ClearHistory, Retain, Prune, UserDeletesChannel, DeleteChannel
  <2> QED
    BY <1>4, <2>1, RemovedRow DEF Kept, Blank
<1>6. CASE UNCHANGED vars \/ \E c \in Channels : UserSavesChannel(c)
  BY <1>4, <1>6 DEF vars, UserSavesChannel, SaveChannel, Kept
<1>7. CASE Tick
  BY <1>0, <1>7 DEF Tick, SweptInv, Pass
<1>8. ASSUME NEW j \in Jobs, Accept(j) PROVE SweptInv'
  <2>1. PICK ttl \in TTLs : Enqueue(j, ttl)
    BY <1>8 DEF Accept
  <2>2. ttl \in Nat \ {0}
    BY QueueAssumption
  <2> DEFINE r == [Blank("pending") EXCEPT !.next = now, !.expires = now + ttl, !.created = now]
  <2>3. r.expires = now + ttl
    BY DEF Blank
  <2>4. UNCHANGED <<now, pass>> /\ job' = [job EXCEPT ![j] = r]
    BY <1>8, <2>1 DEF Accept, Enqueue
  <2> HIDE DEF r
  <2>5. job'[j].expires = now + ttl /\ \A k \in Jobs : k # j => job'[k] = job[k]
    BY <2>3, <2>4 DEF IInv, TypeOK, QueueTypeOK
  <2>6. pass.at \in Nat
    BY <1>0 DEF Pass
  <2> QED
    BY <1>0, <2>2, <2>4, <2>5, <2>6 DEF SweptInv
<1>9. ASSUME NEW j \in Jobs, UserRetries(j) PROVE SweptInv'
  <2>1. \A k \in Jobs : k # j => Kept(k)
    BY <1>0, <1>9, ReopenMoves
  <2>2. pass' = IF pass.open THEN [pass EXCEPT !.revived = @ \cup {j}] ELSE pass
    BY <1>9 DEF UserRetries
  <2>3. /\ pass'.open = pass.open /\ pass'.at = pass.at
        /\ pass.open => pass'.revived = pass.revived \cup {j}
    BY <1>0, <2>2 DEF Pass
  <2>4. now' = now
    BY <1>9 DEF UserRetries, ManualRetry
  <2> QED
    BY <2>1, <2>3, <2>4 DEF SweptInv, Kept
<1> QED
  BY <1>1, <1>2, <1>3, <1>5, <1>6, <1>7, <1>8, <1>9 DEF Next

\* A waiting job is claimed past its deadline only if the user retried it between
\* the sweep and the claim of the same pass: expire_due and claim_due use one
\* reading of the clock, and of all that can happen between the two transactions
\* (new jobs, edits, deletions, manual retries) only manual_retry, which does not
\* read the deadline, makes a late job claimable.
THEOREM LateJobsAreSwept == Spec => NoLateClaim
<1> DEFINE A == \A j \in Jobs : job[j].state \in Waiting /\ job'[j].state = "sending"
                                  => job[j].expires > pass.at \/ j \in pass.revived
<1>1. Init => SweptInv
  BY DEF Init, NoPass, SweptInv
<1>2. IInv /\ SweptInv /\ [Next]_vars => SweptInv'
  BY NextSweptInv
<1>3. ASSUME IInv, SweptInv, [Next]_vars PROVE A
  <2> SUFFICES ASSUME NEW j \in Jobs, job[j].state \in Waiting, job'[j].state = "sending"
               PROVE  job[j].expires > pass.at \/ j \in pass.revived
    OBVIOUS
  <2>1. Claimed(j)
    BY <1>3, RowMoves DEF Kept, SweptAway, Claimed, Succeeded, Refused, Waiting
  <2> QED
    BY <1>3, <2>1 DEF Claimed, ClaimDue, SweptInv
<1>4. IInv /\ SweptInv /\ [Next]_vars => [A]_vars
  BY <1>3
<1> QED
  BY <1>1, <1>2, <1>4, InductiveInvariant, PTL DEF Spec, NoLateClaim

\* A job's outcome is final: only the user's retry of a failed job and the
\* deletion of its row come after it.
THEOREM OutcomesAreFinal == Spec => OutcomeIsFinal
<1> DEFINE A == \A j \in Jobs :
       /\ job[j].state \in {"succeeded", "expired"} => job'[j].state \in {job[j].state, "deleted"}
       /\ job[j].state = "failed" /\ job'[j].state \notin {"failed", "deleted"}
            => job'[j].state = "pending" /\ job'[j].attempts = 0
<1>1. ASSUME IInv, [Next]_vars PROVE A
  BY <1>1, RowMoves DEF Kept, SweptAway, Claimed, Succeeded, Refused, Waiting
<1>2. IInv /\ [Next]_vars => [A]_vars
  BY <1>1
<1> QED
  BY <1>2, InductiveInvariant, PTL DEF Spec, OutcomeIsFinal

-----------------------------------------------------------------------------
(* The worker implements AtLeastOnce *)

LEMMA PhaseMeaning ==
  ASSUME NEW s
  PROVE  /\ s = "absent" <=> PhaseOf(s) = "none"
         /\ s = "deleted" <=> PhaseOf(s) = "removed"
         /\ s \in Terminal => PhaseOf(s) = s
         /\ s \notin Terminal \cup {"absent", "deleted"} => PhaseOf(s) = "open"
BY DEF PhaseOf, Terminal

LEMMA InitPromise == Init => Promise!Init
BY PhaseMeaning DEF Init, QueueInit, Blank, Promise!Init, phase

\* A step that only sweeps, claims and records outcomes concludes some
\* notifications and leaves the others open.
LEMMA ConcludingStep ==
  ASSUME TypeOK, UNCHANGED copies,
         \A k \in Jobs : Kept(k) \/ SweptAway(k) \/ Claimed(k) \/ Succeeded(k) \/ Refused(k)
  PROVE  Promise!Conclude
<1> SUFFICES ASSUME NEW k \in Jobs
             PROVE  /\ phase'[k] \in Promise!Phases
                    /\ phase'[k] = phase[k] \/ Promise!Concluded(k, phase'[k])
  BY DEF Promise!Conclude, phase
<1>1. job[k] \in JobRow /\ phase[k] = PhaseOf(job[k].state) /\ phase'[k] = PhaseOf(job'[k].state)
  BY DEF TypeOK, QueueTypeOK, phase
<1>2. CASE Kept(k)
  BY <1>1, <1>2 DEF Kept, PhaseOf, Promise!Phases, JobRow, Waiting, Terminal
<1>3. CASE SweptAway(k) \/ Claimed(k) \/ Succeeded(k) \/ Refused(k)
  BY <1>1, <1>3 DEF SweptAway, Claimed, Succeeded, Refused, PhaseOf, Promise!Phases,
     Promise!Concluded, Waiting, Terminal
<1> QED
  BY <1>2, <1>3

LEMMA ReceivingStep ==
  ASSUME IInv, UNCHANGED job, NEW S \in SUBSET Jobs,
         \A k \in S : Stage(k) = "posting",
         copies' = [k \in Jobs |-> IF k \in S THEN copies[k] + 1 ELSE copies[k]]
  PROVE  Promise!Receive(S)
<1>1. phase' = phase
  BY DEF phase
<1>2. \A k \in S : phase[k] \in {"open", "removed"}
  BY DEF IInv, TaskOwnsItsRow, phase, PhaseOf, Terminal
<1> QED
  BY <1>1, <1>2 DEF Promise!Receive

LEMMA PostingClaim ==
  ASSUME IInv, NEW j \in Jobs, Stage(j) = "posting"
  PROVE  ClaimOf(j) \in SUBSET Jobs /\ \A k \in ClaimOf(j) : Stage(k) = "posting"
BY ClaimTasks, ClaimOfType DEF IInv, InFlight, Stage

LEMMA NextPromise ==
  ASSUME IInv, [Next]_vars
  PROVE  [Promise!Next]_<<phase, copies>>
<1>0. TypeOK
  BY DEF IInv
<1>1. ASSUME NEW j \in Jobs, Accept(j) PROVE Promise!Take(j)
  <2>1. \A k \in Jobs : phase'[k] = IF k = j THEN "open" ELSE phase[k]
    BY <1>0, <1>1, AcceptMoves, PhaseMeaning DEF phase, Kept, Terminal
  <2>2. phase[j] = "none"
    BY <1>0, <1>1, AcceptMoves, PhaseMeaning DEF phase
  <2>3. phase' = [phase EXCEPT ![j] = "open"]
    BY <2>1 DEF phase
  <2> QED
    BY <1>1, <2>2, <2>3 DEF Promise!Take, Accept, ghosts
<1>2. ASSUME NEW j \in Jobs, UserRetries(j) PROVE Promise!Reopen(j)
  <2>1. \A k \in Jobs : phase'[k] = IF k = j THEN "open" ELSE phase[k]
    BY <1>0, <1>2, ReopenMoves DEF phase, PhaseOf, Kept, Terminal
  <2>2. phase' = [phase EXCEPT ![j] = "open"] /\ phase[j] = "failed"
    BY <1>0, <1>2, <2>1, ReopenMoves DEF phase, PhaseOf, Terminal
  <2> QED
    BY <1>2, <2>2 DEF Promise!Reopen, UserRetries
<1>3. CASE UserClearsHistory \/ Retain \/ \E c \in Channels : UserDeletesChannel(c)
  <2>1. PICK S : job' = Removed(S) /\ copies' = copies
    BY <1>3 DEF UserClearsHistory, ClearHistory, Retain, Prune, UserDeletesChannel, DeleteChannel,
       ghosts
  <2> DEFINE G == {k \in Jobs : k \in S /\ Present(k)}
  <2>2. \A k \in Jobs : phase'[k] = IF k \in G THEN "removed" ELSE phase[k]
    <3>1. \A k \in Jobs : job'[k] = IF k \in G THEN Blank("deleted") ELSE job[k]
      BY <2>1 DEF Removed
    <3>2. Blank("deleted").state = "deleted"
      BY DEF Blank
    <3> QED
      BY <3>1, <3>2, PhaseMeaning DEF phase
  <2>3. \A k \in G : phase[k] # "none"
    BY <1>0 DEF phase, PhaseOf, Present, Terminal
  <2>4. phase' = [k \in Jobs |-> IF k \in G THEN "removed" ELSE phase[k]]
    BY <2>2 DEF phase
  <2>5. Promise!Remove(G)
    BY <2>1, <2>3, <2>4 DEF Promise!Remove
  <2> QED
    BY <2>5 DEF Promise!Next
<1>4. CASE Sweep \/ ClaimDue
  <2>1. copies' = copies
    BY <1>4 DEF Sweep, ClaimDue, ghosts
  <2> QED
    BY <1>0, <1>4, <2>1, PassMoves, ConcludingStep DEF Promise!Next
<1>5. ASSUME NEW j \in Jobs, RecordSuccess(j) \/ RecordFailure(j) PROVE Promise!Conclude
  <2>1. copies' = copies
    BY <1>5 DEF RecordSuccess, RecordSuccessAt, RecordFailure, ghosts
  <2> QED
    BY <1>0, <1>5, <2>1, SuccessMoves, FailureMoves, ConcludingStep
<1>6. ASSUME NEW j \in Jobs, PlatformAccepts(j) PROVE Promise!Receive(ClaimOf(j))
  BY <1>0, <1>6, AcceptedOnce, PostingClaim, ReceivingStep DEF PlatformAccepts
<1>7. ASSUME NEW j \in Jobs, PlatformRefuses(j)
      PROVE  Promise!Receive(ClaimOf(j)) \/ UNCHANGED <<phase, copies>>
  <2>1. PICK taken \in BOOLEAN :
          copies' = [k \in Jobs |-> IF taken /\ k \in ClaimOf(j) THEN copies[k] + 1 ELSE copies[k]]
    BY <1>0, <1>7, RefusedWithError
  <2>2. Stage(j) = "posting" /\ job' = job
    BY <1>7 DEF PlatformRefuses
  <2>3. CASE taken
    BY <2>1, <2>2, <2>3, PostingClaim, ReceivingStep
  <2>4. CASE ~taken
    BY <1>0, <2>1, <2>2, <2>4 DEF phase, TypeOK
  <2> QED
    BY <2>3, <2>4
<1>8. CASE Restart
  <2>1. PICK R \in SUBSET {ClaimOf(k) : k \in {i \in Jobs : Stage(i) = "posting"}} :
          copies' = [j \in Jobs |-> IF j \in UNION R THEN copies[j] + 1 ELSE copies[j]]
    BY <1>8 DEF Restart
  <2>2. UNION R \in SUBSET Jobs /\ \A k \in UNION R : Stage(k) = "posting"
    BY PostingClaim
  <2>3. Promise!Receive(UNION R)
    BY <1>8, <2>1, <2>2, ReceivingStep DEF Restart
  <2> QED
    BY <2>2, <2>3 DEF Promise!Next
<1>9. CASE UNCHANGED <<job, copies>>
  BY <1>9 DEF phase
<1>10. CASE \/ Tick \/ PassFails \/ UNCHANGED vars
            \/ \E j \in Jobs : TaskFails(j) \/ RetryNotRecorded(j)
            \/ \E j \in Jobs : Admit(j) \/ Post(j) \/ HealChannel(j) \/ StrikeChannel(j)
            \/ \E c \in Channels : UserSavesChannel(c)
  BY <1>9, <1>10 DEF Tick, PassFails, vars, TaskFails, RetryNotRecorded, Admit, Post, SendFrom,
     HealChannel, ResetAuthFailures, StrikeChannel, BumpAuthFailure, UserSavesChannel,
     SaveChannel, ghosts
<1> QED
  BY <1>1, <1>2, <1>3, <1>4, <1>5, <1>6, <1>7, <1>8, <1>10, ClaimOfType
     DEF Next, TaskStep, Promise!Next

\* The queue and its worker implement AtLeastOnce: an accepted notification is
\* concluded once, as a success only after the platform received it, and the
\* platform receives copies only while it is open or removed.
THEOREM ImplementsAtLeastOnce == Spec => KeepsPromise
<1>1. IInv /\ [Next]_vars => [Promise!Next]_<<phase, copies>>
  BY NextPromise
<1> QED
  BY InitPromise, <1>1, InductiveInvariant, PTL DEF Spec, KeepsPromise, Promise!Spec

=============================================================================
