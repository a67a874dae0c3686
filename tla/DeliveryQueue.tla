--------------------------- MODULE DeliveryQueue ---------------------------
(***************************************************************************)
(* The delivery queue kept in SQLite (storage/queue.rs): the rows of       *)
(* delivery_jobs and channels, and one operator per transaction.  Whoever  *)
(* calls the transactions is in DeliveryWorker.                            *)
(***************************************************************************)
EXTENDS RetryPolicy, FiniteSets

CONSTANTS
  Jobs,                \* identities of delivery jobs: one per event, rule version and channel
  Channels,
  Buckets,             \* aggregate keys
  NoBucket,            \* the NULL aggregate key
  ChannelOf,           \* job -> the channel it is addressed to
  BucketOf,            \* job -> its aggregate key, or NoBucket
  ReleaseOf,           \* bucket -> when its window ends
  TTLs,                \* time to live a rule may give
  LeaseDuration,
  MaxBatch,            \* claims one pass may take
  AuthPauseThreshold,  \* AUTH_PAUSE_THRESHOLD
  Cooldown             \* the one second a retried channel rests at least

\* The aggregate key hashes the channel in, so a bucket never spans channels.
ASSUME QueueAssumption ==
  /\ IsFiniteSet(Jobs)
  /\ NoBucket \notin Buckets
  /\ ChannelOf \in [Jobs -> Channels]
  /\ BucketOf \in [Jobs -> Buckets \cup {NoBucket}]
  /\ ReleaseOf \in [Buckets -> Nat]
  /\ \A i, j \in Jobs : BucketOf[i] = BucketOf[j] /\ BucketOf[i] # NoBucket
                          => ChannelOf[i] = ChannelOf[j]
  /\ TTLs \subseteq Nat \ {0}
  /\ LeaseDuration \in Nat \ {0}
  /\ MaxBatch \in Nat
  /\ AuthPauseThreshold \in Nat \ {0}
  /\ Cooldown \in Nat \ {0}

VARIABLES
  now,   \* wall clock
  job,   \* delivery_jobs, with the number of rows each has in delivery_attempts
  chan   \* channels

queueVars == <<now, job, chan>>

NoLease == 0
Unlimited == 0
Waiting == {"pending", "retry_wait"}
Terminal == {"succeeded", "failed", "expired"}

\* "absent" is a row not inserted yet, "deleted" one removed: ids are never reused.
JobRow ==
  [state : Waiting \cup Terminal \cup {"sending", "absent", "deleted"},
   attempts : Nat, next : Nat, expires : Nat, created : Nat, lease : Nat, ledger : Nat]

ChannelRow ==
  [exists : BOOLEAN, failures : Nat, paused : BOOLEAN, allowed : Nat, cred : Nat]

Blank(state) ==
  [state |-> state, attempts |-> 0, next |-> 0, expires |-> 0, created |-> 0,
   lease |-> NoLease, ledger |-> 0]

CleanChannel(exists, cred) ==
  [exists |-> exists, failures |-> 0, paused |-> FALSE, allowed |-> Unlimited, cred |-> cred]
FreshChannel(cred) == CleanChannel(TRUE, cred)

QueueInit ==
  /\ now = 0
  /\ job = [j \in Jobs |-> Blank("absent")]
  /\ chan = [c \in Channels |-> FreshChannel(0)]

Present(j) == job[j].state \notin {"absent", "deleted"}

(***************************************************************************)
(* enqueue_in_tx: the row is inserted once; a foreign key needs the        *)
(* channel.  The release of a bucket was decided before this transaction:  *)
(* a member may arrive after it, and after its summary went out.           *)
(***************************************************************************)
Enqueue(j, ttl) ==
  /\ job[j].state = "absent"
  /\ chan[ChannelOf[j]].exists
  /\ job' = [job EXCEPT ![j] =
       [Blank("pending") EXCEPT !.next = now, !.expires = now + ttl, !.created = now]]
  /\ UNCHANGED <<now, chan>>

(***************************************************************************)
(* expire_due, a transaction of its own, by the clock.                     *)
(***************************************************************************)
Expired(states) ==
  [j \in Jobs |->
     IF job[j].state \in states /\ job[j].expires <= now
     THEN [job[j] EXCEPT !.state = "expired", !.lease = NoLease]
     ELSE job[j]]

SweptForgettingRetries == Expired({"pending"})   \* a mutant of Swept
Swept == Expired(Waiting)

ExpireDue ==
  /\ job' = Swept
  /\ UNCHANGED <<now, chan>>

(***************************************************************************)
(* claim_due: what is due at a time t its caller read before.              *)
(***************************************************************************)
LeaseRunOut(r, t) == r.lease # NoLease /\ r.lease <= t

ClaimableNeverRecovered(r, t) == r.state \in Waiting   \* a mutant of Claimable
Claimable(r, t) == r.state \in Waiting \/ (r.state = "sending" /\ LeaseRunOut(r, t))

ChannelOpen(c, t) == chan[c].exists /\ ~chan[c].paused /\ chan[c].allowed <= t

DueSingles(t) ==
  {j \in Jobs : /\ BucketOf[j] = NoBucket
                /\ Claimable(job[j], t)
                /\ job[j].next <= t
                /\ ChannelOpen(ChannelOf[j], t)}

\* bucket_job_ids: neither the members' next attempt nor their deadline is read.
BucketMembers(b, t) ==
  {j \in Jobs : BucketOf[j] = b /\ Claimable(job[j], t) /\ ChannelOpen(ChannelOf[j], t)}

DueBuckets(t) ==
  {b \in Buckets : BucketMembers(b, t) # {} /\ ReleaseOf[b] <= t}

\* The first k of a due set in the order of the query (ties by id: either way).
IsFirst(S, Due, k, before(_, _)) ==
  /\ S \subseteq Due
  /\ Cardinality(S) = IF k < Cardinality(Due) THEN k ELSE Cardinality(Due)
  /\ \A s \in S, d \in Due \ S : ~before(d, s)

Older(i, j) ==
  \/ job[i].next < job[j].next
  \/ job[i].next = job[j].next /\ job[i].created < job[j].created

\* Singles fill the pass first, whole buckets take what room is left.
Claims(S, B, t) ==
  /\ IsFirst(S, DueSingles(t), MaxBatch, LAMBDA i, j : Older(i, j))
  /\ IsFirst(B, DueBuckets(t), MaxBatch - Cardinality(S),
             LAMBDA a, b : ReleaseOf[a] < ReleaseOf[b])

ClaimedJobs(S, B, t) == S \cup UNION {BucketMembers(b, t) : b \in B}

Leased(C, t) ==
  [j \in Jobs |->
     IF j \in C THEN [job[j] EXCEPT !.state = "sending", !.lease = t + LeaseDuration]
                ELSE job[j]]

(***************************************************************************)
(* complete and complete_aggregate: one transaction, which fails as a      *)
(* whole unless every row is still in `sending`.                           *)
(***************************************************************************)
AllSending(C) == \A j \in C : job[j].state = "sending"

\* Mutants of Completed: the lease stays, the state stays.
CompletedKeepingLease(r) ==
  [r EXCEPT !.state = "succeeded", !.attempts = @ + 1, !.ledger = @ + 1]
CompletedStillSending(r) == [r EXCEPT !.attempts = @ + 1, !.ledger = @ + 1]

Completed(r) ==
  [r EXCEPT !.state = "succeeded", !.attempts = @ + 1, !.lease = NoLease, !.ledger = @ + 1]

Complete(C) ==
  /\ AllSending(C)
  /\ job' = [j \in Jobs |-> IF j \in C THEN Completed(job[j]) ELSE job[j]]
  /\ UNCHANGED <<now, chan>>

(***************************************************************************)
(* retry and retry_aggregate: apply_retry for every row of the claim.      *)
(***************************************************************************)
StateAfter(d) ==
  CASE d.kind = "RetryAt" -> "retry_wait"
    [] d.kind = "Fail"    -> "failed"
    [] d.kind = "Expire"  -> "expired"

AfterFailure(r, d) ==
  [r EXCEPT !.state = StateAfter(d),
            !.attempts = @ + 1,
            !.next = IF d.kind = "RetryAt" THEN d.at ELSE @,
            !.lease = NoLease,
            !.ledger = @ + 1]

\* n strikes at once: every UPDATE adds one and pauses at the threshold.
StruckNeverPausing(r, n) == [r EXCEPT !.failures = @ + n]   \* a mutant of Struck
Struck(r, n) ==
  [r EXCEPT !.failures = @ + n,
            !.paused = @ \/ (n > 0 /\ r.failures + n >= AuthPauseThreshold)]

Latest(a, b) == IF a > b THEN a ELSE b

\* What the claim's channel row becomes.  Every rescheduled member overwrites
\* next_allowed_at in turn, so it ends with the time of one of them; every
\* member that fails on Authentication strikes.
ChannelAfterFailure(r, C, d, err, last) ==
  LET failed == {j \in C : d[j].kind = "Fail"}
      retried == {j \in C : d[j].kind = "RetryAt"}
      struck == IF err.kind = "Authentication" THEN Struck(r, Cardinality(failed)) ELSE r
  IN  IF retried = {} THEN struck
      ELSE [struck EXCEPT !.allowed = Latest(d[last].at, now + Cooldown)]

Retry(C, c, err) ==
  /\ AllSending(C)
  /\ \E d \in [C -> UNION {Classify(job[j].attempts, job[j].expires, now, err) : j \in C}] :
       /\ \A j \in C : d[j] \in Classify(job[j].attempts, job[j].expires, now, err)
       /\ job' = [j \in Jobs |-> IF j \in C THEN AfterFailure(job[j], d[j]) ELSE job[j]]
       /\ \E last \in C :
            /\ (\E j \in C : d[j].kind = "RetryAt") => d[last].kind = "RetryAt"
            /\ chan' = [chan EXCEPT ![c] = ChannelAfterFailure(@, C, d, err, last)]
  /\ UNCHANGED now

\* bump_auth_failure and reset_auth_failures update the row if it is there.
BumpAuthFailure(c) ==
  /\ chan' = [chan EXCEPT ![c] = IF @.exists THEN Struck(@, 1) ELSE @]
  /\ UNCHANGED <<now, job>>

Healed(r) == [r EXCEPT !.failures = 0, !.paused = FALSE]

ResetAuthFailures(c) ==
  /\ chan' = [chan EXCEPT ![c] = IF @.exists THEN Healed(@) ELSE @]
  /\ UNCHANGED <<now, job>>

(***************************************************************************)
(* Commands of the user interface and the retention loop.                  *)
(***************************************************************************)
\* Mutants of Retriable: any row, any outcome.
RetriableAny(j) == Present(j)
RetriableFinished(j) == job[j].state \in Terminal
Retriable(j) == job[j].state = "failed"

\* manual_retry: a failed job of an open channel starts over; its deadline is
\* neither read nor changed.
ManualRetry(j) ==
  /\ Retriable(j)
  /\ ChannelOpen(ChannelOf[j], now)
  /\ job' = [job EXCEPT ![j] =
       [@ EXCEPT !.state = "pending", !.attempts = 0, !.next = now, !.lease = NoLease]]
  /\ UNCHANGED <<now, chan>>

\* save_channel and replace_channel_credential: an upsert under the id given.
SaveChannel(c) ==
  /\ chan' = [chan EXCEPT ![c] = FreshChannel(@.cred + 1)]
  /\ UNCHANGED <<now, job>>

Removed(S) == [j \in Jobs |-> IF j \in S /\ Present(j) THEN Blank("deleted") ELSE job[j]]

\* delete_channel: the foreign key takes the channel's jobs along.
DeleteChannel(c) ==
  /\ chan[c].exists
  /\ chan' = [chan EXCEPT ![c] = CleanChannel(FALSE, @.cred)]
  /\ job' = Removed({j \in Jobs : ChannelOf[j] = c})
  /\ UNCHANGED now

Finished(j) == job[j].state \in Terminal

\* clear_history: terminal rows only.
ClearHistory ==
  /\ job' = Removed({j \in Jobs : Finished(j)})
  /\ UNCHANGED <<now, chan>>

\* retention: every row created before the cutoff, whatever its state.
Prune(age) ==
  /\ job' = Removed({j \in Jobs : job[j].created + age < now})
  /\ UNCHANGED <<now, chan>>

QueueTypeOK ==
  /\ now \in Nat
  /\ job \in [Jobs -> JobRow]
  /\ chan \in [Channels -> ChannelRow]
=============================================================================
