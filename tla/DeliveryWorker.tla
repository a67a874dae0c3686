--------------------------- MODULE DeliveryWorker --------------------------
(***************************************************************************)
(* The delivery worker (worker.rs) over the queue: a pass sweeps, claims   *)
(* in a second transaction, sends every claim in a task of its own under   *)
(* two semaphores, records each outcome, and starts again only when every  *)
(* task has ended.  The platform that receives the messages is external.   *)
(***************************************************************************)
EXTENDS DeliveryQueue, ChannelSend

CONSTANTS
  SenderOf,            \* SenderOf[c]: the adapter of channel c
  Answers,             \* the answers of the platform, of the network and of the keyring
  MaxConcurrent,       \* max_concurrent_sends, the permits of the global semaphore
  CutsCharacter,       \* the claims of a bucket whose joined bodies end, at byte
                       \* 4096, inside a character
  RetentionAge,        \* event_retention_days
  MaxTime,             \* bound: the clock stops here
  MaxFaults,           \* bound: process deaths and storage failures
  MaxEdits,            \* bound: channel edits, history clearings
  MaxManual            \* bound: manual retries

\* Rules cap the time to live at a day, settings keep history for one at least.
\* A platform that takes a message answers with an errcode: the adapters read an
\* answer without one as a success.
ASSUME WorkerAssumption ==
  /\ SenderOf \in [Channels -> Sender]
  /\ Answers \subseteq {a \in Answer : a.code # "none"}
  /\ MaxConcurrent \in Nat \ {0}
  /\ \A C \in CutsCharacter : \A j \in C : j \in Jobs /\ BucketOf[j] # NoBucket
  /\ RetentionAge \in Nat
  /\ \A ttl \in TTLs : ttl <= RetentionAge
  /\ MaxTime \in Nat /\ MaxFaults \in Nat /\ MaxEdits \in Nat /\ MaxManual \in Nat

VARIABLES
  pass,    \* the pass between its sweep and its claim: the time both use, and
           \* (history) the jobs retried by hand since the sweep
  task,    \* what the pass's task for a job's claim is doing
  copies,  \* external: messages the platform accepted for a job
  lost,    \* history: of those, the ones whose acceptance the queue never recorded
  strikes, \* history: what may count against a channel since it was saved or healed
  spent    \* how much of each bound is used up

vars == <<now, job, chan, pass, task, copies, lost, strikes, spent>>

\* queued: waits for a permit; admitted: has a global one; posting: both, the
\* request is out; accepted and refused: answered; healing, striking: the
\* outcome is recorded and the channel's counter is next.
Stages == {"idle", "queued", "admitted", "posting", "accepted", "refused", "healing", "striking"}
NoError == [kind |-> "Network", status |-> 0, retryAfter |-> 0]
Task == [stage : Stages, cred : Nat, err : DeliveryError]
At(stage) == [stage |-> stage, cred |-> 0, err |-> NoError]
NoTask == At("idle")

Pass == [open : BOOLEAN, at : Nat, revived : SUBSET Jobs]
NoPass == [open |-> FALSE, at |-> 0, revived |-> {}]

\* own: refusals of sends posted with the credential the channel has now; older:
\* whether a send of an older one was out when that credential was saved.
Tally == [own : Nat, older : {0, 1}]
NoTally == [own |-> 0, older |-> 0]

Bounds == {"faults", "edits", "manual"}

Init ==
  /\ QueueInit
  /\ pass = NoPass
  /\ task = [j \in Jobs |-> NoTask]
  /\ copies = [j \in Jobs |-> 0]
  /\ lost = [j \in Jobs |-> 0]
  /\ strikes = [c \in Channels |-> NoTally]
  /\ spent = [b \in Bounds |-> 0]

Stage(j) == task[j].stage
InFlight(j) == Stage(j) # "idle"
Resting == \A j \in Jobs : ~InFlight(j)

\* The claim a job in flight belongs to: itself, or its bucket's members.
ClaimOf(j) ==
  IF BucketOf[j] = NoBucket THEN {j}
  ELSE {k \in Jobs : BucketOf[k] = BucketOf[j] /\ InFlight(k)}

\* The tasks of the jobs in C become t.
Become(C, t) == [j \in Jobs |-> IF j \in C THEN t ELSE task[j]]

Spend(bound, limit) ==
  /\ spent[bound] < limit
  /\ spent' = [spent EXCEPT ![bound] = @ + 1]

ghosts == <<copies, lost, strikes, spent>>

Tick ==
  /\ now < MaxTime
  /\ now' = now + 1
  /\ UNCHANGED <<job, chan, pass, task, ghosts>>

Accept(j) ==
  /\ \E ttl \in TTLs : Enqueue(j, ttl)
  /\ UNCHANGED <<pass, task, ghosts>>

(***************************************************************************)
(* run_once up to the spawn: it reads the clock once, sweeps by it, and in *)
(* a second transaction claims by it.  Between the two a job may be stored *)
(* or retried by hand, a channel edited, the process stopped.              *)
(***************************************************************************)
Sweep ==
  /\ Resting
  /\ ~pass.open
  /\ ExpireDue
  /\ pass' = [open |-> TRUE, at |-> now, revived |-> {}]
  /\ UNCHANGED <<task, ghosts>>

ClaimDue ==
  /\ pass.open
  /\ \E S \in SUBSET DueSingles(pass.at), B \in SUBSET DueBuckets(pass.at) :
       LET C == ClaimedJobs(S, B, pass.at)
       IN  /\ Claims(S, B, pass.at)
           /\ job' = Leased(C, pass.at)
           /\ task' = Become(C, At("queued"))
  /\ pass' = NoPass
  /\ UNCHANGED <<now, chan, ghosts>>

\* claim_due fails in the storage and ends the pass.
PassFails ==
  /\ pass.open
  /\ Spend("faults", MaxFaults)
  /\ pass' = NoPass
  /\ UNCHANGED <<now, job, chan, task, copies, lost, strikes>>

\* A mutant of Holders: the permit is taken at the spawn.
HoldersFromSpawn == {ClaimOf(j) : j \in {k \in Jobs : InFlight(k)}}

\* The claims that hold a permit of the global semaphore.
Holders ==
  {ClaimOf(j) : j \in {k \in Jobs : Stage(k) \notin {"idle", "queued"}}}

Admit(j) ==
  /\ Stage(j) = "queued"
  /\ Cardinality(Holders) < MaxConcurrent
  /\ task' = Become(ClaimOf(j), At("admitted"))
  /\ UNCHANGED <<now, job, chan, pass, ghosts>>

ChannelBusy(c) ==
  \E k \in Jobs : ChannelOf[k] = c /\ Stage(k) \notin {"idle", "queued", "admitted"}

\* compose_document joins and truncates the bodies; in a character it panics.
Composes(j) == ClaimOf(j) \notin CutsCharacter

\* process_claim takes the channel's permit, composes the message, reads the
\* channel row and posts; a panic or a channel that is gone ends the task and
\* leaves the rows as they are.
SendFrom(j) ==
  /\ Stage(j) = "admitted"
  /\ LET c == ChannelOf[j]
         sends == Composes(j) /\ chan[c].exists
     IN  task' = Become(ClaimOf(j),
                        IF sends THEN [At("posting") EXCEPT !.cred = chan[c].cred] ELSE NoTask)
  /\ UNCHANGED <<now, job, chan, pass, ghosts>>

PostUnserialized(j) == SendFrom(j)   \* a mutant of Post
Post(j) == ~ChannelBusy(ChannelOf[j]) /\ SendFrom(j)

Attempts(j) == AttemptsOf(SenderOf[ChannelOf[j]], Answers)

\* The message counts for every job of the claim.
Arrives(j, counts, n) ==
  [k \in Jobs |-> IF k \in ClaimOf(j) THEN counts[k] + n ELSE counts[k]]

\* run_send returns a receipt.
PlatformAccepts(j) ==
  \E attempt \in Attempts(j) :
    /\ Stage(j) = "posting"
    /\ attempt.end = "receipt"
    /\ copies' = Arrives(j, copies, attempt.copies)
    /\ task' = Become(ClaimOf(j), [task[j] EXCEPT !.stage = "accepted"])
    /\ UNCHANGED <<now, job, chan, pass, lost, strikes, spent>>

\* The send was posted with a credential the channel no longer has.
Outdated(j) == task[j].cred # chan[ChannelOf[j]].cred

\* run_send returns an error; the platform may have taken the message all the same.
PlatformRefuses(j) ==
  \E attempt \in Attempts(j) :
    /\ Stage(j) = "posting"
    /\ attempt.end = "error"
    /\ task' = Become(ClaimOf(j), [task[j] EXCEPT !.stage = "refused", !.err = attempt.err])
    /\ copies' = Arrives(j, copies, attempt.copies)
    /\ lost' = Arrives(j, lost, attempt.copies)
    /\ strikes' = IF IsCredentialError(attempt.err) /\ ~Outdated(j)
                  THEN [strikes EXCEPT ![ChannelOf[j]].own = @ + 1] ELSE strikes
    /\ UNCHANGED <<now, job, chan, pass, spent>>

\* The jobs of C end their tasks; an acceptance that was not recorded is lost.
Abandon(C) ==
  /\ task' = Become(C, NoTask)
  /\ lost' = [j \in Jobs |-> IF j \in C /\ Stage(j) = "accepted" THEN lost[j] + 1 ELSE lost[j]]

(***************************************************************************)
(* The receipt is recorded, and in a second transaction the channel heals. *)
(* When a row is no longer in `sending` nothing is recorded and the task   *)
(* ends with the error.                                                    *)
(***************************************************************************)
RecordSuccessAt(j, stages) ==
  /\ Stage(j) \in stages
  /\ LET C == ClaimOf(j)
     IN  \/ /\ Complete(C)
            /\ task' = Become(C, [task[j] EXCEPT !.stage = "healing"])
            /\ UNCHANGED lost
         \/ /\ ~AllSending(C)
            /\ Abandon(C)
            /\ UNCHANGED <<now, job, chan>>
  /\ UNCHANGED <<pass, copies, strikes, spent>>

RecordSuccessUnanswered(j) == RecordSuccessAt(j, {"posting", "accepted"})   \* a mutant
RecordSuccess(j) == RecordSuccessAt(j, {"accepted"})

HealChannel(j) ==
  /\ Stage(j) = "healing"
  /\ ResetAuthFailures(ChannelOf[j])
  /\ strikes' = [strikes EXCEPT ![ChannelOf[j]] = NoTally]
  /\ task' = Become(ClaimOf(j), NoTask)
  /\ UNCHANGED <<pass, copies, lost, spent>>

\* record_failure ignores what retry returns; a Signature or Permission error
\* then strikes the channel in a transaction of its own.
AfterRefusal(j) ==
  IF task[j].err.kind \in {"Signature", "Permission"}
  THEN [task[j] EXCEPT !.stage = "striking"] ELSE NoTask

RecordFailure(j) ==
  /\ Stage(j) = "refused"
  /\ LET C == ClaimOf(j)
     IN  /\ \/ Retry(C, ChannelOf[j], task[j].err)
            \/ ~AllSending(C) /\ UNCHANGED <<now, job, chan>>
         /\ task' = Become(C, AfterRefusal(j))
  /\ UNCHANGED <<pass, ghosts>>

StrikeChannel(j) ==
  /\ Stage(j) = "striking"
  /\ BumpAuthFailure(ChannelOf[j])
  /\ task' = Become(ClaimOf(j), NoTask)
  /\ UNCHANGED <<pass, ghosts>>

\* A storage error (or a panic) ends the task before the outcome is recorded.
TaskFails(j) ==
  /\ Stage(j) \in {"admitted", "accepted", "healing", "striking"}
  /\ Spend("faults", MaxFaults)
  /\ Abandon(ClaimOf(j))
  /\ UNCHANGED <<now, job, chan, pass, copies, strikes>>

\* retry fails in the storage: the error is dropped and the task carries on.
RetryNotRecorded(j) ==
  /\ Stage(j) = "refused"
  /\ Spend("faults", MaxFaults)
  /\ task' = Become(ClaimOf(j), AfterRefusal(j))
  /\ UNCHANGED <<now, job, chan, pass, copies, lost, strikes>>

\* The process dies (or shuts down without waiting longer) and starts again;
\* a request that was out may still reach the platform.
Restart ==
  /\ Spend("faults", MaxFaults)
  /\ \E R \in SUBSET {ClaimOf(k) : k \in {i \in Jobs : Stage(i) = "posting"}} :
       LET reached(j) == j \in UNION R
       IN  /\ copies' = [j \in Jobs |-> IF reached(j) THEN copies[j] + 1 ELSE copies[j]]
           /\ lost' = [j \in Jobs |-> IF reached(j) \/ Stage(j) = "accepted"
                                      THEN lost[j] + 1 ELSE lost[j]]
  /\ pass' = NoPass
  /\ task' = [j \in Jobs |-> NoTask]
  /\ UNCHANGED <<now, job, chan, strikes>>

UserRetries(j) ==
  /\ ManualRetry(j)
  /\ pass' = IF pass.open THEN [pass EXCEPT !.revived = @ \cup {j}] ELSE pass
  /\ Spend("manual", MaxManual)
  /\ UNCHANGED <<task, copies, lost, strikes>>

\* The count starts anew, but for a send that is out.
Recount(c) ==
  strikes' = [strikes EXCEPT ![c] = [own |-> 0, older |-> IF ChannelBusy(c) THEN 1 ELSE 0]]

UserSavesChannel(c) ==
  /\ SaveChannel(c)
  /\ Recount(c)
  /\ Spend("edits", MaxEdits)
  /\ UNCHANGED <<pass, task, copies, lost>>

UserDeletesChannel(c) ==
  /\ DeleteChannel(c)
  /\ Recount(c)
  /\ Spend("edits", MaxEdits)
  /\ UNCHANGED <<pass, task, copies, lost>>

UserClearsHistory ==
  /\ ClearHistory
  /\ Spend("edits", MaxEdits)
  /\ UNCHANGED <<pass, task, copies, lost, strikes>>

Retain ==
  /\ Prune(RetentionAge)
  /\ UNCHANGED <<pass, task, ghosts>>

\* What a task of the pass does for the claim of j.
TaskStep(j) ==
  \/ Admit(j) \/ Post(j)
  \/ PlatformAccepts(j) \/ PlatformRefuses(j)
  \/ RecordSuccess(j) \/ HealChannel(j)
  \/ RecordFailure(j) \/ StrikeChannel(j)

Next ==
  \/ Tick \/ Sweep \/ ClaimDue \/ PassFails \/ Restart \/ UserClearsHistory \/ Retain
  \/ \E j \in Jobs : Accept(j) \/ UserRetries(j) \/ TaskFails(j) \/ RetryNotRecorded(j)
  \/ \E j \in Jobs : TaskStep(j)
  \/ \E c \in Channels : UserSavesChannel(c) \/ UserDeletesChannel(c)

Spec == Init /\ [][Next]_vars

(***************************************************************************)
(* Fairness: the runtime polls every task and the interval keeps ticking;  *)
(* the client's ten-second timeout answers every request.                  *)
(***************************************************************************)
Fairness ==
  /\ WF_vars(Tick)
  /\ WF_vars(Sweep)
  /\ WF_vars(ClaimDue)
  /\ \A j \in Jobs : WF_vars(TaskStep(j))

FairSpec == Spec /\ Fairness
-----------------------------------------------------------------------------
(* Properties *)

\* Every variable keeps its type: the rows of both tables, the tasks of the
\* pass, and the counters.
TypeOK ==
  /\ QueueTypeOK
  /\ pass \in Pass
  /\ task \in [Jobs -> Task]
  /\ copies \in [Jobs -> Nat]
  /\ lost \in [Jobs -> Nat]
  /\ strikes \in [Channels -> Tally]
  /\ spent \in [Bounds -> Nat]

\* A row holds a lease exactly while it is in `sending`: every transaction that
\* leaves the state clears it, or the row could never be claimed again.
LeaseIffSending ==
  \A j \in Jobs : job[j].state = "sending" <=> job[j].lease # NoLease

\* While a task has the outcome of a send still to record, its row is in
\* `sending`, or was deleted under it: nothing else (sweep, claim, manual
\* retry) may touch it, or complete and retry would find no row to update.
TaskOwnsItsRow ==
  \A j \in Jobs :
    Stage(j) \in {"queued", "admitted", "posting", "accepted", "refused"}
      => job[j].state \in {"sending", "deleted"}

\* The platform gets a second copy of a notification only after the acceptance
\* of every earlier copy went unrecorded (a lost answer, a dead process, a
\* failed or refused commit): the only duplicates "at least once" allows.
NoDuplicateWithoutLoss == \A j \in Jobs : copies[j] <= lost[j] + 1

\* History says `succeeded` only of a job the platform accepted at least once.
SuccessWasAccepted ==
  \A j \in Jobs : job[j].state = "succeeded" => copies[j] > lost[j]

\* A job waiting for a retry will be due before its deadline: a Retry-After or
\* a backoff that runs past it expires the job instead (classify's clamp).
RetryWithinDeadline ==
  \A j \in Jobs : job[j].state = "retry_wait" => job[j].next <= job[j].expires

\* Automatic sending stops: a job is sent at most once more than MAX_ATTEMPTS,
\* for classify compares the counter from before the attempt; and each counted
\* attempt has its row in delivery_attempts.
AttemptsBounded ==
  \A j \in Jobs :
    /\ job[j].attempts <= MaxAttempts + 1
    /\ job[j].attempts <= job[j].ledger

\* The channel is paused exactly while its counter is at the threshold: no
\* success, edit or strike leaves a pause without its cause or the reverse.
PausedAtThreshold ==
  \A c \in Channels : chan[c].paused <=> chan[c].failures >= AuthPauseThreshold

\* Numbers of jobs that no claim exceeds.
Widths ==
  {n \in 1..(1 + Cardinality(Jobs)) :
     \A b \in Buckets : Cardinality({j \in Jobs : BucketOf[j] = b}) <= n}

\* A channel's counter holds no strikes but those of its current credential and,
\* if a send of an older one was out when that was saved, of this one send: each
\* once for every job of its claim, and none from before the last success. A
\* pause after a replacement is earned by the new credential but for one claim:
\* sends to a channel are one at a time, and each reads the channel after it has
\* its turn.
OneStaleStrike ==
  \A n \in Widths, c \in Channels :
    chan[c].failures <= n * (strikes[c].own + strikes[c].older)

\* A waiting job past its deadline (by the time its pass uses) is claimed only
\* when it was retried by hand after the sweep of that very pass: the sweep comes
\* first, with the same time, and covers both waiting states; manual_retry does
\* not look at the deadline.
NoLateClaim ==
  [][\A j \in Jobs : job[j].state \in Waiting /\ job'[j].state = "sending"
                        => job[j].expires > pass.at \/ j \in pass.revived]_vars

\* An outcome is final: a succeeded or expired job changes no more until its
\* row is deleted, and a failed one only by starting over with no attempts.
OutcomeIsFinal ==
  [][\A j \in Jobs :
       /\ job[j].state \in {"succeeded", "expired"} => job'[j].state \in {job[j].state, "deleted"}
       /\ job[j].state = "failed" /\ job'[j].state \notin {"failed", "deleted"}
            => job'[j].state = "pending" /\ job'[j].attempts = 0]_vars

\* Every pass ends: the two semaphores never leave its tasks waiting on each
\* other, so the next tick finds the worker free.
UnderWay == pass.open \/ ~Resting
PassEnds == UnderWay ~> ~UnderWay

\* A row in `sending` on a paused channel is neither swept nor claimed, even
\* when its lease has run out: it waits for the channel to be resumed.
HeldByPause(j) == job[j].state = "sending" /\ chan[ChannelOf[j]].paused

\* A bucket that panics when it is composed does so at every claim, long after
\* its deadline: its rows are in `sending`, which no sweep looks at.
Unsendable(j) ==
  /\ job[j].state = "sending"
  /\ {k \in Jobs : BucketOf[k] = BucketOf[j] /\ job[k].state = "sending"} \in CutsCharacter

\* The clock of an instance stops at MaxTime: a lease or a deadline beyond it
\* never comes. This excuses no bucket that panics.
BeyondHorizon(j) ==
  ~Unsendable(j) /\ (job[j].lease > MaxTime \/ job[j].expires > MaxTime)

\* Every accepted job comes to an outcome, however often the process dies and
\* tasks fail, and members stored after their bucket's summary too: leases run
\* out, waiting jobs expire. The two exceptions the code makes are rows in
\* `sending` that a dead task left on a channel paused since, and the rows of a
\* bucket whose summary panics.
EveryJobSettles ==
  \A j \in Jobs :
    Present(j) ~> \/ job[j].state \in Terminal \cup {"deleted"}
                  \/ HeldByPause(j)
                  \/ Unsendable(j)
                  \/ BeyondHorizon(j)

(***************************************************************************)
(* The inductive invariant behind the safety properties: what every row    *)
(* satisfies on its own, that a bucket in flight has one task, and how the *)
(* copies at the platform stand to what the queue knows of them.           *)
(***************************************************************************)
RowOK(r) ==
  /\ r.state = "sending" <=> r.lease # NoLease
  /\ r.state = "retry_wait" => r.next <= r.expires
  /\ r.state \in Waiting \cup {"sending"} => r.attempts <= MaxAttempts
  /\ r.attempts <= MaxAttempts + 1
  /\ r.attempts <= r.ledger

RowsOK == \A j \in Jobs : RowOK(job[j])

OneTaskPerBucket ==
  \A j, k \in Jobs :
    BucketOf[j] = BucketOf[k] /\ BucketOf[j] # NoBucket /\ InFlight(j) /\ InFlight(k)
      => task[j] = task[k]

Unsent == {"queued", "admitted", "posting", "refused"}

\* One copy is unaccounted for between the platform's answer and its record,
\* and one for good once the job succeeded.
Accounted ==
  \A j \in Jobs :
    /\ copies[j] = lost[j] \/ copies[j] = lost[j] + 1
    /\ job[j].state = "succeeded" \/ Stage(j) = "accepted" => copies[j] = lost[j] + 1
    /\ Stage(j) \in Unsent => copies[j] = lost[j]
    /\ job[j].state \notin {"succeeded", "deleted"} /\ Stage(j) # "accepted"
         => copies[j] = lost[j]

\* Nothing is in flight between the sweep and the claim.
PassIsQuiet == pass.open => Resting

IInv ==
  /\ TypeOK /\ RowsOK /\ PausedAtThreshold
  /\ TaskOwnsItsRow /\ OneTaskPerBucket /\ Accounted /\ PassIsQuiet

(***************************************************************************)
(* And what OneStaleStrike needs beyond it: the claim that is with the     *)
(* platform, or back from it, is alone on its channel; a channel that is   *)
(* gone has no rows to strike it for; and a refusal that was counted, or a *)
(* send of an older credential, that has not struck yet still has its      *)
(* strikes to come.                                                        *)
(***************************************************************************)
Sent(j) == Stage(j) \notin {"idle", "queued", "admitted"}

OneSendPerChannel ==
  \A j, k \in Jobs : ChannelOf[j] = ChannelOf[k] /\ Sent(j) /\ Sent(k) => k \in ClaimOf(j)

GoneChannelsAreClean ==
  /\ \A j \in Jobs : Present(j) => chan[ChannelOf[j]].exists
  /\ \A c \in Channels : ~chan[c].exists => chan[c].failures = 0

StrikeToCome(j) ==
  \/ Stage(j) = "posting" /\ Outdated(j)
  \/ Stage(j) = "refused" /\ IsCredentialError(task[j].err)
  \/ Stage(j) = "striking"
Owing(c) == \E j \in Jobs : ChannelOf[j] = c /\ StrikeToCome(j)

StrikesCounted ==
  \A n \in Widths, c \in Channels :
    chan[c].failures + (IF Owing(c) THEN n ELSE 0) <= n * (strikes[c].own + strikes[c].older)

StrikeInv == OneSendPerChannel /\ GoneChannelsAreClean /\ StrikesCounted

(***************************************************************************)
(* What NoLateClaim needs: between the sweep and the claim, what waits has *)
(* time left or was retried by hand.                                       *)
(***************************************************************************)
SweptInv ==
  pass.open =>
    /\ pass.at <= now
    /\ \A j \in Jobs : job[j].state \in Waiting
                       => job[j].expires > pass.at \/ j \in pass.revived

(***************************************************************************)
(* The queue and its worker keep the promise of AtLeastOnce.               *)
(***************************************************************************)
PhaseOf(state) ==
  CASE state = "absent" -> "none"
    [] state = "deleted" -> "removed"
    [] state \in Terminal -> state
    [] OTHER -> "open"

phase == [j \in Jobs |-> PhaseOf(job[j].state)]

Promise == INSTANCE AtLeastOnce WITH Notifications <- Jobs

\* Every behaviour of the worker is one the promise allows.
KeepsPromise == Promise!Spec
=============================================================================
