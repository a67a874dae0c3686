---------------------------- MODULE IngressPath ----------------------------
(***************************************************************************)
(* How a hook event reaches the database.  The helper process              *)
(* (hook_command.rs) asks the application over IPC, falls back to          *)
(* ingress_events and then to a spool file; the application (lib.rs,       *)
(* pipeline.rs) handles live requests one at a time, and at every start    *)
(* drains the spool and recovers a bounded batch of ingress rows before it *)
(* binds the endpoint.                                                     *)
(***************************************************************************)
EXTENDS Integers, Sequences, FiniteSets

CONSTANTS
  Events,          \* hook events: the id is a hash over the capture, time included
  NoEvent,
  Uncatalogued,    \* events an earlier version left, gone from today's catalog
  LeftInFiles,     \* of those, the ones it left in files and not in rows
  TTLs,            \* the time to live the rule of the moment may give
  RetentionAge,    \* event_retention_days
  InboxCapacity,   \* requests the IPC channel holds
  SpoolCapacity,   \* MAX_SPOOL_FILES
  DrainLimit,      \* files one drain takes
  RecoveryBatch,   \* rows one recovery takes
  MaxTime,         \* bound: the clock stops here
  MaxFaults,       \* bound: process deaths, busy or failing storage
  MaxClears        \* bound: clearings of the history

\* Rules cap the time to live at a day, settings keep history for one at least.
ASSUME IngressAssumption ==
  /\ IsFiniteSet(Events)
  /\ NoEvent \notin Events
  /\ Uncatalogued \subseteq Events
  /\ TTLs \subseteq Nat \ {0}
  /\ RetentionAge \in Nat
  /\ \A ttl \in TTLs : ttl <= RetentionAge
  /\ InboxCapacity \in Nat \ {0} /\ SpoolCapacity \in Nat
  /\ DrainLimit \in Nat \ {0} /\ RecoveryBatch \in Nat \ {0}
  /\ MaxTime \in Nat /\ MaxFaults \in Nat /\ MaxClears \in Nat

VARIABLES
  now,
  occurred,  \* event -> when it was captured
  helper,    \* event -> what its helper process is doing
  phase,     \* the application: down, its startup stages, or serving
  inbox,     \* requests taken off the endpoint, in memory
  live,      \* the request process_live is working on
  todo,      \* spool files the running drain has still to take, in memory
  batch,     \* ingress rows the running recovery has still to take, in memory
  spool,     \* files of the spool directory
  ingress,   \* ingress_events
  row,       \* events: the outcome recorded for each
  job,       \* delivery_jobs: one per event stands for its targets
  enqueued,  \* history: how often an event was turned into jobs
  cleared,   \* history: how often the user cleared a handled event
  handled,   \* history: events recorded at least once
  dropped,   \* history: unhandled ingress rows a deletion took
  spent      \* how much of each bound is used up

process == <<phase, inbox, live, todo, batch>>
stores == <<spool, ingress, row, job>>
history == <<enqueued, cleared, handled, dropped>>
vars == <<now, occurred, helper, process, stores, history, spent>>

HelperStages ==
  {"none", "asking", "waiting", "falling", "spooling", "done", "lost", "dead"}
Phases == {"down", "starting", "draining", "recovering", "serving", "headless"}
Outcomes == {"queued", "suppressed", "expired"}
LiveStages == {"idle", "decided", "accepted", "rejected"}
Idle == [event |-> NoEvent, stage |-> "idle", outcome |-> "suppressed", ttl |-> 0]
NoJob == [state |-> "none", created |-> 0, expires |-> 0]

\* What today's catalog does not know was left by an earlier version.
Init ==
  /\ now = 0
  /\ occurred = [e \in Events |-> 0]
  /\ helper = [e \in Events |-> IF e \in Uncatalogued THEN "done" ELSE "none"]
  /\ phase = "down"
  /\ inbox = <<>>
  /\ live = Idle
  /\ todo = {} /\ batch = {}
  /\ spool = [e \in Events |-> IF e \in Uncatalogued \cap LeftInFiles THEN "json" ELSE "none"]
  /\ ingress = [e \in Events |-> IF e \in Uncatalogued \ LeftInFiles THEN "pending" ELSE "none"]
  /\ row = [e \in Events |-> "none"]
  /\ job = [e \in Events |-> NoJob]
  /\ enqueued = [e \in Events |-> 0]
  /\ cleared = [e \in Events |-> 0]
  /\ handled = {} /\ dropped = {}
  /\ spent = [b \in {"faults", "clears"} |-> 0]

Spend(bound, limit) ==
  /\ spent[bound] < limit
  /\ spent' = [spent EXCEPT ![bound] = @ + 1]
Fault == Spend("faults", MaxFaults)

Tick ==
  /\ now < MaxTime
  /\ now' = now + 1
  /\ UNCHANGED <<occurred, helper, process, stores, history, spent>>

(***************************************************************************)
(* The helper: one process per event, which always ends and never retries. *)
(***************************************************************************)
HelperAt(e, stage) == helper' = [helper EXCEPT ![e] = stage]

\* Codex keeps the pipe open: the helper stops reading at a complete document,
\* and without one it ends when its own deadline passes.
InputIncomplete(e) ==
  /\ helper[e] = "none"
  /\ HelperAt(e, "lost")
  /\ UNCHANGED <<now, occurred, process, stores, history, spent>>

\* Arguments, document, limits, the agent's version and the catalog are looked
\* at in this order; whatever does not fit ends the helper, as if all were well.
CaptureRefused(e) ==
  /\ helper[e] = "none"
  /\ HelperAt(e, "lost")
  /\ UNCHANGED <<now, occurred, process, stores, history, spent>>

Capture(e) ==
  /\ helper[e] = "none"
  /\ HelperAt(e, "asking")
  /\ occurred' = [occurred EXCEPT ![e] = now]
  /\ UNCHANGED <<now, process, stores, history, spent>>

\* No endpoint, or a full channel: the answer is no at once.
Ask(e) ==
  /\ helper[e] = "asking"
  /\ IF phase = "serving" /\ Len(inbox) < InboxCapacity
     THEN inbox' = Append(inbox, e) /\ HelperAt(e, "waiting")
     ELSE UNCHANGED inbox /\ HelperAt(e, "falling")
  /\ UNCHANGED <<now, occurred, phase, live, todo, batch, stores, history, spent>>

\* The deadline passes or the connection breaks; the request stays where it is.
GiveUp(e) ==
  /\ helper[e] \in {"asking", "waiting"}
  /\ HelperAt(e, "falling")
  /\ UNCHANGED <<now, occurred, process, stores, history, spent>>

\* INSERT OR IGNORE: a row that is there stays as it is.
Stored(e) == [ingress EXCEPT ![e] = IF @ = "none" THEN "pending" ELSE @]

FallBack(e) ==
  /\ helper[e] = "falling"
  /\ ingress' = Stored(e)
  /\ HelperAt(e, "done")
  /\ UNCHANGED <<now, occurred, process, spool, row, job, history, spent>>

DatabaseBusy(e) ==
  /\ helper[e] = "falling"
  /\ Fault
  /\ HelperAt(e, "spooling")
  /\ UNCHANGED <<now, occurred, process, stores, history>>

SpoolFull == Cardinality({e \in Events : spool[e] # "none"}) >= SpoolCapacity

\* write_exclusive publishes a synced file under a lock, or refuses.
WriteSpool(e) ==
  /\ helper[e] = "spooling"
  /\ IF SpoolFull
     THEN UNCHANGED spool /\ HelperAt(e, "lost")
     ELSE spool' = [spool EXCEPT ![e] = "json"] /\ HelperAt(e, "done")
  /\ UNCHANGED <<now, occurred, process, ingress, row, job, history, spent>>

\* The agent's hook timeout kills the helper.
HelperDies(e) ==
  /\ helper[e] \in {"asking", "waiting", "falling", "spooling"}
  /\ Fault
  /\ HelperAt(e, "dead")
  /\ UNCHANGED <<now, occurred, process, stores, history>>

(***************************************************************************)
(* What becomes of an event: the policy of the moment, then one            *)
(* transaction that records the event and enqueues its jobs.               *)
(***************************************************************************)
Verdict(e, ttl) == IF now - occurred[e] >= ttl THEN "expired" ELSE "queued"
Decisions(e) ==
  {d \in [outcome : Outcomes, ttl : TTLs] : d.outcome \in {"suppressed", Verdict(e, d.ttl)}}

Seen(e) == row[e] # "none"

\* The deadline of a job counts from the moment it is enqueued.
Deadline(ttl) == now + ttl

\* insert_event_in_tx
EventStored(e, outcome) == [row EXCEPT ![e] = outcome]

\* The transaction's part common to both paths.
Record(e, outcome, ttl) ==
  IF Seen(e)
  THEN UNCHANGED <<row, job, enqueued, handled>>
  ELSE /\ row' = EventStored(e, outcome)
       /\ handled' = handled \cup {e}
       /\ IF outcome = "queued"
          THEN /\ job' = [job EXCEPT ![e] =
                            [state |-> "open", created |-> now, expires |-> Deadline(ttl)]]
               /\ enqueued' = [enqueued EXCEPT ![e] = @ + 1]
          ELSE UNCHANGED <<job, enqueued>>

(***************************************************************************)
(* process_live under the IPC loop: one request at a time.  Trust, catalog *)
(* and policy are read first, the transaction comes after, the reply last. *)
(***************************************************************************)
Take ==
  /\ phase = "serving" /\ live.stage = "idle" /\ inbox # <<>>
  /\ inbox' = Tail(inbox)
  /\ LET e == Head(inbox)
     IN  \/ \E d \in Decisions(e) :
              live' = [event |-> e, stage |-> "decided", outcome |-> d.outcome, ttl |-> d.ttl]
         \/ live' = [Idle EXCEPT !.event = e, !.stage = "rejected"]
  /\ UNCHANGED <<now, occurred, helper, phase, todo, batch, stores, history, spent>>

Commit ==
  /\ live.stage = "decided"
  /\ Record(live.event, live.outcome, live.ttl)
  /\ live' = [live EXCEPT !.stage = "accepted"]
  /\ UNCHANGED <<now, occurred, helper, phase, inbox, todo, batch, spool, ingress,
                 cleared, dropped, spent>>

\* The transaction fails, or the handler panics and the loop survives.
CommitFails ==
  /\ live.stage = "decided"
  /\ Fault
  /\ live' = [live EXCEPT !.stage = "rejected"]
  /\ UNCHANGED <<now, occurred, helper, phase, inbox, todo, batch, stores, history>>

ReplyAt(stages) ==
  /\ live.stage \in stages
  /\ live' = Idle
  /\ IF helper[live.event] = "waiting"
     THEN HelperAt(live.event, IF live.stage = "rejected" THEN "falling" ELSE "done")
     ELSE UNCHANGED helper
  /\ UNCHANGED <<now, occurred, phase, inbox, todo, batch, stores, history, spent>>

ReplyEarly == ReplyAt({"decided", "accepted", "rejected"})   \* a mutant of Reply
Reply == ReplyAt({"accepted", "rejected"})

(***************************************************************************)
(* The application's life.  It may stop at any moment, killed or quit.     *)
(***************************************************************************)
Stop ==
  /\ phase # "down"
  /\ phase' = "down"
  /\ inbox' = <<>> /\ live' = Idle /\ todo' = {} /\ batch' = {}
  /\ UNCHANGED <<now, occurred, helper, stores, history, spent>>

\* recover_stale_ingress: rows an earlier process left behind wait again.
NotReset == ingress   \* a mutant of Reset
Reset == [e \in Events |-> IF ingress[e] = "processing" THEN "pending" ELSE ingress[e]]

Launch ==
  /\ phase = "down"
  /\ phase' = "starting"
  /\ \/ ingress' = Reset /\ UNCHANGED spent
     \/ UNCHANGED ingress /\ Fault
  /\ UNCHANGED <<now, occurred, helper, inbox, live, todo, batch, spool, row, job, history>>

\* The first k of a set, by rank.
First(S, Due, k, rank(_)) ==
  /\ S \subseteq Due
  /\ Cardinality(S) = IF k < Cardinality(Due) THEN k ELSE Cardinality(Due)
  /\ \A s \in S, d \in Due \ S : rank(s) <= rank(d)

\* The drain lists its files once, those an earlier drain had claimed first.
KeychainLoads ==
  /\ phase = "starting"
  /\ phase' = "draining"
  /\ \E S \in SUBSET {e \in Events : spool[e] # "none"} :
       /\ First(S, {e \in Events : spool[e] # "none"}, DrainLimit,
                LAMBDA e : IF spool[e] = "processing" THEN 0 ELSE 1)
       /\ todo' = S
  /\ UNCHANGED <<now, occurred, helper, inbox, live, batch, stores, history, spent>>

\* The spool cannot be read: the drain is left out.
DrainFails ==
  /\ phase = "starting"
  /\ Fault
  /\ phase' = "draining"
  /\ UNCHANGED <<now, occurred, helper, inbox, live, todo, batch, stores, history>>

\* Without the key the background task ends: no endpoint, no worker.
KeychainFails ==
  /\ phase = "starting"
  /\ Fault
  /\ phase' = "headless"
  /\ UNCHANGED <<now, occurred, helper, inbox, live, todo, batch, stores, history>>

\* A file is claimed, stored and removed.
DrainFile(e) ==
  /\ e \in todo
  /\ ingress' = Stored(e)
  /\ spool' = [spool EXCEPT ![e] = "none"]
  /\ todo' = todo \ {e}
  /\ UNCHANGED <<now, occurred, helper, phase, inbox, live, batch, row, job, history, spent>>

\* The insertion or the removal fails: the file stays claimed, the drain ends.
DrainBreaks(e) ==
  /\ e \in todo
  /\ Fault
  /\ ingress' \in {ingress, Stored(e)}
  /\ spool' = [spool EXCEPT ![e] = "processing"]
  /\ todo' = {}
  /\ UNCHANGED <<now, occurred, helper, phase, inbox, live, batch, row, job, history>>

\* A file that cannot be claimed is passed over.
FileStays(e) ==
  /\ e \in todo /\ spool[e] = "json"
  /\ Fault
  /\ todo' = todo \ {e}
  /\ UNCHANGED <<now, occurred, helper, phase, inbox, live, batch, stores, history>>

Pending == {e \in Events : ingress[e] = "pending"}

\* take_ingress_batch: the oldest rows, flipped and committed at once.
TakeBatch ==
  /\ phase = "draining" /\ todo = {}
  /\ phase' = "recovering"
  /\ \E S \in SUBSET Pending :
       /\ First(S, Pending, RecoveryBatch, LAMBDA e : occurred[e])
       /\ batch' = S
       /\ ingress' = [e \in Events |-> IF e \in S THEN "processing" ELSE ingress[e]]
  /\ UNCHANGED <<now, occurred, helper, inbox, live, todo, spool, row, job, history, spent>>

\* The batch cannot be read: the endpoint is bound without it.
TakeBatchFails ==
  /\ phase = "draining" /\ todo = {}
  /\ Fault
  /\ phase' = "recovering"
  /\ UNCHANGED <<now, occurred, helper, inbox, live, todo, batch, stores, history>>

\* delete_ingress_in_tx
Unstored(e) == [ingress EXCEPT ![e] = "none"]

\* The row goes in the transaction that records its event.
RecoverRow(e) ==
  /\ e \in batch \ Uncatalogued
  /\ \E d \in Decisions(e) : Record(e, d.outcome, d.ttl)
  /\ ingress' = Unstored(e)
  /\ batch' = batch \ {e}
  /\ UNCHANGED <<now, occurred, helper, phase, inbox, live, todo, spool, cleared, dropped, spent>>

\* A row that fails is skipped and stays in `processing`.
SkipRow(e) ==
  /\ e \in batch
  /\ IF e \in Uncatalogued THEN UNCHANGED spent ELSE Fault
  /\ batch' = batch \ {e}
  /\ UNCHANGED <<now, occurred, helper, phase, inbox, live, todo, stores, history>>

Bind ==
  /\ phase = "recovering" /\ batch = {}
  /\ phase' = "serving"
  /\ UNCHANGED <<now, occurred, helper, inbox, live, todo, batch, stores, history, spent>>

BindFails ==
  /\ phase = "recovering" /\ batch = {}
  /\ Fault
  /\ phase' = "headless"
  /\ UNCHANGED <<now, occurred, helper, inbox, live, todo, batch, stores, history>>

(***************************************************************************)
(* Around it: the worker ends jobs, the user clears the history, retention *)
(* deletes what is old.                                                    *)
(***************************************************************************)
JobEnds(e) ==
  /\ phase = "serving" /\ job[e].state = "open"
  /\ job' = [job EXCEPT ![e].state = "done"]
  /\ UNCHANGED <<now, occurred, helper, process, spool, ingress, row, history, spent>>

\* Rows of S leave `events`, unfinished ingress rows of I leave `ingress_events`.
Delete(S, I) ==
  /\ row' = [e \in Events |-> IF e \in S THEN "none" ELSE row[e]]
  /\ ingress' = [e \in Events |-> IF e \in I THEN "none" ELSE ingress[e]]
  /\ dropped' = dropped \cup {e \in I : e \notin handled}

InProcess == {e \in Events : ingress[e] = "processing"}

\* A mutant of Clearable: events whose jobs are still open.
ClearableWithJobs == {e \in Events : Seen(e)}
Clearable == {e \in Events : Seen(e) /\ job[e].state # "open"}

\* clear_history: finished jobs, events left without any, rows in `processing`.
UserClears ==
  /\ phase # "down"
  /\ Spend("clears", MaxClears)
  /\ job' = [e \in Events |-> IF job[e].state = "done" THEN NoJob ELSE job[e]]
  /\ Delete(Clearable, InProcess)
  /\ cleared' = [e \in Events |-> IF e \in Clearable THEN cleared[e] + 1 ELSE cleared[e]]
  /\ UNCHANGED <<now, occurred, helper, process, spool, enqueued, handled>>

PastEagerly(t) == t <= now   \* a mutant of Past
Past(t) == t + RetentionAge < now

\* RetentionService::run_once: jobs by age alone, then events left without any.
Retain ==
  /\ phase = "serving"
  /\ LET oldJob(e) == job[e].state # "none" /\ Past(job[e].created)
         jobless(e) == job[e].state = "none" \/ oldJob(e)
     IN  /\ job' = [e \in Events |-> IF oldJob(e) THEN NoJob ELSE job[e]]
         /\ Delete({e \in Events : Seen(e) /\ jobless(e) /\ Past(occurred[e])},
                   {e \in InProcess : Past(occurred[e])})
  /\ UNCHANGED <<now, occurred, helper, process, spool, enqueued, cleared, handled, spent>>

HelperStep(e) ==
  \/ InputIncomplete(e) \/ CaptureRefused(e) \/ Capture(e) \/ Ask(e) \/ GiveUp(e) \/ FallBack(e)
  \/ DatabaseBusy(e) \/ WriteSpool(e) \/ HelperDies(e)

Next ==
  \/ Tick \/ Take \/ Commit \/ CommitFails \/ Reply
  \/ Stop \/ Launch \/ KeychainLoads \/ KeychainFails \/ DrainFails
  \/ TakeBatch \/ TakeBatchFails \/ Bind \/ BindFails
  \/ \E e \in Events :
       HelperStep(e) \/ DrainFile(e) \/ DrainBreaks(e) \/ FileStays(e)
       \/ RecoverRow(e) \/ SkipRow(e) \/ JobEnds(e)
  \/ UserClears \/ Retain

Spec == Init /\ [][Next]_vars
-----------------------------------------------------------------------------
(* Properties *)

\* Every variable keeps its type.
TypeOK ==
  /\ now \in Nat
  /\ occurred \in [Events -> Nat]
  /\ helper \in [Events -> HelperStages]
  /\ phase \in Phases
  /\ inbox \in Seq(Events)
  /\ live \in [event : Events \cup {NoEvent}, stage : LiveStages, outcome : Outcomes, ttl : Nat]
  /\ todo \subseteq Events /\ batch \subseteq Events
  /\ spool \in [Events -> {"none", "json", "processing"}]
  /\ ingress \in [Events -> {"none", "pending", "processing"}]
  /\ row \in [Events -> Outcomes \cup {"none"}]
  /\ job \in [Events -> [state : {"none", "open", "done"}, created : Nat, expires : Nat]]
  /\ enqueued \in [Events -> Nat] /\ cleared \in [Events -> Nat]
  /\ handled \subseteq Events /\ dropped \subseteq Events
  /\ spent \in [{"faults", "clears"} -> Nat]

\* Once its helper has ended well an event is in somebody's custody: recorded,
\* or in a row, or in a file, whatever died or failed on the way.  The reply
\* follows the commit, the file goes after the row is there, the row goes with
\* the commit; only a deletion of `processing` rows takes one away.
Custody ==
  \A e \in Events :
    helper[e] = "done" =>
      e \in handled \cup dropped \/ ingress[e] # "none" \/ spool[e] # "none"

\* An event is turned into jobs once, though up to three copies of it (a live
\* request the helper gave up on, a row, a file) are worked off in different
\* runs of the application.  Retention may forget the event while a copy still
\* waits: by then the copy is past its time to live.  Only the user's clearing
\* makes the application forget an event that can still be sent.
NotifiedOnce == \A e \in Events : enqueued[e] <= 1 + cleared[e]

\* A job keeps its event (the foreign key cascades): neither clearing nor
\* retention takes an event whose job is still there.
JobKeepsEvent == \A e \in Events : job[e].state # "none" => row[e] = "queued"

(***************************************************************************)
(* The inductive invariant behind them: what each stage of the application *)
(* holds in memory, that a request in memory is an event's first copy, and *)
(* how often an event was queued against how often it was forgotten.       *)
(***************************************************************************)
MemoryOfStage ==
  /\ phase # "serving" => inbox = <<>> /\ live = Idle
  /\ phase # "draining" => todo = {}
  /\ phase # "recovering" => batch = {}

Unasked(e) == helper[e] \in {"none", "asking"}
NoCopyOf(e) ==
  /\ ingress[e] = "none" /\ spool[e] = "none" /\ e \notin todo \cup batch
  /\ enqueued[e] = 0

\* An event no helper asked about has left no trace; one whose request waits,
\* or is about to be committed, was not recorded as queued before.
RequestComesFirst ==
  /\ \A e \in Events : Unasked(e) => NoCopyOf(e)
  /\ \A i, j \in 1..Len(inbox) : inbox[i] = inbox[j] => i = j
  /\ \A i \in 1..Len(inbox) :
       ~Unasked(inbox[i]) /\ enqueued[inbox[i]] = 0 /\ inbox[i] # live.event
  /\ IF live.stage = "idle" THEN live.event = NoEvent
     ELSE live.event \in Events /\ ~Unasked(live.event)
  /\ live.stage = "decided" => live.ttl \in TTLs /\ enqueued[live.event] = 0

RecordedIsHandled ==
  /\ \A e \in Events : Seen(e) => e \in handled
  /\ live.stage = "accepted" => live.event \in handled

\* Nobody but the user makes the application forget an event it queued before
\* every rule's time to live has run out.
QueuedOrPast ==
  \A e \in Events :
    \/ enqueued[e] <= cleared[e]
    \/ enqueued[e] = cleared[e] + 1 /\ (row[e] = "queued" \/ Past(occurred[e]))

IInv ==
  TypeOK /\ MemoryOfStage /\ RequestComesFirst /\ RecordedIsHandled /\ Custody /\ JobKeepsEvent
  /\ QueuedOrPast

Waits(e) == ingress[e] # "none" \/ spool[e] # "none"

\* Rows that fail at every recovery fill the whole batch, oldest first.
Blocked(e) ==
  Cardinality({u \in Uncatalogued : ingress[u] # "none" /\ occurred[u] <= occurred[e]})
    >= RecoveryBatch

\* The backlog drains: if the application completes its startup again and
\* again, every row and file it can read leaves the stores, and rows left in
\* `processing` take their turn again. Rows that fail every time hold it up only
\* while there are as many of them as a batch takes: a backlog behind fewer, or
\* behind some that a clearing or retention removes, is worked off.
BacklogDrains ==
  []<><<Bind>>_vars =>
    \A e \in Events \ Uncatalogued : []<>~Waits(e) \/ <>[]Blocked(e)

\* Not so: that a failing row never strands its siblings.
BacklogAlwaysDrains ==
  []<><<Bind>>_vars => \A e \in Events \ Uncatalogued : []<>~Waits(e)
=============================================================================
