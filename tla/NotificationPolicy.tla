------------------------ MODULE NotificationPolicy -------------------------
(***************************************************************************)
(* Which events become notifications, and when.  evaluate_policy           *)
(* (rules/policy.rs) decides about an event from the rule, the pause, the  *)
(* local clock and the deliveries on record; pipeline.rs reads these one   *)
(* after the other, evaluates, and afterwards records the event and its    *)
(* jobs in one transaction.  Edits, the clock and the worker go on between *)
(* any two of these steps.  The worker of DeliveryWorker is external here: *)
(* it may send any job that is due, at any time, or give it up.            *)
(***************************************************************************)
EXTENDS Integers, FiniteSets

CONSTANTS
  Events,
  Unmatched,      \* events the rule's filters do not admit
  Detailed,       \* events admitted by model or permission mode, which rows do not keep
  Channels,
  Rules,          \* the versions the rule may have, see RuleShape
  Immediate,      \* in place of an aggregation window: DeliveryMode::Immediate
  Never,          \* in place of quiet hours, a rule, an event, an instant: there is none
  Offsets,        \* UTC offsets the front end may report
  PauseLengths,
  DayLength,      \* instants in a day
  FirstWeekday,   \* weekday of day 0, Monday is 1
  ChannelLookup,  \* the limit passed to recent_delivery_times
  TotalLookup,    \* POLICY_RECENT_DELIVERY_LOOKUP
  MaxTime,        \* bound: the clock stops here
  MaxFaults,      \* bound: reads and transactions that fail, restarts
  MaxEdits        \* bound: edits of the rule and the pause, clearings

VARIABLES
  now,
  rule,      \* the rule in force, resolved for the project
  pause,     \* notification_pause of the settings
  reported,  \* local_offset_seconds of the settings
  offset,    \* the pipeline's local_offset
  occurred,  \* event -> occurred_at
  input,     \* PolicyInput: what the evaluation under way has read so far
  plan,      \* event -> how far it is, the rule and the verdict it was given
  job,       \* event -> channel -> its delivery job
  sentAt,    \* event -> channel -> completed_at of its successful attempt
  spent      \* how much of each bound is used up

settings == <<rule, pause, reported, offset>>
vars == <<now, settings, occurred, input, plan, job, sentAt, spent>>

Stages == {"none", "waiting", "decided", "recorded"}
Verdicts == {"send", "aggregate", "defer", "suppress", "expire"}

\* Every event the pipeline builds has severity Info: a bypass from there up
\* lets all of them pass, any other none.
QuietHours == [start : 0..DayLength - 1, end : 0..DayLength - 1, days : SUBSET (1..7),
               bypassInfo : BOOLEAN]
RuleShape == [enabled : BOOLEAN, permission : BOOLEAN, targets : SUBSET Channels,
              ttl : Nat \ {0}, cooldown : Nat, window : Nat, cap : Nat \ {0},
              mode : (Nat \ {0}) \cup {Immediate},
              quiet : QuietHours \cup {Never}, behavior : {"suppress", "defer"}]

ASSUME PolicyAssumption ==
  /\ IsFiniteSet(Events) /\ Unmatched \subseteq Events /\ Detailed \subseteq Events
  /\ IsFiniteSet(Channels) /\ Rules \subseteq RuleShape
  /\ Immediate \notin Nat /\ Never \notin Events \cup Nat
  /\ Offsets \subseteq Int /\ PauseLengths \subseteq Nat \ {0}
  /\ DayLength \in Nat \ {0} /\ FirstWeekday \in 1..7
  /\ ChannelLookup \in Nat \ {0} /\ TotalLookup \in Nat \ {0}
  /\ MaxTime \in Nat /\ MaxFaults \in Nat /\ MaxEdits \in Nat

\* Without an evaluation; `known` is history: the deliveries there were when the
\* clock was read.
NoInput ==
  [step |-> "idle", event |-> Never, live |-> FALSE, rule |-> Never, now |-> Never,
   pause |-> Never, listed |-> {}, left |-> {}, recent |-> {}, known |-> {}]

Unplanned(stage) == [stage |-> stage, rule |-> Never, verdict |-> "suppress", until |-> Never]

Init ==
  /\ now = 0
  /\ rule \in Rules
  /\ pause = Never
  /\ reported \in Offsets /\ offset = reported
  /\ occurred = [e \in Events |-> 0]
  /\ input = NoInput
  /\ plan = [e \in Events |-> Unplanned("none")]
  /\ job = [e \in Events |-> [c \in Channels |-> "none"]]
  /\ sentAt = [e \in Events |-> [c \in Channels |-> 0]]
  /\ spent = [faults |-> 0, edits |-> 0]

Uses(bound, limit) == spent[bound] < limit /\ spent' = [spent EXCEPT ![bound] = @ + 1]
Fault == Uses("faults", MaxFaults)
Edit == Uses("edits", MaxEdits)

----------------------------------------------------------------------------
(* The local calendar and the quiet hours. *)

LocalDay(t) == (t + offset) \div DayLength
LocalTime(t) == (t + offset) % DayLength
Weekday(day) == ((FirstWeekday - 1 + day) % 7) + 1
\* A mutant of WeekdayBefore: the day before Monday is day 0.
WeekdayBeforeUnwrapped(weekday) == weekday - 1
WeekdayBefore(weekday) == IF weekday = 1 THEN 7 ELSE weekday - 1

\* The quiet hours that cover this time of day began today, or yesterday.
OpenedToday(time, q) ==
  \/ q.start < q.end /\ q.start <= time /\ time < q.end
  \/ q.start > q.end /\ q.start <= time
  \/ q.start = q.end
OpenedYesterday(time, q) == q.start > q.end /\ time < q.end

InQuietHours(t, q) ==
  LET weekday == Weekday(LocalDay(t))
  IN  \/ OpenedToday(LocalTime(t), q) /\ weekday \in q.days
      \/ OpenedYesterday(LocalTime(t), q) /\ WeekdayBefore(weekday) \in q.days

\* A mutant of EndsTomorrow: after midnight too, a wrapped period ends tomorrow.
EndsTomorrowAlways(time, q) == q.start >= q.end
EndsTomorrow(time, q) == (q.start >= q.end /\ time >= q.start) \/ q.start = q.end
QuietEnd(t, q) ==
  (LocalDay(t) + (IF EndsTomorrow(LocalTime(t), q) THEN 1 ELSE 0)) * DayLength + q.end - offset

Quiet ==
  /\ input.rule.quiet # Never /\ ~input.rule.quiet.bypassInfo
  /\ InQuietHours(input.now, input.rule.quiet)

----------------------------------------------------------------------------
(* The other conditions of evaluate_policy. *)

Refused(e) == ~input.rule.enabled \/ e \in Unmatched \/ (e \in Detailed /\ ~input.live)
Expired(e) == input.now - occurred[e] >= input.rule.ttl
PauseContains(t) == input.pause # Never /\ input.pause.from <= t /\ t < input.pause.until
Paused(e) == PauseContains(input.now) \/ PauseContains(occurred[e])

\* The successful attempts on record.
Deliveries ==
  {[event |-> d[1], channel |-> d[2], at |-> sentAt[d[1]][d[2]]] :
     d \in {d \in Events \X Channels : job[d[1]][d[2]] = "sent"}}

\* Of those looked up, the ones later than `after`; of one channel.
Recent(after) == {d \in input.recent : d.at > after}
Delivered(c, after) == {d \in Recent(after) : d.channel = c}
Least(a, b) == IF a < b THEN a ELSE b

\* The deliveries later than `after` the policy gets: the latest few of each
\* channel, which only their place among them tells apart, and of these the
\* latest few in all.
LookedUp(after) ==
  {d \in Channels \X (1..ChannelLookup) : d[2] <= Cardinality(Delivered(d[1], after))}
Latest(after) == Least(TotalLookup, Cardinality(LookedUp(after)))
\* It counts those up to the instant it takes for now; a mutant counts all.
SeenSince(after) == Latest(after)
Seen(after) == Latest(after) - Latest(input.now)

CoolingDown == input.rule.cooldown > 0 /\ Seen(input.now - input.rule.cooldown) > 0
\* A mutant of WindowFull: one more than the limit.
WindowOverfull == Seen(input.now - input.rule.window) > input.rule.cap
WindowFull == Seen(input.now - input.rule.window) >= input.rule.cap

Aggregates == input.rule.mode # Immediate /\ ~input.rule.permission
Release == ((input.now \div input.rule.mode) + 1) * input.rule.mode

Queued(verdict, until) ==
  [stage |-> "decided", rule |-> input.rule, verdict |-> verdict, until |-> until]
Dropped(verdict) ==
  [stage |-> "decided", rule |-> Never, verdict |-> verdict, until |-> Never]

\* evaluate_policy.
Decision(e) ==
  IF Refused(e) THEN Dropped("suppress")
  ELSE IF Expired(e) THEN Dropped("expire")
  ELSE IF Paused(e) THEN Dropped("suppress")
  ELSE IF Quiet
    THEN IF input.rule.behavior = "defer"
           THEN Queued("defer", QuietEnd(input.now, input.rule.quiet)) ELSE Dropped("suppress")
  ELSE IF CoolingDown \/ WindowFull THEN Dropped("suppress")
  ELSE IF Aggregates THEN Queued("aggregate", Release)
  ELSE Queued("send", Never)

----------------------------------------------------------------------------
(* The pipeline: one event at a time, live or recovered from a store. *)

Occur(e) ==
  /\ plan[e].stage = "none"
  /\ plan' = [plan EXCEPT ![e].stage = "waiting"]
  /\ occurred' = [occurred EXCEPT ![e] = now]
  /\ UNCHANGED <<now, settings, input, job, sentAt, spent>>

\* process_live for a request, process_safe_ingress_with for a row.
Begin(e, live) ==
  /\ plan[e].stage = "waiting" /\ input.step = "idle"
  /\ \A f \in Events : plan[f].stage # "decided"
  /\ input' = [NoInput EXCEPT !.step = "begun", !.event = e, !.live = live]
  /\ UNCHANGED <<now, settings, occurred, plan, job, sentAt, spent>>

\* resolve_effective_rule; a row's evaluation has read the clock by then.
ResolveRule ==
  /\ input.step = "begun" /\ input.rule = Never
  /\ input.live \/ input.now # Never
  /\ input' = [input EXCEPT !.rule = rule]
  /\ UNCHANGED <<now, settings, occurred, plan, job, sentAt, spent>>

\* Utc::now(); a request's evaluation has resolved the rule by then.
ReadClock ==
  /\ input.step = "begun" /\ input.now = Never
  /\ ~input.live \/ input.rule # Never
  /\ input' = [input EXCEPT !.now = now, !.known = Deliveries]
  /\ UNCHANGED <<now, settings, occurred, plan, job, sentAt, spent>>

\* get_settings, then list_channels, which always gives the same.
Reads(paused, channels) ==
  /\ input.step = "begun" /\ input.rule # Never /\ input.now # Never
  /\ input' = [input EXCEPT !.step = "counting", !.pause = paused,
                            !.listed = channels, !.left = channels]
  /\ UNCHANGED <<now, settings, occurred, plan, job, sentAt>>
ReadSettings == Reads(pause, Channels) /\ UNCHANGED spent

\* get_settings().ok() and list_channels().unwrap_or_default().
ReadsNothing == (Reads(Never, Channels) \/ Reads(pause, {}) \/ Reads(Never, {})) /\ Fault

\* recent_delivery_times of one channel after the other.
LookUp(c) ==
  /\ input.step = "counting" /\ c \in input.left
  /\ input' = [input EXCEPT !.left = @ \ {c},
                            !.recent = @ \cup {d \in Deliveries : d.channel = c}]
  /\ UNCHANGED <<now, settings, occurred, plan, job, sentAt, spent>>

Evaluate(e) ==
  /\ input.step = "counting" /\ input.left = {} /\ input.event = e
  /\ plan' = [plan EXCEPT ![e] = Decision(e)]
  /\ input' = NoInput
  /\ UNCHANGED <<now, settings, occurred, job, sentAt, spent>>

IsQueued(p) == p.verdict \in {"send", "aggregate", "defer"}
JobsOf(p) == [c \in Channels |->
                IF IsQueued(p) /\ c \in p.rule.targets THEN "pending" ELSE "none"]

Record(e) ==
  /\ plan[e].stage = "decided"
  /\ plan' = [plan EXCEPT ![e].stage = "recorded"]
  /\ job' = [job EXCEPT ![e] = JobsOf(plan[e])]
  /\ UNCHANGED <<now, settings, occurred, input, sentAt, spent>>

\* Any other read or the transaction fails: the helper's fallback, or the row left,
\* keeps the event.
Fails(e) ==
  /\ input.event = e \/ plan[e].stage = "decided"
  /\ input' = NoInput
  /\ plan' = [plan EXCEPT ![e] = Unplanned("waiting")]
  /\ Fault
  /\ UNCHANGED <<now, settings, occurred, job, sentAt>>

Restart ==
  /\ offset' = reported
  /\ input' = NoInput
  /\ plan' = [e \in Events |->
                IF plan[e].stage = "decided" THEN Unplanned("waiting") ELSE plan[e]]
  /\ Fault
  /\ UNCHANGED <<now, rule, pause, reported, occurred, job, sentAt>>

----------------------------------------------------------------------------
(* The worker, as far as the policy sees it. *)

\* The rows a message for e on c stands for: its bucket's, or its own alone.
SameBucket(e, f) ==
  /\ plan[e].verdict = "aggregate" /\ plan[f].verdict = "aggregate"
  /\ plan[e].rule = plan[f].rule /\ plan[e].until = plan[f].until
Message(e, c) == {f \in Events : job[f][c] = "pending" /\ (f = e \/ SameBucket(e, f))}
\* Only an aggregate has a release time; a deferred job is due at once.
Due(e) == plan[e].verdict = "aggregate" => now >= plan[e].until

Send(e, c) ==
  /\ job[e][c] = "pending" /\ Due(e)
  /\ job' = [f \in Events |-> IF f \in Message(e, c)
                                THEN [job[f] EXCEPT ![c] = "sent"] ELSE job[f]]
  /\ sentAt' = [f \in Events |-> IF f \in Message(e, c)
                                   THEN [sentAt[f] EXCEPT ![c] = now] ELSE sentAt[f]]
  /\ UNCHANGED <<now, settings, occurred, input, plan, spent>>

GiveUp(e, c) ==
  /\ job[e][c] = "pending"
  /\ job' = [job EXCEPT ![e][c] = "gone"]
  /\ UNCHANGED <<now, settings, occurred, input, plan, sentAt, spent>>

----------------------------------------------------------------------------
(* The user and the clock. *)

EditRule ==
  /\ rule' \in Rules \ {rule}
  /\ Edit
  /\ UNCHANGED <<now, pause, reported, offset, occurred, input, plan, job, sentAt>>

PauseFor ==
  /\ \E length \in PauseLengths : pause' = [from |-> now, until |-> now + length]
  /\ Edit
  /\ UNCHANGED <<now, rule, reported, offset, occurred, input, plan, job, sentAt>>

Resume ==
  /\ pause # Never
  /\ pause' = Never
  /\ UNCHANGED <<now, rule, reported, offset, occurred, input, plan, job, sentAt, spent>>

\* Clearing the history takes the attempts the limits are counted from.
ClearHistory ==
  /\ \E e \in Events, c \in Channels : job[e][c] = "sent"
  /\ job' = [e \in Events |-> [c \in Channels |->
               IF job[e][c] = "sent" THEN "gone" ELSE job[e][c]]]
  /\ sentAt' = [e \in Events |-> [c \in Channels |-> 0]]
  /\ Edit
  /\ UNCHANGED <<now, settings, occurred, input, plan>>

\* The front end reports its offset at every start of the window; the running
\* pipeline keeps the one it was made with.
ReportOffset ==
  /\ reported' \in Offsets \ {reported}
  /\ Edit
  /\ UNCHANGED <<now, rule, pause, offset, occurred, input, plan, job, sentAt>>

Tick ==
  /\ now < MaxTime
  /\ now' = now + 1
  /\ UNCHANGED <<settings, occurred, input, plan, job, sentAt, spent>>

Next ==
  \/ \E e \in Events :
       \/ Occur(e) \/ Evaluate(e) \/ Record(e) \/ Fails(e)
       \/ \E live \in BOOLEAN : Begin(e, live)
       \/ \E c \in Channels : Send(e, c) \/ GiveUp(e, c)
  \/ ResolveRule \/ ReadClock \/ ReadSettings \/ ReadsNothing
  \/ \E c \in Channels : LookUp(c)
  \/ Restart \/ EditRule \/ PauseFor \/ Resume \/ ClearHistory \/ ReportOffset \/ Tick

Spec == Init /\ [][Next]_vars

----------------------------------------------------------------------------
(* Properties *)

Delivery == [event : Events, channel : Channels, at : Nat]
Input ==
  [step : {"idle", "begun", "counting"}, event : Events \cup {Never}, live : BOOLEAN,
   rule : Rules \cup {Never}, now : Nat \cup {Never},
   pause : [from : Nat, until : Nat] \cup {Never},
   listed : SUBSET Channels, left : SUBSET Channels,
   recent : SUBSET Delivery, known : SUBSET Delivery]

\* The type invariant: every row, verdict and setting has its shape.
TypeOK ==
  /\ now \in 0..MaxTime
  /\ rule \in Rules /\ reported \in Offsets /\ offset \in Offsets
  /\ pause \in [from : Nat, until : Nat] \cup {Never}
  /\ occurred \in [Events -> 0..now]
  /\ input \in Input
  /\ plan \in [Events -> [stage : Stages, rule : Rules \cup {Never}, verdict : Verdicts,
                          until : Int \cup {Never}]]
  /\ job \in [Events -> [Channels -> {"none", "pending", "sent", "gone"}]]
  /\ sentAt \in [Events -> [Channels -> 0..now]]
  /\ spent \in [faults : 0..MaxFaults, edits : 0..MaxEdits]

\* This step is the policy's decision about e.
Decides(e) == plan[e].stage = "waiting" /\ plan'[e].stage = "decided"
LetsThrough(e) == Decides(e) /\ plan'[e].verdict \in {"send", "aggregate"}

\* What quiet hours mean, said without the clock: on each of their weekdays a
\* period opens, and it closes at the next end; equal times mean the whole day.
Period(day, q) ==
  LET midnight == day * DayLength
  IN  IF q.start = q.end THEN [from |-> midnight, to |-> midnight + DayLength]
      ELSE [from |-> midnight + q.start,
            to |-> midnight + q.end + (IF q.start < q.end THEN 0 ELSE DayLength)]
Covering(t, q) ==
  LET days == {day \in LocalDay(0) - 1 .. LocalDay(MaxTime) : Weekday(day) \in q.days}
  IN  {p \in {Period(day, q) : day \in days} : p.from <= t + offset /\ t + offset < p.to}
QuietByCalendar ==
  /\ input.rule.quiet # Never /\ ~input.rule.quiet.bypassInfo
  /\ Covering(input.now, input.rule.quiet) # {}

\* In a quiet period, at the pipeline's local time when the clock was read, nothing
\* is sent or aggregated unless the rule lets Info bypass it (quiet_membership).
QuietKept == [][\A e \in Events : LetsThrough(e) => ~QuietByCalendar]_vars

\* A deferral lasts to the close of the period that covers the moment; but one of a
\* whole day lasts on into the next, to the time the rule names (quiet_end).
Overrun(q) == IF q.start = q.end THEN q.end ELSE 0
DeferralEndsQuiet ==
  [][\A e \in Events :
       Decides(e) /\ plan'[e].verdict = "defer" =>
         \E p \in Covering(input.now, input.rule.quiet) :
           plan'[e].until = p.to + Overrun(input.rule.quiet) - offset]_vars

\* The deliveries that were on record when the clock was read and still are; what
\* came to the lookup since takes places in it.
StillKnown(after) == {d \in input.known \cap Deliveries : d.at > after}
Visible(n) ==
  LET since == Cardinality({d \in input.recent : d.at > input.now})
  IN  n + since <= ChannelLookup /\ n + since <= TotalLookup

\* What is let through comes after the cooldown of every delivery known when the
\* clock was read, and finds fewer of them than max_per_window in the window, for
\* limits within the lookup of recent_delivery_times_for_rule.
LimitsKept ==
  [][\A e \in Events : LetsThrough(e) /\ input.listed = Channels =>
       /\ input.rule.cooldown > 0 /\ Visible(1) =>
            StillKnown(input.now - input.rule.cooldown) = {}
       /\ Visible(input.rule.cap) =>
            Cardinality(StillKnown(input.now - input.rule.window)) < input.rule.cap]_vars

\* The deliveries looked up between two instants.
Between(after, last) == {d \in input.recent : after < d.at /\ d.at <= last}
HasCause(e) ==
  \/ Refused(e) \/ Expired(e) \/ Paused(e) \/ QuietByCalendar
  \/ input.rule.cooldown > 0 /\ Between(input.now - input.rule.cooldown, input.now) # {}
  \/ Cardinality(Between(input.now - input.rule.window, input.now)) >= input.rule.cap

\* No event is dropped without one of the rule's conditions to account for it.
NotifiedUnlessCause ==
  [][\A e \in Events : Evaluate(e) /\ ~HasCause(e) => IsQueued(plan'[e])]_vars

(***************************************************************************)
(* The inductive invariant.                                                *)
(***************************************************************************)
\* Only a recorded event has jobs.
JobsAreRecorded ==
  \A e \in Events, c \in Channels : job[e][c] # "none" => plan[e].stage = "recorded"

\* What an evaluation goes by has been read; it is about a waiting event, and has
\* looked up finitely many deliveries.
ReadsInOrder ==
  /\ IsFiniteSet(input.recent)
  /\ input.now # Never => input.now <= now
  /\ input.step # "counting" => input.listed = {}
  /\ input.step = "counting" => input.rule # Never /\ input.now # Never
  /\ input.event # Never => plan[input.event].stage = "waiting"

\* What was known is from before, and if it is still on record it has been counted
\* where its channel has.
KnownIsCounted ==
  \A d \in input.known :
    /\ input.now # Never /\ d.at <= input.now
    /\ job[d.event][d.channel] \in {"sent", "gone"}
    /\ d \in Deliveries /\ d.channel \in input.listed \ input.left => d \in input.recent

IInv == TypeOK /\ JobsAreRecorded /\ ReadsInOrder /\ KnownIsCounted

(***************************************************************************)
(* What the documentation says of a deferral.                              *)
(***************************************************************************)
\* A notification deferred to the end of the quiet hours is not sent before.
DeferredWaits ==
  [][\A e \in Events, c \in Channels :
       plan[e].verdict = "defer" /\ job[e][c] = "pending" /\ job'[e][c] = "sent"
         => now >= plan[e].until]_vars

=============================================================================
