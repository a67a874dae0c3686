--------------------------- MODULE PipelineProofs ---------------------------
(***************************************************************************)
(* What the pipeline makes of an event.  First whether and when somebody   *)
(* is told of it, for every rule, clock, calendar, history and number of   *)
(* channels: quiet periods and limits are kept, nothing is withheld        *)
(* without a cause.  Then what leaves the program, for every event, rule,  *)
(* template and channel: only what the catalog calls public, with what the *)
(* built-in patterns match hidden; a rule that asks for no body gets the   *)
(* facts whatever the template says, and DingTalk's keyword is never cut   *)
(* off.  Nothing is assumed of the patterns.  Last what is stored of a     *)
(* hook's input, for every input, hook and key.                            *)
(***************************************************************************)
EXTENDS NotificationPolicy, EventRecord, FiniteSetTheorems, FunctionTheorems, TLAPS


-----------------------------------------------------------------------------
(* The calendar *)

\* Division and remainder of instants by the length of a day.
LEMMA LocalClock ==
  ASSUME NEW t \in Int
  PROVE  /\ t \div DayLength \in Int /\ t % DayLength \in 0..DayLength - 1
         /\ t = (t \div DayLength) * DayLength + (t % DayLength)
  BY PolicyAssumption

\* What the arithmetic of days needs of products.
LEMMA Products ==
  ASSUME NEW x \in Int, NEW y \in Int
  PROVE  /\ x * DayLength \in Int
         /\ (x + 1) * DayLength = x * DayLength + DayLength
         /\ x * DayLength < y * DayLength => x < y
<1> DayLength \in Nat \ {0}
  BY PolicyAssumption
<1> QED
  OBVIOUS

\* The day before is the day before in the week.
LEMMA Week ==
  ASSUME NEW day \in Int
  PROVE  /\ Weekday(day) \in 1..7
         /\ Weekday(day - 1) = WeekdayBefore(Weekday(day))
  BY PolicyAssumption DEF Weekday, WeekdayBefore

\* Where the moment t is in the local calendar.
LEMMA Moment ==
  ASSUME NEW t \in Int, offset \in Int
  PROVE  /\ LocalDay(t) \in Int /\ LocalTime(t) \in 0..DayLength - 1
         /\ t + offset = LocalDay(t) * DayLength + LocalTime(t)
  BY LocalClock DEF LocalDay, LocalTime

\* The calendar reaches from the first instant to the last.
LEMMA DaysInOrder ==
  ASSUME NEW t \in 0..MaxTime, offset \in Int
  PROVE  LocalDay(0) <= LocalDay(t) /\ LocalDay(t) <= LocalDay(MaxTime)
<1>1. ASSUME NEW a \in Int, NEW b \in Int, a <= b
      PROVE  LocalDay(a) <= LocalDay(b)
  <2>1. /\ LocalDay(a) \in Int /\ LocalTime(a) \in 0..DayLength - 1
        /\ a + offset = LocalDay(a) * DayLength + LocalTime(a)
    BY Moment
  <2>2. /\ LocalDay(b) \in Int /\ LocalTime(b) \in 0..DayLength - 1
        /\ b + offset = LocalDay(b) * DayLength + LocalTime(b)
    BY Moment
  <2>3. /\ LocalDay(a) * DayLength \in Int /\ LocalDay(b) * DayLength \in Int
        /\ (LocalDay(b) + 1) * DayLength = LocalDay(b) * DayLength + DayLength
    BY <2>1, <2>2, Products
  <2>4. LocalDay(a) * DayLength < (LocalDay(b) + 1) * DayLength
    BY <1>1, <2>1, <2>2, <2>3, PolicyAssumption
  <2>5. LocalDay(a) < LocalDay(b) + 1
    BY <2>1, <2>2, <2>4, Products
  <2>6. QED
    BY <2>1, <2>2, <2>5
<1>2. 0 \in Int /\ t \in Int /\ MaxTime \in Int /\ 0 <= t /\ t <= MaxTime
  BY PolicyAssumption
<1>3. QED
  BY <1>1, <1>2

\* The period that opens on a day covers this moment exactly if it is today's and
\* has begun, or yesterday's and has not ended.
LEMMA PeriodCovers ==
  ASSUME NEW t \in Int, offset \in Int, NEW q \in QuietHours, NEW day \in Int
  PROVE  Period(day, q).from <= t + offset /\ t + offset < Period(day, q).to
           <=> \/ day = LocalDay(t) /\ OpenedToday(LocalTime(t), q)
               \/ day = LocalDay(t) - 1 /\ OpenedYesterday(LocalTime(t), q)
<1> DEFINE today == LocalDay(t)
           time == LocalTime(t)
           D == today * DayLength
           M == day * DayLength
<1>1. /\ today \in Int /\ time \in 0..DayLength - 1
      /\ t + offset = D + time
  BY Moment
<1>2. q.start \in 0..DayLength - 1 /\ q.end \in 0..DayLength - 1
  BY DEF QuietHours
<1>3. DayLength \in Nat \ {0}
  BY PolicyAssumption
<1>4. /\ D \in Int /\ M \in Int
      /\ today = day + 1 => D = M + DayLength
      /\ today = day => D = M
  BY <1>1, Products
<1>5. /\ (today + 1) * DayLength = D + DayLength /\ (day + 1) * DayLength = M + DayLength
      /\ (day + 2) * DayLength = M + DayLength + DayLength
  BY <1>1, <1>3, Products
<1>6. /\ M < D + DayLength => day < today + 1
      /\ D < M + DayLength => today < day + 1
      /\ D < M + DayLength + DayLength => today < day + 2
  <2>1. /\ day * DayLength < (today + 1) * DayLength => day < today + 1
        /\ today * DayLength < (day + 1) * DayLength => today < day + 1
        /\ today * DayLength < (day + 2) * DayLength => today < day + 2
    <3>1. /\ day \in Int /\ today + 1 \in Int /\ today \in Int /\ day + 1 \in Int /\ day + 2 \in Int
      BY <1>1
    <3>2. QED
      BY <3>1, Products
  <2>2. QED
    BY <1>5, <2>1
<1>7. CASE q.start < q.end
  <2>1. Period(day, q) = [from |-> M + q.start, to |-> M + q.end]
    BY <1>2, <1>4, <1>7 DEF Period
  <2>2. M + q.start <= D + time /\ D + time < M + q.end
          <=> day = today /\ q.start <= time /\ time < q.end
    BY <1>1, <1>2, <1>3, <1>4, <1>6
  <2>3. QED
    BY <1>1, <1>2, <1>7, <2>1, <2>2 DEF OpenedToday, OpenedYesterday
<1>8. CASE q.start > q.end
  <2>1. Period(day, q) = [from |-> M + q.start, to |-> M + q.end + DayLength]
    BY <1>2, <1>4, <1>8 DEF Period
  <2>2. M + q.start <= D + time /\ D + time < M + q.end + DayLength
          <=> \/ day = today /\ q.start <= time
              \/ day = today - 1 /\ time < q.end
    BY <1>1, <1>2, <1>3, <1>4, <1>6, <1>8
  <2>3. QED
    BY <1>1, <1>2, <1>8, <2>1, <2>2 DEF OpenedToday, OpenedYesterday
<1>9. CASE q.start = q.end
  <2>1. Period(day, q) = [from |-> M, to |-> M + DayLength]
    BY <1>9 DEF Period
  <2>2. M <= D + time /\ D + time < M + DayLength <=> day = today
    BY <1>1, <1>3, <1>4, <1>6
  <2>3. QED
    BY <1>1, <1>2, <1>9, <2>1, <2>2 DEF OpenedToday, OpenedYesterday
<1> QED
  BY <1>2, <1>7, <1>8, <1>9

\* The clock arithmetic of quiet_membership is the calendar of quiet periods.
LEMMA QuietIsCalendar ==
  ASSUME NEW t \in 0..MaxTime, offset \in Int, NEW q \in QuietHours
  PROVE  InQuietHours(t, q) <=> Covering(t, q) # {}
<1> DEFINE today == LocalDay(t)
           days == {day \in LocalDay(0) - 1 .. LocalDay(MaxTime) : Weekday(day) \in q.days}
<1>1. /\ t \in Int /\ 0 \in Int /\ MaxTime \in Int /\ today \in Int
      /\ LocalDay(0) \in Int /\ LocalDay(MaxTime) \in Int
  BY PolicyAssumption, Moment
<1>2. /\ today \in LocalDay(0) - 1 .. LocalDay(MaxTime)
      /\ today - 1 \in LocalDay(0) - 1 .. LocalDay(MaxTime)
  BY <1>1, DaysInOrder
<1>3. Weekday(today - 1) = WeekdayBefore(Weekday(today))
  BY <1>1, Week
<1>4. Covering(t, q) # {} <=>
        \E day \in days : Period(day, q).from <= t + offset /\ t + offset < Period(day, q).to
  BY DEF Covering
<1>5. \A day \in days : day \in Int
  BY <1>1
<1>6. Covering(t, q) # {} <=>
        \E day \in days : \/ day = today /\ OpenedToday(LocalTime(t), q)
                          \/ day = today - 1 /\ OpenedYesterday(LocalTime(t), q)
  BY <1>1, <1>4, <1>5, PeriodCovers
<1>7. (today \in days <=> Weekday(today) \in q.days)
      /\ (today - 1 \in days <=> WeekdayBefore(Weekday(today)) \in q.days)
  BY <1>2, <1>3
<1> QED
  BY <1>6, <1>7 DEF InQuietHours

\* quiet_end is the close of the period that covers the moment, or after a whole day
\* the next time the rule names.
LEMMA QuietEndIsPeriods ==
  ASSUME NEW t \in 0..MaxTime, offset \in Int, NEW q \in QuietHours, InQuietHours(t, q)
  PROVE  \E p \in Covering(t, q) : QuietEnd(t, q) = p.to + Overrun(q) - offset
<1> DEFINE today == LocalDay(t)
           time == LocalTime(t)
           days == {day \in LocalDay(0) - 1 .. LocalDay(MaxTime) : Weekday(day) \in q.days}
<1>1. /\ t \in Int /\ 0 \in Int /\ MaxTime \in Int /\ today \in Int
      /\ LocalDay(0) \in Int /\ LocalDay(MaxTime) \in Int
      /\ time \in 0..DayLength - 1
  BY PolicyAssumption, Moment
<1>2. /\ today \in LocalDay(0) - 1 .. LocalDay(MaxTime)
      /\ today - 1 \in LocalDay(0) - 1 .. LocalDay(MaxTime)
  BY <1>1, DaysInOrder
<1>3. Weekday(today - 1) = WeekdayBefore(Weekday(today))
  BY <1>1, Week
<1>4. /\ q.start \in 0..DayLength - 1 /\ q.end \in 0..DayLength - 1
      /\ DayLength \in Nat \ {0}
  BY PolicyAssumption DEF QuietHours
<1>5. /\ today * DayLength \in Int /\ (today - 1) * DayLength \in Int
      /\ (today + 1) * DayLength = today * DayLength + DayLength
      /\ today * DayLength = (today - 1) * DayLength + DayLength
  BY <1>1, <1>4, Products
<1>6. ASSUME NEW day \in days,
             \/ day = today /\ OpenedToday(time, q)
             \/ day = today - 1 /\ OpenedYesterday(time, q)
      PROVE  Period(day, q) \in Covering(t, q)
  <2>1. day \in Int
    BY <1>1
  <2>2. Period(day, q).from <= t + offset /\ t + offset < Period(day, q).to
    BY <1>1, <1>6, <2>1, PeriodCovers
  <2>3. QED
    BY <2>2 DEF Covering
<1>7. CASE OpenedToday(time, q) /\ Weekday(today) \in q.days
  <2>1. Period(today, q) \in Covering(t, q)
    BY <1>2, <1>6, <1>7
  <2>2. QuietEnd(t, q) = Period(today, q).to + Overrun(q) - offset
    BY <1>1, <1>4, <1>5, <1>7 DEF QuietEnd, EndsTomorrow, Period, Overrun, OpenedToday
  <2>3. QED
    BY <2>1, <2>2
<1>8. CASE OpenedYesterday(time, q) /\ WeekdayBefore(Weekday(today)) \in q.days
  <2>1. Period(today - 1, q) \in Covering(t, q)
    BY <1>2, <1>3, <1>6, <1>8
  <2>2. QuietEnd(t, q) = Period(today - 1, q).to + Overrun(q) - offset
    BY <1>1, <1>4, <1>5, <1>8 DEF QuietEnd, EndsTomorrow, Period, Overrun, OpenedYesterday
  <2>3. QED
    BY <2>1, <2>2
<1> QED
  BY <1>7, <1>8 DEF InQuietHours

-----------------------------------------------------------------------------
(* The inductive invariant *)

Plan == [stage : Stages, rule : Rules \cup {Never}, verdict : Verdicts, until : Int \cup {Never}]

\* What evaluate_policy returns is a plan.
LEMMA PlansTyped ==
  ASSUME TypeOK, input.rule \in Rules
  PROVE  /\ \A verdict \in Verdicts : Dropped(verdict) \in Plan
         /\ \A verdict \in Verdicts, until \in Int \cup {Never} : Queued(verdict, until) \in Plan
  BY DEF Plan, Dropped, Queued, Stages, Verdicts

LEMMA Waits == Unplanned("waiting") \in Plan /\ Unplanned("none") \in Plan
  BY DEF Plan, Unplanned, Stages, Verdicts

\* Once everything is read, the rule is one there was and the clock's a moment past.
LEMMA InputRead ==
  ASSUME TypeOK, ReadsInOrder, input.step = "counting"
  PROVE  /\ input.rule \in Rules /\ input.rule \in RuleShape
         /\ input.now \in 0..now /\ input.now \in 0..MaxTime /\ offset \in Int
<1>1. input \in Input /\ now \in 0..MaxTime /\ offset \in Offsets
  BY DEF TypeOK
<1>2. input.rule \in Rules /\ input.now \in Nat /\ input.now <= now
  BY <1>1 DEF ReadsInOrder, Input
<1> QED
  BY <1>1, <1>2, PolicyAssumption

\* The verdict is one of the policy's: outside a quiet period and within the limits
\* for what is let through, to the end of the quiet hours for what is deferred.
LEMMA DecisionTyped ==
  ASSUME TypeOK, ReadsInOrder, input.step = "counting", NEW e \in Events, NEW p, p = Decision(e)
  PROVE  /\ p \in Plan /\ p.stage = "decided"
         /\ p.verdict \in {"send", "aggregate"} => ~Quiet /\ ~CoolingDown /\ ~WindowFull
         /\ p.verdict = "defer" => Quiet /\ p.until = QuietEnd(input.now, input.rule.quiet)
<1>1. /\ input.now \in Int /\ offset \in Int /\ input.rule \in RuleShape /\ input.rule \in Rules
  BY InputRead
<1>2. ASSUME Quiet PROVE QuietEnd(input.now, input.rule.quiet) \in Int
  <2>1. input.rule.quiet \in QuietHours
    BY <1>1, <1>2 DEF Quiet, RuleShape
  <2>2. input.rule.quiet.end \in Int /\ DayLength \in Int
    BY <2>1, PolicyAssumption DEF QuietHours
  <2>3. LocalDay(input.now) \in Int
    BY <1>1, Moment
  <2>4. QED
    BY <1>1, <2>2, <2>3 DEF QuietEnd
<1>3. ASSUME Aggregates PROVE Release \in Int
  <2>1. input.rule.mode \in Nat \ {0}
    BY <1>1, <1>3 DEF Aggregates, RuleShape
  <2>2. QED
    BY <1>1, <2>1 DEF Release
<1> DEFINE Free == ~Quiet /\ ~CoolingDown /\ ~WindowFull
<1>4. \/ p = Dropped("suppress") \/ p = Dropped("expire")
      \/ Quiet /\ p = Queued("defer", QuietEnd(input.now, input.rule.quiet))
      \/ Free /\ Aggregates /\ p = Queued("aggregate", Release)
      \/ Free /\ p = Queued("send", Never)
  BY DEF Decision
<1> HIDE DEF Free
<1>5. CASE p \in {Dropped("suppress"), Dropped("expire")}
  BY <1>1, <1>5, PlansTyped DEF Dropped, Verdicts
<1>6. CASE Quiet /\ p = Queued("defer", QuietEnd(input.now, input.rule.quiet))
  BY <1>1, <1>2, <1>6, PlansTyped DEF Queued, Verdicts
<1>7. CASE Free /\ Aggregates /\ p = Queued("aggregate", Release)
  BY <1>1, <1>3, <1>7, PlansTyped DEF Queued, Verdicts, Free
<1>8. CASE Free /\ p = Queued("send", Never)
  <2>1. Queued("send", Never) \in Plan
    BY <1>1, PlansTyped DEF Verdicts
  <2>2. QED
    BY <1>8, <2>1 DEF Queued, Free
<1> QED
  BY <1>4, <1>5, <1>6, <1>7, <1>8

LEMMA StagesTyped ==
  ASSUME NEW p \in Plan, NEW stage \in Stages
  PROVE  [p EXCEPT !.stage = stage] \in Plan
  BY DEF Plan

\* Which steps decide: an evaluation.
LEMMA Deciding ==
  ASSUME TypeOK, Next, NEW e \in Events, Decides(e)
  PROVE  Evaluate(e)
<1>1. plan \in [Events -> Plan]
  BY DEF TypeOK, Plan
<1>2. ASSUME NEW f \in Events, Evaluate(f) PROVE Evaluate(e)
  <2>1. plan' = [plan EXCEPT ![f] = Decision(f)]
    BY <1>2 DEF Evaluate
  <2>2. e = f
    BY <1>1, <2>1 DEF Decides
  <2>3. QED
    BY <1>2, <2>2
<1>3. ASSUME NEW f \in Events, Occur(f) \/ Record(f) \/ Fails(f) PROVE FALSE
  BY <1>1, <1>3 DEF Occur, Record, Fails, Decides, Unplanned, Plan
<1>4. ASSUME Restart PROVE FALSE
  BY <1>1, <1>4 DEF Restart, Decides, Unplanned
<1>5. ASSUME UNCHANGED plan PROVE FALSE
  BY <1>5 DEF Decides
<1>6. ASSUME NEW f \in Events, NEW c \in Channels, Send(f, c) \/ GiveUp(f, c) PROVE FALSE
  BY <1>5, <1>6 DEF Send, GiveUp
<1>7. ASSUME NEW f \in Events, NEW live \in BOOLEAN, Begin(f, live) PROVE FALSE
  BY <1>5, <1>7 DEF Begin
<1>8. ASSUME NEW c \in Channels, LookUp(c) PROVE FALSE
  BY <1>5, <1>8 DEF LookUp
<1>9. ASSUME ResolveRule \/ ReadClock \/ ReadSettings \/ ReadsNothing PROVE FALSE
  BY <1>5, <1>9 DEF ResolveRule, ReadClock, ReadSettings, ReadsNothing, Reads
<1>10. ASSUME EditRule \/ PauseFor \/ Resume \/ ClearHistory \/ ReportOffset \/ Tick PROVE FALSE
  BY <1>5, <1>10 DEF EditRule, PauseFor, Resume, ClearHistory, ReportOffset, Tick
<1> QED
  BY <1>2, <1>3, <1>4, <1>6, <1>7, <1>8, <1>9, <1>10 DEF Next

\* What is on record.
LEMMA DeliveriesTyped ==
  ASSUME TypeOK
  PROVE  Deliveries \subseteq Delivery /\ IsFiniteSet(Deliveries)
<1> DEFINE Sent == {d \in Events \X Channels : job[d[1]][d[2]] = "sent"}
           row(d) == [event |-> d[1], channel |-> d[2], at |-> sentAt[d[1]][d[2]]]
<1>1. IsFiniteSet(Sent)
  <2>1. IsFiniteSet(Events \X Channels)
    BY PolicyAssumption, FS_Product
  <2>2. Sent \in SUBSET (Events \X Channels)
    OBVIOUS
  <2>3. QED
    BY <2>1, <2>2, FS_Subset
<1>2. ASSUME NEW d \in Events \X Channels PROVE row(d) \in Delivery
  BY DEF TypeOK, Delivery
<1>3. Deliveries = {row(d) : d \in Sent}
  BY DEF Deliveries
<1> HIDE DEF Sent, row
<1>4. IsFiniteSet({row(d) : d \in Sent})
  <2> DEFINE f == [d \in Sent |-> row(d)]
             T == {row(d) : d \in Sent}
  <2>1. f \in [Sent -> T] /\ \A y \in T : \E x \in Sent : f[x] = y
    OBVIOUS
  <2>2. f \in Surjection(Sent, T)
    BY <2>1, Fun_IsSurj
  <2> QED
    BY <1>1, <2>2, FS_Surjection
<1>5. Sent \subseteq Events \X Channels
  BY DEF Sent
<1> QED
  BY <1>2, <1>3, <1>4, <1>5

\* A delivery on record is its job's.
LEMMA OnRecord ==
  ASSUME TypeOK, NEW d \in Delivery
  PROVE  d \in Deliveries
           <=> job[d.event][d.channel] = "sent" /\ sentAt[d.event][d.channel] = d.at
<1>1. /\ d.event \in Events /\ d.channel \in Channels
      /\ d = [event |-> d.event, channel |-> d.channel, at |-> d.at]
  BY DEF Delivery
<1>2. <<d.event, d.channel>> \in Events \X Channels
  BY <1>1
<1>3. ASSUME job[d.event][d.channel] = "sent", sentAt[d.event][d.channel] = d.at
      PROVE  d \in Deliveries
  BY <1>1, <1>2, <1>3 DEF Deliveries
<1>4. ASSUME d \in Deliveries
      PROVE  job[d.event][d.channel] = "sent" /\ sentAt[d.event][d.channel] = d.at
  BY <1>4 DEF Deliveries
<1> QED
  BY <1>3, <1>4

\* Each part of an input may be replaced by another of its type.
LEMMA InputsTyped ==
  ASSUME NEW i \in Input
  PROVE  /\ \A r \in Rules : [i EXCEPT !.rule = r] \in Input
         /\ \A t \in Nat, K \in SUBSET Delivery : [i EXCEPT !.now = t, !.known = K] \in Input
         /\ \A p \in [from : Nat, until : Nat] \cup {Never}, C \in SUBSET Channels :
              [i EXCEPT !.step = "counting", !.pause = p, !.listed = C, !.left = C] \in Input
         /\ \A C \in SUBSET Channels, D \in SUBSET Delivery :
              [i EXCEPT !.left = C, !.recent = D] \in Input
  BY DEF Input

LEMMA NoInputTyped ==
  /\ NoInput \in Input
  /\ \A e \in Events, live \in BOOLEAN :
       [NoInput EXCEPT !.step = "begun", !.event = e, !.live = live] \in Input
  BY DEF NoInput, Input

\* The steps of an evaluation keep the type of what it has read.
LEMMA EvaluationTyped ==
  ASSUME TypeOK,
         \/ \E e \in Events, live \in BOOLEAN : Begin(e, live)
         \/ ResolveRule \/ ReadClock \/ ReadSettings \/ ReadsNothing
         \/ \E c \in Channels : LookUp(c)
  PROVE  /\ input' \in Input /\ UNCHANGED <<now, settings, occurred, plan, job, sentAt>>
         /\ UNCHANGED spent \/ Fault
<1>1. input \in Input /\ now \in Nat /\ rule \in Rules /\ Deliveries \subseteq Delivery
      /\ pause \in [from : Nat, until : Nat] \cup {Never}
  BY PolicyAssumption, DeliveriesTyped DEF TypeOK
<1>2. input.left \in SUBSET Channels /\ input.recent \in SUBSET Delivery
  BY <1>1 DEF Input
<1>3. ASSUME NEW e \in Events, NEW live \in BOOLEAN, Begin(e, live) PROVE input' \in Input
  BY <1>3, NoInputTyped DEF Begin
<1>4. CASE ResolveRule
  BY <1>1, <1>4, InputsTyped DEF ResolveRule
<1>5. CASE ReadClock
  BY <1>1, <1>5, InputsTyped DEF ReadClock
<1>6. CASE ReadSettings \/ ReadsNothing
  <2>1. PICK p \in [from : Nat, until : Nat] \cup {Never}, C \in SUBSET Channels : Reads(p, C)
    BY <1>1, <1>6 DEF ReadSettings, ReadsNothing
  <2>2. input' \in Input
    BY <1>1, <2>1, InputsTyped DEF Reads
  <2>3. QED
    BY <1>6, <2>1, <2>2 DEF Reads, ReadSettings, ReadsNothing
<1>7. ASSUME NEW c \in Channels, LookUp(c) PROVE input' \in Input
  <2>1. (input.left \ {c}) \in SUBSET Channels
        /\ (input.recent \cup {d \in Deliveries : d.channel = c}) \in SUBSET Delivery
    BY <1>1, <1>2
  <2>2. QED
    BY <1>1, <1>7, <2>1, InputsTyped DEF LookUp
<1> QED
  BY <1>3, <1>4, <1>5, <1>6, <1>7 DEF Begin, ResolveRule, ReadClock, LookUp

LEMMA TypePreserved ==
  ASSUME TypeOK, ReadsInOrder, Next
  PROVE  TypeOK'
<1> USE PolicyAssumption
<1>1. /\ now \in 0..MaxTime /\ plan \in [Events -> Plan] /\ input \in Input
      /\ occurred \in [Events -> 0..now]
      /\ job \in [Events -> [Channels -> {"none", "pending", "sent", "gone"}]]
      /\ sentAt \in [Events -> [Channels -> 0..now]]
      /\ spent \in [faults : 0..MaxFaults, edits : 0..MaxEdits]
  BY DEF TypeOK, Plan
<1>2. ASSUME NEW bound \in {"faults", "edits"}, NEW limit,
             limit = (IF bound = "faults" THEN MaxFaults ELSE MaxEdits), Uses(bound, limit)
      PROVE  spent' \in [faults : 0..MaxFaults, edits : 0..MaxEdits]
  BY <1>1, <1>2 DEF Uses
<1>3. /\ Fault => spent' \in [faults : 0..MaxFaults, edits : 0..MaxEdits]
      /\ Edit => spent' \in [faults : 0..MaxFaults, edits : 0..MaxEdits]
  BY <1>2 DEF Fault, Edit
<1>4. ASSUME NEW e \in Events, Occur(e) PROVE TypeOK'
  <2>1. plan' \in [Events -> Plan]
    BY <1>1, <1>4, StagesTyped DEF Occur, Stages
  <2>2. occurred' \in [Events -> 0..now]
    BY <1>1, <1>4 DEF Occur
  <2>3. QED
    BY <1>4, <2>1, <2>2 DEF Occur, settings, TypeOK, Plan
<1>5. ASSUME NEW e \in Events, Evaluate(e) PROVE TypeOK'
  <2>1. Decision(e) \in Plan
    BY <1>5, DecisionTyped DEF Evaluate
  <2>2. plan' \in [Events -> Plan]
    BY <1>1, <1>5, <2>1 DEF Evaluate
  <2>3. UNCHANGED <<now, settings, occurred, job, sentAt, spent>> /\ input' \in Input
    BY <1>5, NoInputTyped DEF Evaluate
  <2>4. QED
    BY <2>2, <2>3 DEF settings, TypeOK, Plan
<1>6. ASSUME NEW e \in Events, Record(e) PROVE TypeOK'
  <2>1. plan' \in [Events -> Plan]
    BY <1>1, <1>6, StagesTyped DEF Record, Stages
  <2>2. JobsOf(plan[e]) \in [Channels -> {"none", "pending", "sent", "gone"}]
    BY DEF JobsOf
  <2>3. job' \in [Events -> [Channels -> {"none", "pending", "sent", "gone"}]]
    BY <1>1, <1>6, <2>2 DEF Record
  <2>4. QED
    BY <1>6, <2>1, <2>3 DEF Record, settings, TypeOK, Plan
<1>7. ASSUME NEW e \in Events, Fails(e) PROVE TypeOK'
  <2>1. plan' \in [Events -> Plan] /\ input' \in Input
    BY <1>1, <1>7, Waits, NoInputTyped DEF Fails
  <2>2. QED
    BY <1>3, <1>7, <2>1 DEF Fails, settings, TypeOK, Plan
<1>8. ASSUME Restart PROVE TypeOK'
  <2>1. plan' \in [Events -> Plan] /\ input' \in Input
    BY <1>1, <1>8, Waits, NoInputTyped DEF Restart
  <2>2. QED
    BY <1>3, <1>8, <2>1 DEF Restart, TypeOK, Plan
<1>9. ASSUME NEW e \in Events, NEW c \in Channels, Send(e, c) PROVE TypeOK'
  <2>1. job' \in [Events -> [Channels -> {"none", "pending", "sent", "gone"}]]
    BY <1>1, <1>9 DEF Send
  <2>2. sentAt' \in [Events -> [Channels -> 0..now]]
    <3>1. now \in 0..now
      BY <1>1
    <3>2. QED
      BY <1>1, <1>9, <3>1 DEF Send
  <2>3. QED
    BY <1>9, <2>1, <2>2 DEF Send, settings, TypeOK
<1>10. ASSUME NEW e \in Events, NEW c \in Channels, GiveUp(e, c) PROVE TypeOK'
  BY <1>10 DEF GiveUp, settings, TypeOK
<1>11. CASE EditRule
  BY <1>3, <1>11 DEF EditRule, TypeOK
<1>12. CASE PauseFor
  <2>1. PICK length \in PauseLengths : pause' = [from |-> now, until |-> now + length]
    BY <1>12 DEF PauseFor
  <2>2. pause' \in [from : Nat, until : Nat]
    BY <1>1, <2>1
  <2>3. QED
    BY <1>3, <1>12, <2>2 DEF PauseFor, TypeOK
<1>13. CASE Resume
  BY <1>13 DEF Resume, TypeOK
<1>14. CASE ClearHistory
  <2>1. 0 \in 0..now
    BY <1>1
  <2>2. /\ job' \in [Events -> [Channels -> {"none", "pending", "sent", "gone"}]]
        /\ sentAt' \in [Events -> [Channels -> 0..now]]
    BY <1>1, <1>14, <2>1 DEF ClearHistory
  <2>3. QED
    BY <1>3, <1>14, <2>2 DEF ClearHistory, settings, TypeOK
<1>15. CASE ReportOffset
  BY <1>3, <1>15 DEF ReportOffset, TypeOK
<1>16. CASE Tick
  <2>1. now' \in 0..MaxTime /\ 0..now \subseteq 0..now'
    BY <1>1, <1>16 DEF Tick
  <2>2. occurred \in [Events -> 0..now'] /\ sentAt \in [Events -> [Channels -> 0..now']]
    <3>1. PICK past : past = 0..now
      OBVIOUS
    <3>2. PICK later : later = 0..now'
      OBVIOUS
    <3>3. past \subseteq later
      BY <2>1, <3>1, <3>2
    <3>4. occurred \in [Events -> past] /\ sentAt \in [Events -> [Channels -> past]]
      BY <1>1, <3>1
    <3>5. occurred \in [Events -> later] /\ sentAt \in [Events -> [Channels -> later]]
      BY <3>3, <3>4
    <3>6. QED
      BY <3>2, <3>5
  <2>3. QED
    BY <1>16, <2>1, <2>2 DEF Tick, settings, TypeOK
<1>17. ASSUME \/ \E e \in Events, live \in BOOLEAN : Begin(e, live)
              \/ ResolveRule \/ ReadClock \/ ReadSettings \/ ReadsNothing
              \/ \E c \in Channels : LookUp(c)
       PROVE  TypeOK'
  <2>1. /\ input' \in Input /\ UNCHANGED <<now, settings, occurred, plan, job, sentAt>>
        /\ UNCHANGED spent \/ Fault
    BY <1>17, EvaluationTyped
  <2>2. spent' \in [faults : 0..MaxFaults, edits : 0..MaxEdits]
    BY <1>1, <1>3, <2>1
  <2>3. QED
    BY <2>1, <2>2 DEF settings, TypeOK
<1> QED
  BY <1>4, <1>5, <1>6, <1>7, <1>8, <1>9, <1>10, <1>11, <1>12, <1>13, <1>14, <1>15, <1>16, <1>17
  DEF Next

\* What a step leaves of an event's plan and jobs.
LEMMA JobsPreserved ==
  ASSUME TypeOK, JobsAreRecorded, ReadsInOrder, Next
  PROVE  JobsAreRecorded'
<1>1. /\ plan \in [Events -> Plan]
      /\ job \in [Events -> [Channels -> {"none", "pending", "sent", "gone"}]]
  BY DEF TypeOK, Plan
<1>2. ASSUME NEW e \in Events, Occur(e) PROVE JobsAreRecorded'
  BY <1>1, <1>2 DEF Occur, JobsAreRecorded, Plan
<1>3. ASSUME NEW e \in Events, Evaluate(e) PROVE JobsAreRecorded'
  <2>1. \A c \in Channels : job[e][c] = "none"
    BY <1>3, PolicyAssumption DEF Evaluate, ReadsInOrder, JobsAreRecorded
  <2>2. job' = job /\ \A f \in Events \ {e} : plan'[f] = plan[f]
    BY <1>1, <1>3 DEF Evaluate
  <2>3. QED
    BY <2>1, <2>2 DEF JobsAreRecorded
<1>4. ASSUME NEW e \in Events, Record(e) PROVE JobsAreRecorded'
  <2>1. \A f \in Events : plan'[f].stage = IF f = e THEN "recorded" ELSE plan[f].stage
    BY <1>1, <1>4 DEF Record, Plan
  <2>2. \A f \in Events \ {e} : job'[f] = job[f]
    BY <1>1, <1>4 DEF Record
  <2>3. QED
    BY <2>1, <2>2 DEF JobsAreRecorded
<1>5. ASSUME NEW stopped \in SUBSET Events, \A e \in stopped : plan[e].stage # "recorded",
             plan' = [e \in Events |-> IF e \in stopped THEN Unplanned("waiting") ELSE plan[e]],
             job' = job
      PROVE  JobsAreRecorded'
  <2>1. \A e \in stopped, c \in Channels : job[e][c] = "none"
    BY <1>5 DEF JobsAreRecorded
  <2>2. \A e \in Events : plan'[e] = IF e \in stopped THEN Unplanned("waiting") ELSE plan[e]
    BY <1>5
  <2>3. QED
    BY <1>5, <2>1, <2>2 DEF JobsAreRecorded
<1>6. ASSUME NEW e \in Events, Fails(e) PROVE JobsAreRecorded'
  <2>1. plan' = [f \in Events |-> IF f \in {e} THEN Unplanned("waiting") ELSE plan[f]]
    BY <1>1, <1>6 DEF Fails
  <2>2. QED
    BY <1>5, <1>6, <2>1, PolicyAssumption DEF Fails, ReadsInOrder
<1>7. CASE Restart
  <2>1. PICK stopped \in SUBSET Events : stopped = {e \in Events : plan[e].stage = "decided"}
    OBVIOUS
  <2>2. plan' = [e \in Events |-> IF e \in stopped THEN Unplanned("waiting") ELSE plan[e]]
    BY <1>7, <2>1 DEF Restart
  <2>3. QED
    BY <1>5, <1>7, <2>1, <2>2 DEF Restart
<1>8. ASSUME plan' = plan, \A e \in Events, c \in Channels : job[e][c] = "none" => job'[e][c] = "none"
      PROVE  JobsAreRecorded'
  BY <1>8 DEF JobsAreRecorded
<1>9. ASSUME NEW e \in Events, NEW c \in Channels, Send(e, c) \/ GiveUp(e, c) PROVE JobsAreRecorded'
  <2>1. plan' = plan
    BY <1>9 DEF Send, GiveUp
  <2>2. \A f \in Events, d \in Channels : job[f][d] = "none" => job'[f][d] = "none"
    BY <1>1, <1>9 DEF Send, GiveUp, Message
  <2>3. QED
    BY <1>8, <2>1, <2>2
<1>10. CASE ClearHistory
  <2>1. plan' = plan /\ \A f \in Events, d \in Channels : job[f][d] = "none" => job'[f][d] = "none"
    BY <1>10 DEF ClearHistory
  <2>2. QED
    BY <1>8, <2>1
<1>11. CASE EditRule \/ PauseFor \/ Resume \/ ReportOffset \/ Tick
  BY <1>8, <1>11 DEF EditRule, PauseFor, Resume, ReportOffset, Tick
<1>12. CASE \/ \E e \in Events, live \in BOOLEAN : Begin(e, live)
            \/ ResolveRule \/ ReadClock \/ ReadSettings \/ ReadsNothing
            \/ \E c \in Channels : LookUp(c)
  <2>1. UNCHANGED <<plan, job>>
    BY <1>12, EvaluationTyped
  <2>2. QED
    BY <1>8, <2>1
<1> QED
  BY <1>2, <1>3, <1>4, <1>6, <1>7, <1>9, <1>10, <1>11, <1>12 DEF Next

\* Everything an evaluation goes by is read in its order, from a waiting event.
LEMMA ReadsPreserved ==
  ASSUME TypeOK, ReadsInOrder, Next
  PROVE  ReadsInOrder'
<1>0. IsFiniteSet({}) /\ IsFiniteSet(input.recent)
  BY FS_EmptySet DEF ReadsInOrder
<1>1. plan \in [Events -> Plan] /\ input \in Input /\ now \in Nat
  BY PolicyAssumption DEF TypeOK, Plan
<1>2. ASSUME input' = NoInput PROVE ReadsInOrder'
  BY <1>0, <1>2 DEF ReadsInOrder, NoInput
<1>3. ASSUME input' = input, now' \in Nat, now <= now',
             \A e \in Events : plan[e].stage = "waiting" => plan'[e].stage = "waiting"
      PROVE  ReadsInOrder'
  <2>1. input.event \in Events \cup {Never} /\ input.now \in Nat \cup {Never}
    BY <1>1 DEF Input
  <2>2. QED
    BY <1>1, <1>3, <2>1 DEF ReadsInOrder
<1>4. ASSUME NEW e \in Events, Evaluate(e) \/ Fails(e) PROVE ReadsInOrder'
  BY <1>2, <1>4 DEF Evaluate, Fails
<1>5. ASSUME NEW e \in Events, Occur(e) \/ Record(e) PROVE ReadsInOrder'
  BY <1>1, <1>3, <1>5 DEF Occur, Record, Plan
<1>6. CASE Restart
  BY <1>2, <1>6 DEF Restart
<1>7. ASSUME NEW e \in Events, NEW c \in Channels, Send(e, c) \/ GiveUp(e, c) PROVE ReadsInOrder'
  BY <1>1, <1>3, <1>7 DEF Send, GiveUp
<1>8. CASE EditRule \/ PauseFor \/ Resume \/ ClearHistory \/ ReportOffset \/ Tick
  BY <1>1, <1>3, <1>8 DEF EditRule, PauseFor, Resume, ClearHistory, ReportOffset, Tick
<1>9. ASSUME NEW e \in Events, NEW live \in BOOLEAN, Begin(e, live) PROVE ReadsInOrder'
  BY <1>0, <1>9 DEF Begin, ReadsInOrder, NoInput
<1>10. CASE ResolveRule \/ ReadClock
  <2>1. /\ input'.event = input.event /\ input'.step = "begun" /\ input'.listed = input.listed
        /\ input'.now = input.now \/ input'.now = now
        /\ input'.recent = input.recent /\ input.step = "begun" /\ UNCHANGED <<now, plan>>
    BY <1>1, <1>10 DEF ResolveRule, ReadClock, Input
  <2>2. QED
    BY <1>1, <2>1 DEF ReadsInOrder
<1>11. ASSUME NEW paused, NEW channels, Reads(paused, channels) PROVE ReadsInOrder'
  BY <1>1, <1>11 DEF Reads, ReadsInOrder, Input
<1>12. ASSUME NEW c \in Channels, LookUp(c) PROVE ReadsInOrder'
  <2>1. /\ input'.recent = input.recent \cup {d \in Deliveries : d.channel = c}
        /\ UNCHANGED <<now, plan>> /\ input.step = "counting"
        /\ input'.step = input.step /\ input'.event = input.event /\ input'.now = input.now
        /\ input'.rule = input.rule
    BY <1>1, <1>12 DEF LookUp, Input
  <2>2. IsFiniteSet(input.recent \cup {d \in Deliveries : d.channel = c})
    <3>1. {d \in Deliveries : d.channel = c} \in SUBSET Deliveries
      OBVIOUS
    <3>2. QED
      BY <1>0, <3>1, DeliveriesTyped, FS_Subset, FS_Union
  <2>3. QED
    BY <2>1, <2>2 DEF ReadsInOrder
<1> QED
  BY <1>4, <1>5, <1>6, <1>7, <1>8, <1>9, <1>10, <1>11, <1>12 DEF Next, ReadSettings, ReadsNothing

\* What was known stays counted: a delivery only leaves the record, and never
\* comes back.
LEMMA KnownPreserved ==
  ASSUME IInv, Next
  PROVE  KnownIsCounted'
<1>1. /\ TypeOK /\ plan \in [Events -> Plan] /\ input \in Input /\ now \in Nat
      /\ job \in [Events -> [Channels -> {"none", "pending", "sent", "gone"}]]
      /\ sentAt \in [Events -> [Channels -> 0..now]]
      /\ ReadsInOrder /\ KnownIsCounted /\ JobsAreRecorded
  BY PolicyAssumption DEF IInv, TypeOK, Plan
<1>2. ASSUME NEW d \in input.known
      PROVE  d \in Delivery /\ d.event \in Events /\ d.channel \in Channels /\ d.at \in Nat
  BY <1>1 DEF Input, Delivery
<1>3. ASSUME input'.known = {} PROVE KnownIsCounted'
  BY <1>3 DEF KnownIsCounted
<1>4. ASSUME input' = input,
             \A e \in Events, c \in Channels : job[e][c] \in {"sent", "gone"} =>
               /\ job'[e][c] \in {"sent", "gone"}
               /\ job'[e][c] = "sent" => job[e][c] = "sent" /\ sentAt'[e][c] = sentAt[e][c]
      PROVE  KnownIsCounted'
  <2>1. SUFFICES ASSUME NEW d \in input.known
                 PROVE  /\ job'[d.event][d.channel] \in {"sent", "gone"}
                        /\ d \in Deliveries' => d \in Deliveries
    BY <1>1, <1>4 DEF KnownIsCounted
  <2>2. job[d.event][d.channel] \in {"sent", "gone"}
    BY <1>1 DEF KnownIsCounted
  <2>3. d \in Deliveries' => job'[d.event][d.channel] = "sent" /\ sentAt'[d.event][d.channel] = d.at
    BY DEF Deliveries
  <2>4. QED
    BY <1>1, <1>2, <1>4, <2>2, <2>3, OnRecord
<1>5. ASSUME NEW e \in Events, Evaluate(e) \/ Fails(e) PROVE KnownIsCounted'
  BY <1>3, <1>5 DEF Evaluate, Fails, NoInput
<1>6. ASSUME NEW e \in Events, NEW live \in BOOLEAN, Begin(e, live) PROVE KnownIsCounted'
  BY <1>3, <1>6 DEF Begin, NoInput
<1>7. CASE Restart
  BY <1>3, <1>7 DEF Restart, NoInput
<1>8. ASSUME NEW e \in Events, Record(e) PROVE KnownIsCounted'
  <2>1. \A c \in Channels : job[e][c] = "none"
    BY <1>1, <1>8 DEF Record, JobsAreRecorded
  <2>2. input' = input /\ sentAt' = sentAt /\ \A f \in Events \ {e} : job'[f] = job[f]
    BY <1>1, <1>8 DEF Record
  <2>3. QED
    BY <1>4, <2>1, <2>2
<1>9. ASSUME NEW e \in Events, NEW c \in Channels, Send(e, c) PROVE KnownIsCounted'
  <2>1. \A f \in Events, d \in Channels : f \notin Message(e, c) \/ d # c =>
          job'[f][d] = job[f][d] /\ sentAt'[f][d] = sentAt[f][d]
    BY <1>1, <1>9 DEF Send
  <2>2. \A f \in Message(e, c) : job[f][c] = "pending"
    BY DEF Message
  <2>3. input' = input
    BY <1>9 DEF Send
  <2>4. QED
    BY <1>4, <2>1, <2>2, <2>3
<1>10. ASSUME NEW e \in Events, NEW c \in Channels, GiveUp(e, c) PROVE KnownIsCounted'
  <2>1. /\ input' = input /\ sentAt' = sentAt /\ job[e][c] = "pending"
        /\ \A f \in Events, d \in Channels : job'[f][d] = IF f = e /\ d = c THEN "gone" ELSE job[f][d]
    BY <1>1, <1>10 DEF GiveUp
  <2>2. QED
    BY <1>4, <2>1
<1>11. CASE ClearHistory
  <2>1. /\ input' = input
        /\ \A f \in Events, d \in Channels :
             job'[f][d] = IF job[f][d] = "sent" THEN "gone" ELSE job[f][d]
    BY <1>11 DEF ClearHistory
  <2>2. QED
    BY <1>4, <2>1
<1>12. CASE \/ \E e \in Events : Occur(e)
            \/ EditRule \/ PauseFor \/ Resume \/ ReportOffset \/ Tick
  <2>1. UNCHANGED <<input, job, sentAt>>
    BY <1>12 DEF Occur, EditRule, PauseFor, Resume, ReportOffset, Tick
  <2>2. QED
    BY <1>4, <2>1
<1>13. CASE ReadClock
  \* Nothing is counted yet.
  <2>1. /\ input'.known = Deliveries /\ input'.now = now /\ input'.listed = {}
        /\ UNCHANGED <<job, sentAt>>
    BY <1>1, <1>13 DEF ReadClock, ReadsInOrder, Input
  <2>2. ASSUME NEW d \in Deliveries
        PROVE  d.at <= now /\ job[d.event][d.channel] = "sent"
    <3>1. d \in Delivery
      BY <1>1, DeliveriesTyped
    <3>2. d.event \in Events /\ d.channel \in Channels
      BY <3>1 DEF Delivery
    <3>3. job[d.event][d.channel] = "sent" /\ sentAt[d.event][d.channel] = d.at
      BY <1>1, <3>1, OnRecord
    <3>4. QED
      BY <1>1, <3>2, <3>3
  <2>3. now # Never
    BY <1>1, <1>13, PolicyAssumption
  <2>4. QED
    BY <2>1, <2>2, <2>3 DEF KnownIsCounted
<1>14. ASSUME UNCHANGED <<job, sentAt>>, input'.known = input.known, input'.now = input.now,
              \A d \in input.known \cap Deliveries :
                d.channel \in input'.listed \ input'.left => d \in input'.recent
       PROVE  KnownIsCounted'
  <2>1. Deliveries' = Deliveries
    BY <1>14 DEF Deliveries
  <2>2. QED
    BY <1>1, <1>14, <2>1 DEF KnownIsCounted
<1>15. CASE ResolveRule
  <2>1. /\ UNCHANGED <<job, sentAt>> /\ input'.known = input.known /\ input'.now = input.now
        /\ input'.listed = input.listed /\ input'.left = input.left /\ input'.recent = input.recent
    BY <1>1, <1>15 DEF ResolveRule, Input
  <2>2. QED
    BY <1>1, <1>14, <2>1 DEF KnownIsCounted
<1>16. ASSUME NEW paused, NEW channels, Reads(paused, channels) PROVE KnownIsCounted'
  <2>1. /\ UNCHANGED <<job, sentAt>> /\ input'.known = input.known /\ input'.now = input.now
        /\ input'.listed = channels /\ input'.left = channels
    BY <1>1, <1>16 DEF Reads, Input
  <2>2. QED
    BY <1>14, <2>1
<1>17. ASSUME NEW c \in Channels, LookUp(c) PROVE KnownIsCounted'
  <2>1. /\ UNCHANGED <<job, sentAt>> /\ input'.known = input.known /\ input'.now = input.now
        /\ input'.listed = input.listed /\ input'.left = input.left \ {c}
        /\ input'.recent = input.recent \cup {d \in Deliveries : d.channel = c}
    BY <1>1, <1>17 DEF LookUp, Input
  <2>2. QED
    BY <1>1, <1>14, <2>1 DEF KnownIsCounted
<1> QED
  BY <1>5, <1>6, <1>7, <1>8, <1>9, <1>10, <1>11, <1>12, <1>13, <1>15, <1>16, <1>17
  DEF Next, ReadSettings, ReadsNothing


-----------------------------------------------------------------------------
(* Deliveries and how many of them are looked up *)

\* What was looked up is finite in number.
LEMMA DeliveriesFinite ==
  ASSUME IsFiniteSet(input.recent), NEW t
  PROVE  /\ IsFiniteSet(Recent(t)) /\ Cardinality(Recent(t)) \in Nat
         /\ IsFiniteSet(LookedUp(t)) /\ Cardinality(LookedUp(t)) \in Nat
         /\ \A c \in Channels : IsFiniteSet(Delivered(c, t)) /\ Cardinality(Delivered(c, t)) \in Nat
<1>1. IsFiniteSet(Channels \X (1..ChannelLookup))
  <2>1. IsFiniteSet(1..ChannelLookup)
    BY PolicyAssumption, FS_Interval
  <2>2. IsFiniteSet(Channels)
    BY PolicyAssumption
  <2>3. QED
    BY <2>1, <2>2, FS_Product
<1>2. Recent(t) \in SUBSET input.recent
  BY DEF Recent
<1>3. LookedUp(t) \in SUBSET (Channels \X (1..ChannelLookup))
  BY DEF LookedUp
<1>4. \A c \in Channels : Delivered(c, t) \in SUBSET input.recent
  BY DEF Delivered, Recent
<1> QED
  BY <1>1, <1>2, <1>3, <1>4, FS_Subset, FS_CardinalityType

\* A numbering of a finite set meets each of its elements once.
NumberingOf(S) == CHOOSE f \in Bijection(1..Cardinality(S), S) : TRUE

LEMMA Numbered ==
  ASSUME NEW S, IsFiniteSet(S)
  PROVE  LET places == 1..Cardinality(S)
             f == NumberingOf(S)
         IN  /\ \A n \in places : f[n] \in S
             /\ \A m, n \in places : f[m] = f[n] => m = n
             /\ \A x \in S : \E n \in places : f[n] = x
<1> DEFINE places == 1..Cardinality(S)
           f == NumberingOf(S)
<1>1. Bijection(places, S) # {}
  BY FS_CardinalityType DEF ExistsBijection
<1>2. f \in Bijection(places, S)
  BY <1>1 DEF NumberingOf
<1> HIDE DEF f, places
<1>3. /\ f \in [places -> S]
      /\ \A m, n \in places : f[m] = f[n] => m = n
      /\ \A x \in S : \E n \in places : f[n] = x
  BY <1>2 DEF Bijection, Injection, Surjection, IsInjective
<1>4. \A n \in places : f[n] \in S
  BY <1>3
<1> QED
  BY <1>3, <1>4 DEF f, places

\* A place of the lookup.
LEMMA Places ==
  ASSUME IsFiniteSet(input.recent), NEW t, NEW d
  PROVE  d \in LookedUp(t)
           <=> /\ d = <<d[1], d[2]>> /\ d[1] \in Channels /\ d[2] \in 1..ChannelLookup
               /\ d[2] \in 1..Cardinality(Delivered(d[1], t))
<1>1. ASSUME d \in LookedUp(t)
      PROVE  /\ d = <<d[1], d[2]>> /\ d[1] \in Channels /\ d[2] \in 1..ChannelLookup
             /\ d[2] \in 1..Cardinality(Delivered(d[1], t))
  BY <1>1, DeliveriesFinite DEF LookedUp
<1>2. ASSUME d = <<d[1], d[2]>>, d[1] \in Channels, d[2] \in 1..ChannelLookup,
             d[2] \in 1..Cardinality(Delivered(d[1], t))
      PROVE  d \in LookedUp(t)
  <2>1. d[2] <= Cardinality(Delivered(d[1], t))
    BY <1>2, DeliveriesFinite
  <2>2. d \in Channels \X (1..ChannelLookup)
    BY <1>2
  <2>3. QED
    BY <2>1, <2>2 DEF LookedUp
<1> QED
  BY <1>1, <1>2

\* Where no channel has more than are looked up, none is left out.
LEMMA NoneOverlooked ==
  ASSUME IsFiniteSet(input.recent), input.recent \subseteq Delivery, NEW t,
         \A c \in Channels : Cardinality(Delivered(c, t)) <= ChannelLookup
  PROVE  Cardinality(Recent(t)) <= Cardinality(LookedUp(t))
<1> DEFINE which == [d \in LookedUp(t) |-> NumberingOf(Delivered(d[1], t))[d[2]]]
<1>1. which \in [LookedUp(t) -> Recent(t)]
  <2>1. ASSUME NEW d \in LookedUp(t)
        PROVE  NumberingOf(Delivered(d[1], t))[d[2]] \in Recent(t)
    <3>1. NumberingOf(Delivered(d[1], t))[d[2]] \in Delivered(d[1], t)
      BY Places, DeliveriesFinite, Numbered
    <3>2. QED
      BY <3>1 DEF Delivered
  <2>2. QED
    BY <2>1
<1>2. ASSUME NEW d \in Recent(t)
      PROVE  \E l \in LookedUp(t) : which[l] = d
  <2>1. d.channel \in Channels /\ d \in Delivered(d.channel, t)
    BY DEF Recent, Delivered, Delivery
  <2>2. PICK n \in 1..Cardinality(Delivered(d.channel, t)) : NumberingOf(Delivered(d.channel, t))[n] = d
    BY <2>1, DeliveriesFinite, Numbered
  <2>3. n \in 1..ChannelLookup
    BY <2>1, <2>2, DeliveriesFinite, PolicyAssumption
  <2>4. <<d.channel, n>> \in LookedUp(t)
    BY <2>1, <2>2, <2>3, Places
  <2>5. which[<<d.channel, n>>] = d
    BY <2>2, <2>4
  <2>6. QED
    BY <2>4, <2>5
<1>3. which \in Surjection(LookedUp(t), Recent(t))
  BY <1>1, <1>2, Fun_IsSurj
<1> QED
  BY <1>3, DeliveriesFinite, FS_Surjection

\* Fewer than n are looked up only where there are fewer.
LEMMA FewLookedUp ==
  ASSUME IsFiniteSet(input.recent), input.recent \subseteq Delivery, NEW t,
         NEW n \in Nat, n <= ChannelLookup, Cardinality(LookedUp(t)) < n
  PROVE  Cardinality(Recent(t)) < n
<1>1. /\ Cardinality(LookedUp(t)) \in Nat /\ Cardinality(Recent(t)) \in Nat
  BY DeliveriesFinite
<1>2. ASSUME NEW c \in Channels PROVE Cardinality(Delivered(c, t)) <= ChannelLookup
  <2>1. SUFFICES ASSUME Cardinality(Delivered(c, t)) > ChannelLookup PROVE FALSE
    BY DeliveriesFinite, PolicyAssumption
  <2>2. ({c} \X (1..ChannelLookup)) \in SUBSET LookedUp(t)
    <3>1. \A k \in 1..ChannelLookup : k <= Cardinality(Delivered(c, t))
      BY <2>1, DeliveriesFinite, PolicyAssumption
    <3>2. QED
      BY <3>1 DEF LookedUp
  <2>3. /\ IsFiniteSet({c}) /\ Cardinality({c}) = 1
        /\ IsFiniteSet(1..ChannelLookup) /\ Cardinality(1..ChannelLookup) = ChannelLookup
    <3>1. /\ Cardinality(1..ChannelLookup) = (IF 1 > ChannelLookup THEN 0 ELSE ChannelLookup - 1 + 1)
          /\ IsFiniteSet(1..ChannelLookup)
      BY PolicyAssumption, FS_Interval
    <3>2. IsFiniteSet({c}) /\ Cardinality({c}) = 1
      BY FS_Singleton
    <3>3. Cardinality(1..ChannelLookup) = ChannelLookup
      BY <3>1, PolicyAssumption
    <3>4. QED
      BY <3>1, <3>2, <3>3
  <2>4. Cardinality({c} \X (1..ChannelLookup)) = ChannelLookup
    <3>1. Cardinality({c} \X (1..ChannelLookup)) = Cardinality({c}) * Cardinality(1..ChannelLookup)
      BY <2>3, FS_Product
    <3>2. QED
      BY <2>3, <3>1, PolicyAssumption
  <2>5. ChannelLookup <= Cardinality(LookedUp(t))
    BY <2>2, <2>4, DeliveriesFinite, FS_Subset
  <2>6. QED
    BY <1>1, <2>5, PolicyAssumption
<1> QED
  BY <1>1, <1>2, NoneOverlooked

\* Of two instants, the later one has the fewer deliveries behind it.
LEMMA Parted ==
  ASSUME IsFiniteSet(input.recent), input.recent \subseteq Delivery,
         NEW t \in Int, input.now \in Nat, t <= input.now
  PROVE  /\ IsFiniteSet(Between(t, input.now)) /\ Cardinality(Between(t, input.now)) \in Nat
         /\ Cardinality(Recent(t)) = Cardinality(Between(t, input.now)) + Cardinality(Recent(input.now))
         /\ \A c \in Channels :
              LET W == {d \in Between(t, input.now) : d.channel = c}
              IN  /\ IsFiniteSet(W) /\ Cardinality(W) \in Nat
                  /\ Cardinality(Delivered(c, t)) = Cardinality(W) + Cardinality(Delivered(c, input.now))
<1>1. \A d \in input.recent : d.at \in Nat
  BY DEF Delivery
<1>2. ASSUME NEW S, NEW T, IsFiniteSet(S), IsFiniteSet(T), S \cap T = {}
      PROVE  Cardinality(S \cup T) = Cardinality(S) + Cardinality(T)
  <2>1. Cardinality(S \cap T) = 0 /\ Cardinality(S) \in Nat /\ Cardinality(T) \in Nat
    <3>1. Cardinality({}) = 0 /\ Cardinality(S) \in Nat /\ Cardinality(T) \in Nat
      BY <1>2, FS_EmptySet, FS_CardinalityType
    <3>2. QED
      BY <1>2, <3>1
  <2>2. Cardinality(S \cup T) = Cardinality(S) + Cardinality(T) - Cardinality(S \cap T)
    BY <1>2, FS_Union
  <2>3. QED
    BY <2>1, <2>2
<1>3. Between(t, input.now) \in SUBSET input.recent
  BY DEF Between
<1>4. IsFiniteSet(Between(t, input.now)) /\ Cardinality(Between(t, input.now)) \in Nat
  BY <1>3, FS_Subset, FS_CardinalityType
<1>5. /\ Recent(t) = Between(t, input.now) \cup Recent(input.now)
      /\ Between(t, input.now) \cap Recent(input.now) = {}
  BY <1>1 DEF Recent, Between
<1>6. Cardinality(Recent(t)) = Cardinality(Between(t, input.now)) + Cardinality(Recent(input.now))
  BY <1>2, <1>4, <1>5, DeliveriesFinite
<1>7. ASSUME NEW c \in Channels, NEW W, W = {d \in Between(t, input.now) : d.channel = c}
      PROVE  /\ IsFiniteSet(W) /\ Cardinality(W) \in Nat
             /\ Cardinality(Delivered(c, t)) = Cardinality(W) + Cardinality(Delivered(c, input.now))
  <2>1. W \in SUBSET Between(t, input.now)
    BY <1>7
  <2>2. IsFiniteSet(W) /\ Cardinality(W) \in Nat
    BY <1>4, <2>1, FS_Subset, FS_CardinalityType
  <2>3. Delivered(c, t) = W \cup Delivered(c, input.now) /\ W \cap Delivered(c, input.now) = {}
    BY <1>5, <1>7 DEF Delivered
  <2>4. QED
    BY <1>2, <2>2, <2>3, DeliveriesFinite
<1> QED
  BY <1>4, <1>6, <1>7

\* As many places of the lookup are counted as are before now.
LEMMA LookedUpParted ==
  ASSUME IsFiniteSet(input.recent), input.recent \subseteq Delivery,
         NEW t \in Int, input.now \in Nat, t <= input.now
  PROVE  /\ Cardinality(LookedUp(input.now)) <= Cardinality(LookedUp(t))
         /\ Cardinality(LookedUp(t)) - Cardinality(LookedUp(input.now))
              <= Cardinality(Between(t, input.now))
         /\ Cardinality(LookedUp(input.now)) <= Cardinality(Recent(input.now))
<1> DEFINE older(c) == Cardinality(Delivered(c, input.now))
           W(c) == {d \in Between(t, input.now) : d.channel = c}
           places == LookedUp(t) \ LookedUp(input.now)
           which == [d \in places |-> NumberingOf(W(d[1]))[d[2] - older(d[1])]]
           there == [d \in LookedUp(input.now) |-> NumberingOf(Delivered(d[1], input.now))[d[2]]]
<1>1. ASSUME NEW c \in Channels
      PROVE  /\ IsFiniteSet(W(c)) /\ Cardinality(W(c)) \in Nat /\ older(c) \in Nat
             /\ Cardinality(Delivered(c, t)) = Cardinality(W(c)) + older(c)
  BY Parted, DeliveriesFinite
<1>2. LookedUp(input.now) \in SUBSET LookedUp(t)
  <2> SUFFICES ASSUME NEW d \in LookedUp(input.now) PROVE d \in LookedUp(t)
    OBVIOUS
  <2>1. /\ d = <<d[1], d[2]>> /\ d[1] \in Channels /\ d[2] \in 1..ChannelLookup
        /\ d[2] \in 1..older(d[1])
    BY Places
  <2>2. d[2] \in 1..Cardinality(Delivered(d[1], t))
    <3> HIDE DEF W, older
    <3> QED BY <1>1, <2>1
  <2>3. QED
    BY <2>1, <2>2, Places
<1>3. /\ Cardinality(LookedUp(input.now)) <= Cardinality(LookedUp(t))
      /\ IsFiniteSet(places)
      /\ Cardinality(places) = Cardinality(LookedUp(t)) - Cardinality(LookedUp(input.now))
  <2>1. LookedUp(t) \cap LookedUp(input.now) = LookedUp(input.now)
    BY <1>2
  <2>2. IsFiniteSet(LookedUp(t))
    BY DeliveriesFinite
  <2>3. Cardinality(LookedUp(input.now)) <= Cardinality(LookedUp(t))
    BY <1>2, <2>2, FS_Subset
  <2>4. /\ IsFiniteSet(places)
        /\ Cardinality(places)
             = Cardinality(LookedUp(t)) - Cardinality(LookedUp(t) \cap LookedUp(input.now))
    BY <2>2, FS_Difference
  <2>5. QED
    BY <2>1, <2>3, <2>4
<1>4. ASSUME NEW d \in places
      PROVE  /\ d = <<d[1], d[2]>> /\ d[1] \in Channels /\ d[2] \in Nat
             /\ d[2] - older(d[1]) \in 1..Cardinality(W(d[1]))
             /\ which[d] \in W(d[1])
  <2>1. /\ d = <<d[1], d[2]>> /\ d[1] \in Channels /\ d[2] \in 1..ChannelLookup
        /\ d[2] \in 1..Cardinality(Delivered(d[1], t)) /\ d[2] \notin 1..older(d[1])
    BY Places
  <2>2. d[2] \in Nat /\ d[2] - older(d[1]) \in 1..Cardinality(W(d[1]))
    <3> HIDE DEF W, older
    <3> QED BY <1>1, <2>1, PolicyAssumption
  <2>3. NumberingOf(W(d[1]))[d[2] - older(d[1])] \in W(d[1])
    <3> HIDE DEF W, older
    <3> QED BY <1>1, <2>1, <2>2, Numbered
  <2>4. QED
    BY <2>1, <2>2, <2>3
<1>5. Cardinality(places) <= Cardinality(Between(t, input.now))
  <2>1. which \in [places -> Between(t, input.now)]
    BY <1>4
  <2>2. ASSUME NEW a \in places, NEW b \in places, which[a] = which[b]
        PROVE  a = b
    <3>1. a[1] = b[1]
      <4>1. which[a].channel = a[1] /\ which[b].channel = b[1]
        BY <1>4
      <4>2. QED
        BY <2>2, <4>1
    <3>2. a[2] - older(a[1]) = b[2] - older(a[1])
      <4>1. NumberingOf(W(a[1]))[a[2] - older(a[1])] = NumberingOf(W(a[1]))[b[2] - older(a[1])]
        BY <2>2, <3>1
      <4> HIDE DEF W, older, which, places
      <4>2. /\ a[1] \in Channels /\ IsFiniteSet(W(a[1]))
            /\ a[2] - older(a[1]) \in 1..Cardinality(W(a[1]))
            /\ b[2] - older(a[1]) \in 1..Cardinality(W(a[1]))
        BY <1>1, <1>4, <3>1
      <4>3. QED
        BY <4>1, <4>2, Numbered
    <3>3. a[2] = b[2]
      <4> HIDE DEF W, older, which, places
      <4>1. older(a[1]) \in Nat /\ a[2] \in Nat /\ b[2] \in Nat
        BY <1>1, <1>4
      <4>2. QED
        BY <3>2, <4>1
    <3>4. QED
      BY <1>4, <3>1, <3>3
  <2>3. which \in Injection(places, Between(t, input.now))
    BY <2>1, <2>2, Fun_IsInj
  <2>4. QED
    BY <2>3, Parted, FS_Injection
<1>6. Cardinality(LookedUp(input.now)) <= Cardinality(Recent(input.now))
  <2>1. ASSUME NEW d \in LookedUp(input.now)
        PROVE  /\ d = <<d[1], d[2]>> /\ d[1] \in Channels /\ IsFiniteSet(Delivered(d[1], input.now))
               /\ d[2] \in 1..Cardinality(Delivered(d[1], input.now))
               /\ NumberingOf(Delivered(d[1], input.now))[d[2]] \in Delivered(d[1], input.now)
    <3>1. /\ d = <<d[1], d[2]>> /\ d[1] \in Channels /\ IsFiniteSet(Delivered(d[1], input.now))
          /\ d[2] \in 1..Cardinality(Delivered(d[1], input.now))
      BY Places, DeliveriesFinite
    <3>2. QED
      BY <3>1, Numbered
  <2>2. there \in [LookedUp(input.now) -> Recent(input.now)]
    BY <2>1 DEF Delivered
  <2>3. ASSUME NEW a \in LookedUp(input.now), NEW b \in LookedUp(input.now), there[a] = there[b]
        PROVE  a = b
    <3>1. there[a].channel = a[1] /\ there[b].channel = b[1]
      BY <2>1 DEF Delivered
    <3>2. a[1] = b[1]
      BY <2>3, <3>1
    <3>3. NumberingOf(Delivered(a[1], input.now))[a[2]] = NumberingOf(Delivered(a[1], input.now))[b[2]]
      BY <2>3, <3>2
    <3>4. a[2] = b[2]
      BY <2>1, <3>2, <3>3, Numbered
    <3>5. QED
      BY <2>1, <3>2, <3>4
  <2>4. there \in Injection(LookedUp(input.now), Recent(input.now))
    BY <2>2, <2>3, Fun_IsInj
  <2>5. QED
    BY <2>4, DeliveriesFinite, FS_Injection
<1> QED
  BY <1>3, <1>5, <1>6

\* What is seen is there.
LEMMA SeenAreThere ==
  ASSUME IsFiniteSet(input.recent), input.recent \subseteq Delivery,
         NEW t \in Int, input.now \in Nat, t <= input.now
  PROVE  Seen(t) \in Nat /\ Seen(t) <= Cardinality(Between(t, input.now))
<1>1. /\ Cardinality(LookedUp(t)) \in Nat /\ Cardinality(LookedUp(input.now)) \in Nat
      /\ Cardinality(Between(t, input.now)) \in Nat /\ TotalLookup \in Nat
  BY DeliveriesFinite, Parted, PolicyAssumption
<1>2. /\ Cardinality(LookedUp(input.now)) <= Cardinality(LookedUp(t))
      /\ Cardinality(LookedUp(t)) - Cardinality(LookedUp(input.now))
           <= Cardinality(Between(t, input.now))
  BY LookedUpParted
<1> QED
  BY <1>1, <1>2 DEF Seen, Latest, Least

\* A limit within the lookup, and what came to it since, is compared with all there
\* were when the clock was read.
LEMMA LimitSeen ==
  ASSUME IsFiniteSet(input.recent), input.recent \subseteq Delivery,
         NEW t \in Int, input.now \in Nat, t <= input.now,
         NEW n \in Nat, Visible(n), Seen(t) < n
  PROVE  Cardinality(Between(t, input.now)) < n
<1> DEFINE since == Cardinality(Recent(input.now))
<1>1. /\ Cardinality(LookedUp(t)) \in Nat /\ Cardinality(LookedUp(input.now)) \in Nat
      /\ Cardinality(Between(t, input.now)) \in Nat /\ since \in Nat
      /\ TotalLookup \in Nat /\ ChannelLookup \in Nat
  BY DeliveriesFinite, Parted, PolicyAssumption
<1>2. n + since <= ChannelLookup /\ n + since <= TotalLookup
  BY DEF Visible, Recent
<1>3. Cardinality(LookedUp(input.now)) <= since
  BY LookedUpParted
<1>4. Cardinality(LookedUp(t)) < n + since
  <2> HIDE DEF since
  <2> QED BY <1>1, <1>2, <1>3 DEF Seen, Latest, Least
<1>5. Cardinality(Recent(t)) < n + since
  BY <1>1, <1>2, <1>4, FewLookedUp
<1>6. Cardinality(Recent(t)) = Cardinality(Between(t, input.now)) + since
  BY Parted
<1> HIDE DEF since
<1> QED
  BY <1>1, <1>5, <1>6

\* What was known when the clock was read, and still is, has been looked up.
LEMMA KnownAreThere ==
  ASSUME IInv, input.left = {}, input.listed = Channels, NEW t
  PROVE  StillKnown(t) \in SUBSET Between(t, input.now)
<1> SUFFICES ASSUME NEW d \in StillKnown(t) PROVE d \in Between(t, input.now)
  OBVIOUS
<1>1. d \in input.known /\ d \in Deliveries /\ d.at > t
  BY DEF StillKnown
<1>2. d.channel \in Channels
  BY <1>1 DEF IInv, TypeOK, Input, Delivery
<1>3. d.at <= input.now /\ d \in input.recent
  BY <1>1, <1>2 DEF IInv, KnownIsCounted
<1> QED
  BY <1>1, <1>3 DEF Between

-----------------------------------------------------------------------------
(* The theorems *)

\* What an evaluation about to end has before it.
LEMMA Ready ==
  ASSUME IInv, NEW e \in Events, Evaluate(e)
  PROVE  /\ TypeOK /\ ReadsInOrder /\ input.step = "counting" /\ input.left = {}
         /\ input.rule \in RuleShape /\ input.now \in Nat /\ input.now \in 0..MaxTime
         /\ offset \in Int /\ IsFiniteSet(input.recent) /\ input.recent \subseteq Delivery
         /\ plan'[e] = Decision(e)
<1>1. TypeOK /\ ReadsInOrder /\ input.step = "counting" /\ input.left = {}
  BY DEF IInv, Evaluate
<1>2. plan'[e] = Decision(e)
  BY <1>1 DEF Evaluate, TypeOK
<1>3. input.recent \subseteq Delivery /\ IsFiniteSet(input.recent)
  BY <1>1 DEF TypeOK, Input, ReadsInOrder
<1> QED
  BY <1>1, <1>2, <1>3, InputRead, PolicyAssumption

LEMMA QuietMeansQuiet ==
  ASSUME TypeOK, ReadsInOrder, input.step = "counting"
  PROVE  Quiet <=> QuietByCalendar
<1>1. input.now \in 0..MaxTime /\ offset \in Int /\ input.rule \in RuleShape
  BY InputRead
<1>2. input.rule.quiet # Never => input.rule.quiet \in QuietHours
  BY <1>1 DEF RuleShape
<1> QED
  BY <1>1, <1>2, QuietIsCalendar DEF Quiet, QuietByCalendar

\* The inductive invariant: types, jobs of recorded events only, reads in their
\* order, and every delivery known and still on record counted where its channel is.
THEOREM PolicyInvariant == Spec => []IInv
<1>1. Init => IInv
  <2> SUFFICES ASSUME Init PROVE IInv
    OBVIOUS
  <2>1. now \in 0..MaxTime /\ 0 \in 0..now /\ spent \in [faults : 0..MaxFaults, edits : 0..MaxEdits]
    BY PolicyAssumption DEF Init
  <2>2. TypeOK
    BY <2>1, Waits, NoInputTyped DEF Init, TypeOK, Plan
  <2>3. ReadsInOrder /\ KnownIsCounted
    BY FS_EmptySet DEF Init, ReadsInOrder, KnownIsCounted, NoInput
  <2>4. QED
    BY <2>2, <2>3 DEF Init, IInv, JobsAreRecorded
<1>2. IInv /\ [Next]_vars => IInv'
  <2> SUFFICES ASSUME IInv, [Next]_vars PROVE IInv'
    OBVIOUS
  <2>1. CASE Next
    BY <2>1, TypePreserved, JobsPreserved, ReadsPreserved, KnownPreserved DEF IInv
  <2>2. CASE UNCHANGED vars
    <3>1. TypeOK'
      BY <2>2 DEF vars, settings, IInv, TypeOK
    <3>2. JobsAreRecorded' /\ ReadsInOrder'
      BY <2>2 DEF vars, IInv, JobsAreRecorded, ReadsInOrder
    <3>3. KnownIsCounted'
      BY <2>2 DEF vars, IInv, KnownIsCounted, Deliveries
    <3>4. QED
      BY <3>1, <3>2, <3>3 DEF IInv
  <2>3. QED
    BY <2>1, <2>2
<1> QED
  BY <1>1, <1>2, PTL DEF Spec

\* Every variable keeps its type: a verdict's rule is one there was, no delivery is
\* dated later than now.
THEOREM TypeCorrect == Spec => []TypeOK
<1>1. IInv => TypeOK
  BY DEF IInv
<1> QED
  BY <1>1, PolicyInvariant, PTL

\* Nothing is sent or aggregated in a quiet period of the moment the clock was read
\* (quiet_membership), whatever the length of a day, the offset, and the days and
\* ends of the period.
THEOREM QuietIsKept == Spec => QuietKept
<1> DEFINE A == \A e \in Events : LetsThrough(e) => ~QuietByCalendar
<1>1. IInv /\ [Next]_vars => [A]_vars
  <2> SUFFICES ASSUME IInv, Next, NEW e \in Events, LetsThrough(e) PROVE ~QuietByCalendar
    OBVIOUS
  <2>1. Decides(e) /\ plan'[e].verdict \in {"send", "aggregate"}
    BY DEF LetsThrough
  <2>2. Evaluate(e)
    BY <2>1, Deciding DEF IInv
  <2>3. ~Quiet
    BY <2>1, <2>2, Ready, DecisionTyped
  <2>4. QED
    BY <2>2, <2>3, Ready, QuietMeansQuiet
<1> QED
  BY <1>1, PolicyInvariant, PTL DEF QuietKept, Spec

\* A deferral lasts to the close of the period that covers the moment the clock was
\* read, after a whole day on to the time the rule names (quiet_end).
THEOREM DeferredToTheEnd == Spec => DeferralEndsQuiet
<1> DEFINE A == \A e \in Events :
       Decides(e) /\ plan'[e].verdict = "defer" =>
         \E p \in Covering(input.now, input.rule.quiet) :
           plan'[e].until = p.to + Overrun(input.rule.quiet) - offset
<1>1. IInv /\ [Next]_vars => [A]_vars
  <2> SUFFICES ASSUME IInv, Next, NEW e \in Events, Decides(e), plan'[e].verdict = "defer"
               PROVE  \E p \in Covering(input.now, input.rule.quiet) :
                        plan'[e].until = p.to + Overrun(input.rule.quiet) - offset
    OBVIOUS
  <2>1. Evaluate(e)
    BY Deciding DEF IInv
  <2>2. input.now \in 0..MaxTime /\ offset \in Int /\ input.rule \in RuleShape
    BY <2>1, Ready
  <2>3. Quiet /\ plan'[e].until = QuietEnd(input.now, input.rule.quiet)
    BY <2>1, Ready, DecisionTyped
  <2>4. input.rule.quiet \in QuietHours /\ InQuietHours(input.now, input.rule.quiet)
    BY <2>2, <2>3 DEF Quiet, RuleShape
  <2>5. QED
    BY <2>2, <2>3, <2>4, QuietEndIsPeriods
<1> QED
  BY <1>1, PolicyInvariant, PTL DEF DeferralEndsQuiet, Spec

\* What is let through comes after the cooldown of every delivery known when the
\* clock was read and still on record, and within the limit of its window, for a
\* limit that has its places in the lookup (recent_delivery_times_for_rule).
THEOREM LimitsAreKept == Spec => LimitsKept
<1> DEFINE A == \A e \in Events : LetsThrough(e) /\ input.listed = Channels =>
       /\ input.rule.cooldown > 0 /\ Visible(1) =>
            StillKnown(input.now - input.rule.cooldown) = {}
       /\ Visible(input.rule.cap) =>
            Cardinality(StillKnown(input.now - input.rule.window)) < input.rule.cap
<1>1. IInv /\ [Next]_vars => [A]_vars
  <2> SUFFICES ASSUME IInv, Next, NEW e \in Events, LetsThrough(e), input.listed = Channels
               PROVE  /\ input.rule.cooldown > 0 /\ Visible(1) =>
                           StillKnown(input.now - input.rule.cooldown) = {}
                      /\ Visible(input.rule.cap) =>
                           Cardinality(StillKnown(input.now - input.rule.window)) < input.rule.cap
    OBVIOUS
  <2>1. Decides(e) /\ plan'[e].verdict \in {"send", "aggregate"}
    BY DEF LetsThrough
  <2>2. Evaluate(e)
    BY <2>1, Deciding DEF IInv
  <2>3. ~CoolingDown /\ ~WindowFull
    BY <2>1, <2>2, Ready, DecisionTyped
  <2>4. /\ input.rule.cooldown \in Nat /\ input.rule.window \in Nat /\ input.rule.cap \in Nat
        /\ input.now \in Nat /\ input.left = {}
        /\ IsFiniteSet(input.recent) /\ input.recent \subseteq Delivery
    BY <2>2, Ready DEF RuleShape
  <2>5. ASSUME NEW t \in Int, t <= input.now
        PROVE  /\ Seen(t) \in Nat /\ IsFiniteSet(Between(t, input.now))
               /\ StillKnown(t) \in SUBSET Between(t, input.now)
               /\ \A n \in Nat : Visible(n) /\ Seen(t) < n => Cardinality(Between(t, input.now)) < n
    BY <2>4, <2>5, SeenAreThere, Parted, LimitSeen, KnownAreThere
  <2>6. ASSUME NEW t \in Int, t <= input.now, NEW n \in Nat, Visible(n), Seen(t) < n
        PROVE  IsFiniteSet(StillKnown(t)) /\ Cardinality(StillKnown(t)) \in Nat
               /\ Cardinality(StillKnown(t)) < n
    <3>1. /\ IsFiniteSet(StillKnown(t)) /\ Cardinality(StillKnown(t)) \in Nat
          /\ Cardinality(StillKnown(t)) <= Cardinality(Between(t, input.now))
          /\ Cardinality(Between(t, input.now)) \in Nat
      BY <2>5, <2>6, FS_Subset, FS_CardinalityType
    <3>2. Cardinality(Between(t, input.now)) < n
      BY <2>5, <2>6
    <3>3. QED
      BY <3>1, <3>2
  <2>7. ASSUME input.rule.cooldown > 0, Visible(1)
        PROVE  StillKnown(input.now - input.rule.cooldown) = {}
    <3> DEFINE t == input.now - input.rule.cooldown
    <3>1. t \in Int /\ t <= input.now
      BY <2>4
    <3>2. ~(Seen(t) > 0)
      BY <2>3, <2>7 DEF CoolingDown
    <3> HIDE DEF t
    <3>3. Seen(t) < 1
      BY <2>5, <3>1, <3>2
    <3>4. IsFiniteSet(StillKnown(t)) /\ Cardinality(StillKnown(t)) = 0
      BY <2>6, <2>7, <3>1, <3>3
    <3>5. StillKnown(t) = {}
      BY <3>4, FS_EmptySet
    <3> QED
      BY <3>5 DEF t
  <2>8. ASSUME Visible(input.rule.cap)
        PROVE  Cardinality(StillKnown(input.now - input.rule.window)) < input.rule.cap
    <3> DEFINE t == input.now - input.rule.window
    <3>1. t \in Int /\ t <= input.now
      BY <2>4
    <3>2. ~(Seen(t) >= input.rule.cap)
      BY <2>3 DEF WindowFull
    <3> HIDE DEF t
    <3>3. Seen(t) < input.rule.cap
      BY <2>4, <2>5, <3>1, <3>2
    <3>4. Cardinality(StillKnown(t)) < input.rule.cap
      BY <2>4, <2>6, <2>8, <3>1, <3>3
    <3> QED
      BY <3>4 DEF t
  <2> QED
    BY <2>7, <2>8
<1> QED
  BY <1>1, PolicyInvariant, PTL DEF LimitsKept, Spec

\* No event is dropped without one of the rule's conditions to account for it: what
\* is counted was looked up, and is no later than the instant taken for now.
THEOREM NothingLostWithoutCause == Spec => NotifiedUnlessCause
<1> DEFINE A == \A e \in Events : Evaluate(e) /\ ~HasCause(e) => IsQueued(plan'[e])
<1>1. IInv /\ [Next]_vars => [A]_vars
  <2> SUFFICES ASSUME IInv, NEW e \in Events, Evaluate(e), ~HasCause(e)
               PROVE  IsQueued(plan'[e])
    OBVIOUS
  <2>1. /\ TypeOK /\ ReadsInOrder /\ input.step = "counting"
        /\ input.rule.cooldown \in Nat /\ input.rule.window \in Nat /\ input.rule.cap \in Nat
        /\ input.now \in Nat /\ IsFiniteSet(input.recent) /\ input.recent \subseteq Delivery
        /\ plan'[e] = Decision(e)
    BY Ready DEF RuleShape
  <2>2. ~Quiet
    BY <2>1, QuietMeansQuiet DEF HasCause
  <2>3. ~CoolingDown
    <3> DEFINE t == input.now - input.rule.cooldown
    <3>1. t \in Int /\ t <= input.now
      BY <2>1
    <3>2. input.rule.cooldown > 0 => Between(t, input.now) = {}
      BY DEF HasCause
    <3> HIDE DEF t
    <3>3. Seen(t) \in Nat /\ Seen(t) <= Cardinality(Between(t, input.now))
      BY <2>1, <3>1, SeenAreThere
    <3>4. input.rule.cooldown > 0 => ~(Seen(t) > 0)
      BY <3>2, <3>3, FS_EmptySet
    <3> QED
      BY <3>4 DEF CoolingDown, t
  <2>4. ~WindowFull
    <3> DEFINE t == input.now - input.rule.window
    <3>1. t \in Int /\ t <= input.now
      BY <2>1
    <3>2. ~(Cardinality(Between(t, input.now)) >= input.rule.cap)
      BY DEF HasCause
    <3> HIDE DEF t
    <3>3. Seen(t) \in Nat /\ Seen(t) <= Cardinality(Between(t, input.now))
          /\ Cardinality(Between(t, input.now)) \in Nat
      BY <2>1, <3>1, SeenAreThere, Parted
    <3>4. ~(Seen(t) >= input.rule.cap)
      BY <2>1, <3>2, <3>3
    <3> QED
      BY <3>4 DEF WindowFull, t
  <2>5. \/ plan'[e] = Queued("defer", QuietEnd(input.now, input.rule.quiet))
        \/ plan'[e] = Queued("aggregate", Release)
        \/ plan'[e] = Queued("send", Never)
    BY <2>1, <2>2, <2>3, <2>4 DEF Decision, HasCause
  <2>6. QED
    BY <2>5 DEF Queued, IsQueued
<1> QED
  BY <1>1, PolicyInvariant, PTL DEF NotifiedUnlessCause, Spec

-----------------------------------------------------------------------------
(* What a message shows *)

Segment(S) == [kind : {"literal"}, char : S] \cup [kind : {"field"}, path : Fields] \cup [kind : {"stray"}]

\* An event and a hook whose base values, labels and public inputs lie in S; what
\* the event holds under other names is not restricted.
Shows(S, event, hook) ==
  /\ event.base \in [BaseFields -> S]
  /\ hook.known \in BOOLEAN /\ hook.labels \in [Labels -> S]
  /\ hook.inputs \in Seq([name : STRING, sensitivity : {"public", "sensitive", "forbidden"}])
  /\ \A i \in DOMAIN hook.inputs :
       hook.inputs[i].sensitivity = "public" => event.public[hook.inputs[i].name] \in S

LEMMA ShortTexts ==
  ASSUME NEW S
  PROVE  <<>> \in Seq(S) /\ (\A x \in S : <<x>> \in Seq(S)) /\ (\A x, y \in S : <<x, y>> \in Seq(S))
  OBVIOUS

LEMMA ReplacedIn ==
  ASSUME NEW S, Mark \in S, NEW text \in Seq(S), NEW positions
  PROVE  /\ Replaced(text, positions) \in Seq(S)
         /\ Len(Replaced(text, positions)) = Len(text)
  BY DEF Replaced

LEMMA RedactIn ==
  ASSUME NEW S, Mark \in S, NEW text \in Seq(S)
  PROVE  Redact(text) \in Seq(S) /\ Len(Redact(text)) = Len(text)
<1> DEFINE hidden == Replaced(text, Mandatory(text))
<1>1. hidden \in Seq(S) /\ Len(hidden) = Len(text)
  BY ReplacedIn
<1>2. Replaced(hidden, Custom(hidden)) \in Seq(S) /\ Len(Replaced(hidden, Custom(hidden))) = Len(hidden)
  BY <1>1, ReplacedIn
<1>3. QED
  BY <1>1, <1>2 DEF Redact

LEMMA CutIn ==
  ASSUME NEW S, Empty \in S, NEW text \in Seq(S), NEW limit \in Nat
  PROVE  Cut(text, limit) \in Seq(S) /\ Len(Cut(text, limit)) = Len(text)
  BY DEF Cut

\* Only a value the context may hold is ever read.
LEMMA ValueIn ==
  ASSUME NEW S, Empty \in S, NEW event, NEW hook, Shows(S, event, hook),
         NEW allowed, NEW path \in Fields
  PROVE  Value(event, hook, allowed, path) \in S
<1>1. path \in BaseFields => event.base[path] \in S
  BY DEF Shows
<1>2. path \in Labels => hook.labels[path] \in S
  BY DEF Shows
<1>3. ASSUME Readable(hook, allowed, path)
      PROVE  event.public[InputOf(hook, allowed, path)] \in S
  <2>1. CASE path \in Inputs
    <3>1. path # "event.summary"
      BY <2>1 DEF Inputs
    <3>2. PICK i \in DOMAIN hook.inputs :
            hook.inputs[i].name = InputName[path] /\ hook.inputs[i].sensitivity = "public"
      BY <1>3, <3>1 DEF Readable, IsPublic
    <3>3. InputOf(hook, allowed, path) = InputName[path]
      BY <3>1 DEF InputOf
    <3>4. event.public[hook.inputs[i].name] \in S
      BY <3>2 DEF Shows
    <3>5. QED
      BY <3>2, <3>3, <3>4
  <2>2. CASE path \notin Inputs
    <3>1. path = "event.summary"
      BY <1>3, <2>2 DEF Readable
    <3>2. PICK i \in DOMAIN hook.inputs :
            IsSummarySource(i, hook, allowed) /\ hook.inputs[i].sensitivity = "public"
      BY <1>3, <2>2 DEF Readable
    <3> DEFINE first == CHOOSE k \in DOMAIN hook.inputs : IsSummarySource(k, hook, allowed)
    <3>3. first \in DOMAIN hook.inputs /\ IsSummarySource(first, hook, allowed)
      BY <3>2
    <3>4. DOMAIN hook.inputs \subseteq Nat
      BY DEF Shows
    <3>5. first = i
      <4> HIDE DEF first
      <4> QED BY <3>2, <3>3, <3>4 DEF IsSummarySource
    <3>6. InputOf(hook, allowed, path) = hook.inputs[i].name
      BY <3>1, <3>5 DEF InputOf, SummarySource
    <3>7. event.public[hook.inputs[i].name] \in S
      BY <3>2 DEF Shows
    <3>8. QED
      BY <3>6, <3>7
  <2>3. QED
    BY <2>1, <2>2
<1>4. QED
  BY <1>1, <1>2, <1>3 DEF Value

\* A template in use: what it holds literally may be shown.
Writes(S, template) == template \in Seq(Segment(S))

LEMMA RenderedIn ==
  ASSUME NEW S, Empty \in S, NEW event, NEW hook, Shows(S, event, hook), NEW allowed,
         NEW template, Writes(S, template), Valid(template, hook, allowed)
  PROVE  Rendered(template, event, hook, allowed) \in Seq(S)
<1> DEFINE text == Rendered(template, event, hook, allowed)
<1>1. ASSUME NEW i \in DOMAIN template
      PROVE  (IF template[i].kind = "literal" THEN template[i].char
              ELSE Value(event, hook, allowed, template[i].path)) \in S
  <2>1. template[i] \in Segment(S)
    BY DEF Writes
  <2>2. CASE template[i].kind = "literal"
    BY <2>1, <2>2 DEF Segment
  <2>3. CASE template[i].kind # "literal"
    <3>1. template[i].path \in Fields
      BY <2>1, <2>3 DEF Valid, Segment
    <3>2. QED
      BY <2>3, <3>1, ValueIn
  <2>4. QED
    BY <2>2, <2>3
<1>2. text \in [1..Len(template) -> S] /\ Len(template) \in Nat
  BY <1>1 DEF Rendered, Writes
<1>3. QED
  BY <1>2

LEMMA FactsIn ==
  ASSUME NEW S, Empty \in S, Mark \in S, NEW event, NEW hook, Shows(S, event, hook), NEW allowed
  PROVE  Facts(event, hook, allowed) \in [FactNames -> Seq(S)]
<1>1. ASSUME NEW n \in FactNames
      PROVE  Redact([i \in DOMAIN FactFields[n] |-> Value(event, hook, allowed, FactFields[n][i])])
               \in Seq(S)
  <2> DEFINE text == [i \in DOMAIN FactFields[n] |-> Value(event, hook, allowed, FactFields[n][i])]
  <2>1. FactFields[n] \in Seq(Fields)
    <3>1. {"agent.name", "agent.version", "project.name", "event.name", "event.status",
           "event.occurred_at"} \subseteq Fields
      BY DEF Fields, BaseFields, Labels
    <3>2. /\ <<"agent.name", "agent.version">> \in Seq(Fields) /\ <<"project.name">> \in Seq(Fields)
          /\ <<"event.name">> \in Seq(Fields) /\ <<"event.status">> \in Seq(Fields)
          /\ <<"event.occurred_at">> \in Seq(Fields)
      BY <3>1, ShortTexts
    <3>3. /\ FactFields["Agent"] \in Seq(Fields) /\ FactFields["Project"] \in Seq(Fields)
          /\ FactFields["Hook"] \in Seq(Fields) /\ FactFields["Status"] \in Seq(Fields)
          /\ FactFields["Time"] \in Seq(Fields)
      BY <3>2, ZenonT(30) DEF FactFields
    <3>4. QED
      BY <3>3 DEF FactNames
  <2>2. \A i \in DOMAIN FactFields[n] : Value(event, hook, allowed, FactFields[n][i]) \in S
    BY <2>1, ValueIn
  <2>3. text \in Seq(S)
    BY <2>1, <2>2
  <2>4. QED
    BY <2>3, RedactIn
<1>2. QED
  BY <1>1 DEF Facts

LEMMA TitleIn ==
  ASSUME NEW S, Empty \in S, Mark \in S, NEW event, NEW hook, Shows(S, event, hook), NEW allowed
  PROVE  Title(event, hook, allowed) \in Seq(S)
<1>1. {"event.label", "event.name"} \subseteq Fields
  BY DEF Fields, BaseFields, Labels
<1>2. Value(event, hook, allowed, "event.label") \in S /\ Value(event, hook, allowed, "event.name") \in S
  BY <1>1, ValueIn
<1> DEFINE label == Value(event, hook, allowed, "event.label")
           words == <<IF label = Empty THEN Value(event, hook, allowed, "event.name") ELSE label>>
<1>3. words \in Seq(S)
  <2>1. (IF label = Empty THEN Value(event, hook, allowed, "event.name") ELSE label) \in S
    BY <1>2
  <2>2. QED
    BY <2>1, ShortTexts
<1>4. Redact(words) \in Seq(S)
  <2> HIDE DEF words
  <2> QED BY <1>3, RedactIn
<1>5. QED
  BY <1>4 DEF Title

Documents(S) == [title : Seq(S), facts : [FactNames -> Seq(S)], body : Seq(S)]

LEMMA DocumentOfIn ==
  ASSUME NEW S, Empty \in S, Mark \in S, NEW event, NEW hook, Shows(S, event, hook), NEW allowed,
         NEW text \in Seq(S), NEW max \in Nat
  PROVE  DocumentOf(text, event, hook, allowed, max) \in Documents(S)
<1>1. Cut(Redact(text), max) \in Seq(S)
  BY RedactIn, CutIn
<1>2. QED
  BY <1>1, TitleIn, FactsIn DEF DocumentOf, Documents

LEMMA DocumentIn ==
  ASSUME NEW S, Empty \in S, Mark \in S, NEW event, NEW hook, Shows(S, event, hook), NEW allowed,
         NEW max \in Nat, NEW targets, NEW global, Writes(S, Chosen(targets, global))
  PROVE  Document(event, hook, allowed, max, targets, global) \in Documents(S)
<1> DEFINE template == Chosen(targets, global)
           document == IF ~IsBlank(template) /\ Valid(template, hook, allowed)
                       THEN DocumentOf(Rendered(template, event, hook, allowed), event, hook, allowed, max)
                       ELSE Canonical(event, hook, allowed, max)
<1>1. Canonical(event, hook, allowed, max) \in Documents(S)
  <2>1. Value(event, hook, allowed, "event.summary") \in S
    BY ValueIn DEF Fields
  <2>2. <<Value(event, hook, allowed, "event.summary")>> \in Seq(S)
    BY <2>1, ShortTexts
  <2>3. QED
    BY <2>2, DocumentOfIn DEF Canonical
<1>2. Valid(template, hook, allowed)
        => DocumentOf(Rendered(template, event, hook, allowed), event, hook, allowed, max) \in Documents(S)
  BY RenderedIn, DocumentOfIn
<1>3. document \in Documents(S)
  BY <1>1, <1>2
<1>4. [document EXCEPT !.facts = NoFacts] \in Documents(S)
  <2>1. NoFacts \in [FactNames -> Seq(S)]
    BY ShortTexts DEF NoFacts
  <2> HIDE DEF document
  <2>2. QED
    BY <1>3, <2>1 DEF Documents
<1>5. QED
  BY <1>3, <1>4 DEF Document

\* What a platform receives is made of the keyword, the template's own words, the
\* labels and base values, what the catalog calls public, and redaction marks: no
\* input the catalog calls sensitive or does not list gets into it, whatever rule,
\* template and allowed fields are set (build_template_context, render_document).
THEOREM OnlyPublicLeaves ==
  ASSUME NEW S, Empty \in S, Mark \in S, NEW event, NEW hook, Shows(S, event, hook), NEW allowed,
         NEW max \in Nat, NEW targets, NEW global, Writes(S, Chosen(targets, global)),
         NEW keyword \in Seq(S), NEW limit \in Nat
  PROVE  Content(keyword, Document(event, hook, allowed, max, targets, global), limit) \in Seq(S)
<1> DEFINE document == Document(event, hook, allowed, max, targets, global)
<1>1. document \in Documents(S)
  BY DocumentIn
<1>2. /\ document.title \in Seq(S) /\ document.body \in Seq(S)
      /\ \A n \in FactNames : document.facts[n] \in Seq(S)
  BY <1>1 DEF Documents
<1>3. keyword \o Written(document) \in Seq(S)
  <2> HIDE DEF document
  <2>1. \A s, t \in Seq(S) : s \o t \in Seq(S)
    OBVIOUS
  <2>2. /\ document.facts["Agent"] \in Seq(S) /\ document.facts["Project"] \in Seq(S)
        /\ document.facts["Hook"] \in Seq(S) /\ document.facts["Status"] \in Seq(S)
        /\ document.facts["Time"] \in Seq(S)
    BY <1>2 DEF FactNames
  <2>3. Written(document) \in Seq(S)
    BY <1>2, <2>1, <2>2 DEF Written
  <2>4. QED
    BY <2>1, <2>3
<1>4. QED
  BY <1>3, CutIn DEF Content

\* What the built-in patterns match in a rendered template is not in the body, and the
\* truncation comes after them: it does not cut a secret in two so that the rest is
\* no longer recognised (render_document).
THEOREM MandatoryHidden ==
  ASSUME NEW S, Empty \in S, Mark \in S, NEW event, NEW hook, Shows(S, event, hook), NEW allowed,
         NEW max \in Nat, NEW text \in Seq(S),
         NEW i \in DOMAIN text, i \in Mandatory(text)
  PROVE  DocumentOf(text, event, hook, allowed, max).body[i] \in {Mark, Empty}
<1> DEFINE hidden == Replaced(text, Mandatory(text))
<1>1. DOMAIN hidden = DOMAIN text /\ hidden[i] = Mark
  BY DEF Replaced
<1>2. DOMAIN Redact(text) = DOMAIN text /\ Redact(text)[i] = Mark
  <2> HIDE DEF hidden
  <2>1. /\ DOMAIN Replaced(hidden, Custom(hidden)) = DOMAIN hidden
        /\ i \in DOMAIN hidden => Replaced(hidden, Custom(hidden))[i] \in {Mark, hidden[i]}
    BY DEF Replaced
  <2>2. Redact(text) = Replaced(hidden, Custom(hidden))
    BY DEF Redact, hidden
  <2>3. QED
    BY <1>1, <2>1, <2>2
<1>3. Cut(Redact(text), max)[i] \in {Mark, Empty}
  BY <1>2 DEF Cut
<1>4. QED
  BY <1>3 DEF DocumentOf

\* A rule with max_body_chars = 0 asks for the metadata alone, and gets it: no template
\* puts anything into the body or takes the facts away (enqueue_jobs).
THEOREM MetadataOnly ==
  ASSUME NEW S, Empty \in S, Mark \in S, NEW event, NEW hook, Shows(S, event, hook), NEW allowed,
         NEW targets, NEW global, Writes(S, Chosen(targets, global))
  PROVE  LET document == Document(event, hook, allowed, 0, targets, global) IN
         IsEmpty(document.body) /\ document.facts = Facts(event, hook, allowed)
<1> DEFINE Cuts(text) == IsEmpty(DocumentOf(text, event, hook, allowed, 0).body)
<1>1. ASSUME NEW text \in Seq(S) PROVE Cuts(text)
  <2>1. Redact(text) \in Seq(S)
    BY RedactIn
  <2>2. \A k \in DOMAIN Redact(text) : ~(k <= 0)
    BY <2>1
  <2>3. QED
    BY <2>2 DEF DocumentOf, Cut, IsEmpty
<1> DEFINE template == Chosen(targets, global)
           bare == <<Value(event, hook, allowed, "event.summary")>>
<1>2. bare \in Seq(S)
  BY ValueIn DEF Fields
<1>3. Valid(template, hook, allowed) => Rendered(template, event, hook, allowed) \in Seq(S)
  BY RenderedIn
<1>4. PICK text : /\ Cuts(text)
                  /\ Document(event, hook, allowed, 0, targets, global)
                       = DocumentOf(text, event, hook, allowed, 0)
  <2>1. CASE ~IsBlank(template) /\ Valid(template, hook, allowed)
    <3>1. Cuts(Rendered(template, event, hook, allowed))
      BY <1>1, <1>3, <2>1
    <3>2. QED
      BY <2>1, <3>1 DEF Document
  <2>2. CASE ~(~IsBlank(template) /\ Valid(template, hook, allowed))
    <3>1. Cuts(bare)
      BY <1>1, <1>2
    <3>2. QED
      BY <2>2, <3>1 DEF Document, Canonical
  <2>3. QED
    BY <2>1, <2>2
<1>5. QED
  BY <1>4 DEF DocumentOf

\* DingTalk refuses a message without the keyword its robot was given: the keyword is
\* there whatever the limit cuts off (prefixed_markdown, prefixed_text).
THEOREM KeywordKept ==
  ASSUME NEW S, NEW keyword \in Seq(S), NEW document \in Documents(S),
         NEW limit \in Nat, Len(keyword) <= limit
  PROVE  \A i \in 1..Len(keyword) : Content(keyword, document, limit)[i] = keyword[i]
<1>1. Written(document) \in Seq(S)
  <2>1. \A s, t \in Seq(S) : s \o t \in Seq(S)
    OBVIOUS
  <2>2. /\ document.title \in Seq(S) /\ document.body \in Seq(S)
        /\ document.facts["Agent"] \in Seq(S) /\ document.facts["Project"] \in Seq(S)
        /\ document.facts["Hook"] \in Seq(S) /\ document.facts["Status"] \in Seq(S)
        /\ document.facts["Time"] \in Seq(S)
    BY DEF Documents, FactNames
  <2>3. QED
    BY <2>1, <2>2 DEF Written
<1>2. \A i \in 1..Len(keyword) : /\ i \in DOMAIN (keyword \o Written(document))
                                 /\ (keyword \o Written(document))[i] = keyword[i]
  BY <1>1
<1>3. QED
  BY <1>2 DEF Content, Cut

-----------------------------------------------------------------------------
(* What an event record keeps *)

\* S holds what may be kept in clear: public values, what a redacted one is
\* replaced by, the hook's phase, references, and the names of places.
Harmless(S, raw, hook) ==
  /\ Mark \in S /\ hook.phase \in S
  /\ \A n \in DOMAIN raw : IsPublic(hook, n) => raw[n] \in S
  /\ \A key, domain, value : Reference(key, domain, value) \in S
  /\ \A cwd : Leaf(cwd) \in S
  /\ \A cwd, projects : Match(cwd, projects) # Absent => Match(cwd, projects).name \in S

LEMMA RedactedValueIn ==
  ASSUME NEW S, Mark \in S, NEW v \in S
  PROVE  RedactedValue(v) \in S
<1>1. <<v>> \in Seq(S) /\ Len(<<v>>) = 1
  BY ShortTexts
<1>2. Redact(<<v>>) \in Seq(S) /\ Len(Redact(<<v>>)) = 1
  BY <1>1, RedactIn
<1>3. Redact(<<v>>)[1] \in S
  BY <1>2
<1>4. QED
  BY <1>3 DEF RedactedValue

LEMMA PublicIn ==
  ASSUME NEW S, NEW raw, NEW hook, Harmless(S, raw, hook), NEW n \in DOMAIN Public(raw, hook)
  PROVE  Public(raw, hook)[n] \in S
<1> DEFINE names == PublicFields(raw, hook)
           added == {"status"} \cup (IF HasSubtype(raw, hook) THEN {"event_subtype"} ELSE {})
<1>1. n \in names \cup added
  BY DEF Public
<1>2. Public(raw, hook)[n] =
        IF n \in names THEN raw[n] ELSE IF n = "status" THEN hook.phase ELSE raw[hook.matcher]
  BY <1>1 DEF Public
<1>3. \A k \in names : raw[k] \in S
  BY DEF PublicFields, Harmless
<1>4. CASE n \in names
  BY <1>2, <1>3, <1>4
<1>5. CASE n \notin names /\ n = "status"
  BY <1>2, <1>5 DEF Harmless
<1>6. CASE n \notin names /\ n # "status"
  <2>1. n = "event_subtype" /\ HasSubtype(raw, hook)
    BY <1>1, <1>6
  <2>2. hook.matcher \in names
    BY <2>1, <1>6 DEF HasSubtype
  <2>3. QED
    BY <1>2, <1>3, <1>6, <2>2
<1>7. QED
  BY <1>4, <1>5, <1>6

LEMMA RedactedFieldsIn ==
  ASSUME NEW S, NEW raw, NEW hook, Harmless(S, raw, hook),
         NEW n \in DOMAIN RedactedFields(Public(raw, hook))
  PROVE  RedactedFields(Public(raw, hook))[n] \in S
<1>1. n \in DOMAIN Public(raw, hook)
  BY DEF RedactedFields
<1>2. Public(raw, hook)[n] \in S
  BY <1>1, PublicIn
<1>3. QED
  BY <1>1, <1>2, RedactedValueIn DEF RedactedFields, Harmless

LEMMA HeadersIn ==
  ASSUME NEW S, NEW raw, NEW hook, Harmless(S, raw, hook), NEW n
  PROVE  Header(raw, hook, n) \in S \cup {Absent}
  BY DEF Header, TextOf, Harmless

LEMMA PlaceIn ==
  ASSUME NEW S, NEW raw, NEW hook, Harmless(S, raw, hook), NEW cwd, NEW projects, NEW key
  PROVE  /\ Place(cwd, projects, key).name \in S \cup {Absent}
         /\ Place(cwd, projects, key).directory \in S \cup {Absent}
<1>1. CASE Belongs(cwd, projects)
  <2>1. Place(cwd, projects, key).name = Match(cwd, projects).name
        /\ Place(cwd, projects, key).directory = Absent
    BY <1>1 DEF Place
  <2>2. QED
    BY <1>1, <2>1 DEF Belongs, Harmless
<1>2. CASE ~Belongs(cwd, projects)
  <2>1. Place(cwd, projects, key).name = (IF cwd = Absent THEN Absent ELSE Leaf(cwd))
        /\ Place(cwd, projects, key).directory = Referred(key, "cwd", cwd)
    BY <1>2 DEF Place
  <2>2. QED
    BY <2>1 DEF Referred, Harmless
<1>3. QED
  BY <1>1, <1>2

\* No sensitive or forbidden input of a hook is kept in clear, however the event
\* comes into the database: an event stored live and one recovered from a row or a
\* file hold public values, redacted, and references in place of the identities
\* (normalize_event, normalize_safe_ingress, redact_envelope_public_fields).
THEOREM NothingSensitiveInClear ==
  ASSUME NEW S, NEW raw, NEW hook, Harmless(S, raw, hook), NEW projects, NEW key, NEW existing
  PROVE  /\ Clear(Live(Captured(raw, hook), projects, key)) \subseteq S
         /\ Clear(Recovered(Safe(Captured(raw, hook), projects, key), existing)) \subseteq S
<1> DEFINE c == Captured(raw, hook)
           live == Live(c, projects, key)
           safe == Safe(c, projects, key)
           again == Recovered(safe, existing)
           place == Place(c.cwd, projects, key)
<1>1. /\ c.public = Public(raw, hook)
      /\ c.model = Header(raw, hook, "model") /\ c.mode = Header(raw, hook, "permission_mode")
  BY DEF Captured
<1>2. place.name \in S \cup {Absent} /\ place.directory \in S \cup {Absent}
  BY PlaceIn
<1>3. \A domain, value : Referred(key, domain, value) \in S \cup {Absent}
  BY DEF Referred, Harmless
<1>4. c.model \in S \cup {Absent} /\ c.mode \in S \cup {Absent}
  BY <1>1, HeadersIn
<1>5. \A n \in DOMAIN RedactedFields(c.public) : RedactedFields(c.public)[n] \in S
  BY <1>1, RedactedFieldsIn
<1>6. Clear(live) \subseteq S
  <2>1. /\ live.place = place /\ live.public = RedactedFields(c.public)
        /\ live.session = Referred(key, "session", c.session)
        /\ live.turn = Referred(key, "turn", c.turn)
        /\ live.model = c.model /\ live.mode = c.mode
    BY DEF Live
  <2> HIDE DEF c, live, place
  <2>2. QED
    BY <1>2, <1>3, <1>4, <1>5, <2>1 DEF Clear
<1>7. Clear(again) \subseteq S
  <2>1. /\ safe.place = place /\ safe.public = c.public
        /\ safe.session = Referred(key, "session", c.session)
        /\ safe.turn = Referred(key, "turn", c.turn)
    BY DEF Safe
  <2>2. /\ again.place = (IF safe.place.project \in existing THEN safe.place
                          ELSE [safe.place EXCEPT !.project = Absent])
        /\ again.public = RedactedFields(safe.public)
        /\ again.session = safe.session /\ again.turn = safe.turn
        /\ again.model = Absent /\ again.mode = Absent
    BY DEF Recovered
  <2>3. again.place.name = place.name /\ again.place.directory = place.directory
    BY <2>1, <2>2 DEF Place
  <2> HIDE DEF c, safe, again, place
  <2>4. QED
    BY <1>2, <1>3, <1>5, <2>1, <2>2, <2>3 DEF Clear
<1>8. QED
  BY <1>6, <1>7

\* An event recovered is the event the application would have stored, with the
\* same id, but for the model, the permission mode and the sensitive fields: if the
\* helper knew the projects and the key the application knows, and the event's
\* project is still there.
THEOREM RecoveredAgrees ==
  ASSUME NEW c, NEW projects, NEW key, NEW existing,
         Belongs(c.cwd, projects) => Match(c.cwd, projects).id \in existing
  PROVE  LET live == Live(c, projects, key)
             again == Recovered(Safe(c, projects, key), existing)
         IN /\ again.id = live.id /\ again.place = live.place
            /\ again.session = live.session /\ again.turn = live.turn
            /\ again.public = live.public
            /\ {again.model, again.mode, again.sealed} = {Absent}
<1> DEFINE live == Live(c, projects, key)
           safe == Safe(c, projects, key)
           again == Recovered(safe, existing)
           place == Place(c.cwd, projects, key)
<1>1. /\ safe.id = Digest(c) /\ safe.place = place /\ safe.public = c.public
      /\ safe.session = Referred(key, "session", c.session)
      /\ safe.turn = Referred(key, "turn", c.turn)
  BY DEF Safe
<1>2. /\ live.id = Digest(c) /\ live.place = place /\ live.public = RedactedFields(c.public)
      /\ live.session = Referred(key, "session", c.session)
      /\ live.turn = Referred(key, "turn", c.turn)
  BY DEF Live
<1>3. (IF place.project \in existing THEN place ELSE [place EXCEPT !.project = Absent]) = place
  BY DEF Place
<1>4. /\ again.id = safe.id /\ again.session = safe.session /\ again.turn = safe.turn
      /\ again.place = (IF safe.place.project \in existing THEN safe.place
                        ELSE [safe.place EXCEPT !.project = Absent])
      /\ again.public = RedactedFields(safe.public)
      /\ again.model = Absent /\ again.mode = Absent /\ again.sealed = Absent
  BY DEF Recovered
<1> HIDE DEF live, safe, again, place
<1>5. again.place = place
  BY <1>1, <1>3, <1>4
<1>6. QED
  BY <1>1, <1>2, <1>4, <1>5 DEF live, safe, again
=============================================================================
