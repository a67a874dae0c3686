------------------------- MODULE IngressPathProofs -------------------------
(***************************************************************************)
(* What the path of an event keeps whatever the helpers, the application,  *)
(* the user's clearing and retention do, for any number of events, places, *)
(* files and faults: custody, one notification, jobs with their events.    *)
(***************************************************************************)
EXTENDS IngressPath, TLAPS

-----------------------------------------------------------------------------
(* The steps, in the groups the lemmas take them in. *)

LiveStep == Take \/ Commit \/ CommitFails \/ Reply
StartStep ==
  \/ Stop \/ Launch \/ KeychainLoads \/ KeychainFails \/ DrainFails
  \/ TakeBatch \/ TakeBatchFails \/ Bind \/ BindFails
BacklogStep(e) ==
  DrainFile(e) \/ DrainBreaks(e) \/ FileStays(e) \/ RecoverRow(e) \/ SkipRow(e)
AroundStep == Tick \/ UserClears \/ Retain \/ \E e \in Events : JobEnds(e)

LEMMA NextCases ==
  ASSUME [Next]_vars
  PROVE  \/ \E e \in Events : HelperStep(e)
         \/ LiveStep \/ StartStep
         \/ \E e \in Events : BacklogStep(e)
         \/ AroundStep \/ UNCHANGED vars
  BY DEF Next, LiveStep, StartStep, BacklogStep, AroundStep

-----------------------------------------------------------------------------
(* Types *)

LEMMA InboxType ==
  ASSUME TypeOK
  PROVE  /\ inbox \in Seq(Events) /\ Len(inbox) \in Nat
         /\ \A i \in 1..Len(inbox) : inbox[i] \in Events
<1>1. inbox \in Seq(Events)
  BY DEF TypeOK
<1>2. QED
  BY <1>1

LEMMA TailShifts ==
  ASSUME NEW S, NEW q \in Seq(S), q # <<>>
  PROVE  /\ Head(q) = q[1] /\ 1 \in 1..Len(q) /\ Len(q) \in Nat /\ Len(Tail(q)) = Len(q) - 1
         /\ \A i \in 1..Len(Tail(q)) : i + 1 \in 1..Len(q) /\ Tail(q)[i] = q[i + 1]
  OBVIOUS

LEMMA StoredType ==
  ASSUME TypeOK, NEW e \in Events
  PROVE  /\ Stored(e) \in [Events -> {"none", "pending", "processing"}]
         /\ Stored(e)[e] # "none"
         /\ \A f \in Events \ {e} : Stored(e)[f] = ingress[f]
  BY DEF TypeOK, Stored

LEMMA UnstoredType ==
  ASSUME TypeOK, NEW e \in Events
  PROVE  /\ Unstored(e) \in [Events -> {"none", "pending", "processing"}]
         /\ \A f \in Events \ {e} : Unstored(e)[f] = ingress[f]
  BY DEF TypeOK, Unstored

LEMMA SpendType ==
  ASSUME TypeOK, NEW bound \in {"faults", "clears"}, NEW limit, Spend(bound, limit)
  PROVE  spent' \in [{"faults", "clears"} -> Nat]
  BY DEF TypeOK, Spend

LEMMA FaultType ==
  ASSUME TypeOK, Fault
  PROVE  spent' \in [{"faults", "clears"} -> Nat]
  BY SpendType DEF Fault

LEMMA DecisionType ==
  ASSUME NEW e, NEW d \in Decisions(e)
  PROVE  d.outcome \in Outcomes /\ d.ttl \in TTLs /\ d.ttl \in Nat
  BY IngressAssumption DEF Decisions

\* The transaction that records an event, seen from its variables.
LEMMA RecordType ==
  ASSUME TypeOK, NEW e \in Events, NEW outcome \in Outcomes, NEW ttl \in Nat,
         Record(e, outcome, ttl)
  PROVE  /\ row' \in [Events -> Outcomes \cup {"none"}]
         /\ job' \in [Events -> [state : {"none", "open", "done"}, created : Nat, expires : Nat]]
         /\ enqueued' \in [Events -> Nat]
         /\ handled' \subseteq Events
<1>1. CASE Seen(e)
  BY <1>1 DEF Record, TypeOK
<1>2. CASE ~Seen(e)
  <2>1. [state |-> "open", created |-> now, expires |-> Deadline(ttl)]
          \in [state : {"none", "open", "done"}, created : Nat, expires : Nat]
    BY DEF TypeOK, Deadline
  <2>2. row' \in [Events -> Outcomes \cup {"none"}] /\ handled' \subseteq Events
    BY <1>2 DEF Record, TypeOK, EventStored
  <2>3. enqueued' \in [Events -> Nat]
    <3>1. enqueued' = enqueued \/ enqueued' = [enqueued EXCEPT ![e] = @ + 1]
      BY <1>2 DEF Record
    <3>2. enqueued \in [Events -> Nat]
      BY DEF TypeOK
    <3>3. QED
      BY <3>1, <3>2
  <2>4. job' \in [Events -> [state : {"none", "open", "done"}, created : Nat, expires : Nat]]
    <3>1. CASE outcome = "queued"
      <4> DEFINE opened == [state |-> "open", created |-> now, expires |-> Deadline(ttl)]
      <4>1. job' = [job EXCEPT ![e] = opened]
        BY <1>2, <3>1 DEF Record
      <4>2. job \in [Events -> [state : {"none", "open", "done"}, created : Nat, expires : Nat]]
        BY DEF TypeOK
      <4> HIDE DEF opened
      <4>3. opened \in [state : {"none", "open", "done"}, created : Nat, expires : Nat]
        BY <2>1 DEF opened
      <4>4. QED
        BY <4>1, <4>2, <4>3
    <3>2. CASE outcome # "queued"
      BY <1>2, <3>2 DEF Record, TypeOK
    <3>3. QED
      BY <3>1, <3>2
  <2>5. QED
    BY <2>2, <2>3, <2>4
<1>3. QED
  BY <1>1, <1>2

LEMMA HelperStepTypes ==
  ASSUME TypeOK, NEW e \in Events, HelperStep(e)
  PROVE  TypeOK'
<1> USE DEF process, stores, history
<1>1. CASE InputIncomplete(e)
  BY <1>1 DEF TypeOK, InputIncomplete, HelperAt, HelperStages
<1>2. CASE CaptureRefused(e)
  BY <1>2 DEF TypeOK, CaptureRefused, HelperAt, HelperStages
<1>3. CASE Capture(e)
  BY <1>3 DEF TypeOK, Capture, HelperAt, HelperStages
<1>4. CASE Ask(e)
  <2>1. helper' \in [Events -> HelperStages]
    <3>1. HelperAt(e, "waiting") \/ HelperAt(e, "falling")
      BY <1>4 DEF Ask
    <3>2. QED
      BY <3>1 DEF HelperAt, HelperStages, TypeOK
  <2>2. Append(inbox, e) \in Seq(Events) /\ inbox \in Seq(Events)
    BY DEF TypeOK
  <2>3. inbox' \in Seq(Events)
    BY <1>4, <2>2 DEF Ask
  <2>4. QED
    BY <1>4, <2>1, <2>3 DEF TypeOK, Ask
<1>5. CASE GiveUp(e)
  BY <1>5 DEF TypeOK, GiveUp, HelperAt, HelperStages
<1>6. CASE FallBack(e)
  BY <1>6, StoredType DEF TypeOK, FallBack, HelperAt, HelperStages
<1>7. CASE DatabaseBusy(e)
  BY <1>7, FaultType DEF TypeOK, DatabaseBusy, HelperAt, HelperStages
<1>8. CASE WriteSpool(e)
  BY <1>8 DEF TypeOK, WriteSpool, HelperAt, HelperStages
<1>9. CASE HelperDies(e)
  BY <1>9, FaultType DEF TypeOK, HelperDies, HelperAt, HelperStages
<1>10. QED
  BY <1>1, <1>2, <1>3, <1>4, <1>5, <1>6, <1>7, <1>8, <1>9 DEF HelperStep

LEMMA LiveTypes ==
  ASSUME TypeOK, RequestComesFirst, LiveStep
  PROVE  TypeOK'
<1> USE DEF process, stores, history
<1>1. CASE Take
  <2>1. Head(inbox) \in Events /\ Tail(inbox) \in Seq(Events)
    BY <1>1 DEF Take, TypeOK
  <2>2. live' \in [event : Events \cup {NoEvent}, stage : LiveStages, outcome : Outcomes, ttl : Nat]
    <3>1. PICK e \in Events, stage \in {"decided", "rejected"}, outcome \in Outcomes, ttl \in Nat :
            live' = [event |-> e, stage |-> stage, outcome |-> outcome, ttl |-> ttl]
      BY <1>1, <2>1, DecisionType DEF Take, Idle, Outcomes
    <3>2. QED
      BY <3>1 DEF LiveStages
  <2>3. QED
    BY <1>1, <2>1, <2>2 DEF Take, TypeOK
<1>2. CASE Commit
  <2>1. live' \in [event : Events \cup {NoEvent}, stage : LiveStages, outcome : Outcomes, ttl : Nat]
    BY <1>2 DEF Commit, TypeOK, LiveStages
  <2>2. live.event \in Events /\ live.outcome \in Outcomes /\ live.ttl \in Nat
    BY <1>2 DEF Commit, TypeOK, RequestComesFirst
  <2>3. QED
    BY <1>2, <2>1, <2>2, RecordType DEF Commit, TypeOK
<1>3. CASE CommitFails
  BY <1>3, FaultType DEF CommitFails, TypeOK, LiveStages
<1>4. CASE Reply
  BY <1>4 DEF Reply, ReplyAt, HelperAt, HelperStages, TypeOK, LiveStages, Idle, Outcomes
<1>5. QED
  BY <1>1, <1>2, <1>3, <1>4 DEF LiveStep

LEMMA StartTypes ==
  ASSUME TypeOK, StartStep
  PROVE  TypeOK'
<1> USE DEF process, stores, history, Phases
<1>1. CASE Stop
  BY <1>1 DEF Stop, TypeOK, Idle, LiveStages, Outcomes
<1>2. CASE Launch
  <2>1. ingress' \in [Events -> {"none", "pending", "processing"}]
    BY <1>2 DEF Launch, TypeOK, Reset
  <2>2. spent' \in [{"faults", "clears"} -> Nat]
    BY <1>2, FaultType DEF Launch, TypeOK
  <2>3. QED
    BY <1>2, <2>1, <2>2 DEF Launch, TypeOK
<1>3. CASE KeychainLoads
  BY <1>3 DEF KeychainLoads, TypeOK
<1>4. CASE KeychainFails
  BY <1>4, FaultType DEF KeychainFails, TypeOK
<1>5. CASE DrainFails
  BY <1>5, FaultType DEF DrainFails, TypeOK
<1>6. CASE TakeBatch
  <2>1. batch' \subseteq Events /\ ingress' \in [Events -> {"none", "pending", "processing"}]
    BY <1>6 DEF TakeBatch, TypeOK, Pending
  <2>2. QED
    BY <1>6, <2>1 DEF TakeBatch, TypeOK
<1>7. CASE TakeBatchFails
  BY <1>7, FaultType DEF TakeBatchFails, TypeOK
<1>8. CASE Bind
  BY <1>8 DEF Bind, TypeOK
<1>9. CASE BindFails
  BY <1>9, FaultType DEF BindFails, TypeOK
<1>10. QED
  BY <1>1, <1>2, <1>3, <1>4, <1>5, <1>6, <1>7, <1>8, <1>9 DEF StartStep

LEMMA BacklogTypes ==
  ASSUME TypeOK, NEW e \in Events, BacklogStep(e)
  PROVE  TypeOK'
<1> USE DEF process, stores, history
<1>1. CASE DrainFile(e)
  BY <1>1, StoredType DEF DrainFile, TypeOK
<1>2. CASE DrainBreaks(e)
  <2>1. ingress' \in [Events -> {"none", "pending", "processing"}]
    <3>1. ingress \in [Events -> {"none", "pending", "processing"}]
      BY DEF TypeOK
    <3>2. QED
      BY <1>2, <3>1, StoredType DEF DrainBreaks
  <2>2. QED
    BY <1>2, <2>1, FaultType DEF DrainBreaks, TypeOK
<1>3. CASE FileStays(e)
  BY <1>3, FaultType DEF FileStays, TypeOK
<1>4. CASE RecoverRow(e)
  <2>1. PICK d \in Decisions(e) : Record(e, d.outcome, d.ttl)
    BY <1>4 DEF RecoverRow
  <2>2. d.outcome \in Outcomes /\ d.ttl \in Nat
    BY DecisionType
  <2>3. ingress' \in [Events -> {"none", "pending", "processing"}]
    BY <1>4, UnstoredType DEF RecoverRow
  <2>4. QED
    BY <1>4, <2>1, <2>2, <2>3, RecordType DEF RecoverRow, TypeOK
<1>5. CASE SkipRow(e)
  <2>1. spent' \in [{"faults", "clears"} -> Nat]
    BY <1>5, FaultType DEF SkipRow, TypeOK
  <2>2. QED
    BY <1>5, <2>1 DEF SkipRow, TypeOK
<1>6. QED
  BY <1>1, <1>2, <1>3, <1>4, <1>5 DEF BacklogStep

LEMMA DeleteType ==
  ASSUME TypeOK, NEW S, NEW I \in SUBSET Events, Delete(S, I)
  PROVE  /\ row' \in [Events -> Outcomes \cup {"none"}]
         /\ ingress' \in [Events -> {"none", "pending", "processing"}]
         /\ dropped' \subseteq Events
  BY DEF Delete, TypeOK

LEMMA AroundTypes ==
  ASSUME TypeOK, AroundStep
  PROVE  TypeOK'
<1> USE DEF process, stores, history
<1>0. InProcess \in SUBSET Events
  BY DEF InProcess
<1>1. CASE Tick
  BY <1>1 DEF Tick, TypeOK
<1>2. CASE UserClears
  <2>1. job' \in [Events -> [state : {"none", "open", "done"}, created : Nat, expires : Nat]]
    BY <1>2 DEF UserClears, TypeOK, NoJob
  <2>2. cleared' \in [Events -> Nat]
    BY <1>2 DEF UserClears, TypeOK
  <2>3. spent' \in [{"faults", "clears"} -> Nat]
    BY <1>2, SpendType DEF UserClears
  <2>4. QED
    BY <1>0, <1>2, <2>1, <2>2, <2>3, DeleteType DEF UserClears, TypeOK
<1>3. CASE Retain
  <2>1. job' \in [Events -> [state : {"none", "open", "done"}, created : Nat, expires : Nat]]
    BY <1>3 DEF Retain, TypeOK, NoJob
  <2>2. PICK S \in SUBSET Events, I \in SUBSET Events : Delete(S, I)
    BY <1>0, <1>3 DEF Retain
  <2>3. QED
    BY <1>3, <2>1, <2>2, DeleteType DEF Retain, TypeOK
<1>4. CASE \E e \in Events : JobEnds(e)
  <2>1. PICK e \in Events : JobEnds(e)
    BY <1>4
  <2>2. job' \in [Events -> [state : {"none", "open", "done"}, created : Nat, expires : Nat]]
    BY <2>1 DEF JobEnds, TypeOK
  <2>3. QED
    BY <2>1, <2>2 DEF JobEnds, TypeOK
<1>5. QED
  BY <1>1, <1>2, <1>3, <1>4 DEF AroundStep

LEMMA TypesKept ==
  ASSUME TypeOK, RequestComesFirst, [Next]_vars
  PROVE  TypeOK'
<1>1. CASE \E e \in Events : HelperStep(e)
  BY <1>1, HelperStepTypes
<1>2. CASE LiveStep
  BY <1>2, LiveTypes
<1>3. CASE StartStep
  BY <1>3, StartTypes
<1>4. CASE \E e \in Events : BacklogStep(e)
  BY <1>4, BacklogTypes
<1>5. CASE AroundStep
  BY <1>5, AroundTypes
<1>6. CASE UNCHANGED vars
  BY <1>6 DEF vars, process, stores, history, TypeOK
<1>7. QED
  BY <1>1, <1>2, <1>3, <1>4, <1>5, <1>6, NextCases

-----------------------------------------------------------------------------
(* What is in memory *)

LEMMA MemoryKept ==
  ASSUME MemoryOfStage, [Next]_vars
  PROVE  MemoryOfStage'
<1> USE DEF MemoryOfStage, process, stores, history
<1>1. ASSUME NEW e \in Events, HelperStep(e)
      PROVE  MemoryOfStage'
  BY <1>1 DEF HelperStep, InputIncomplete, CaptureRefused, Capture, Ask, GiveUp, FallBack,
              DatabaseBusy, WriteSpool, HelperDies
<1>2. CASE LiveStep
  BY <1>2 DEF LiveStep, Take, Commit, CommitFails, Reply, ReplyAt, Idle
<1>3. CASE StartStep
  BY <1>3 DEF StartStep, Stop, Launch, KeychainLoads, KeychainFails, DrainFails,
              TakeBatch, TakeBatchFails, Bind, BindFails
<1>4. ASSUME NEW e \in Events, BacklogStep(e)
      PROVE  MemoryOfStage'
  BY <1>4 DEF BacklogStep, DrainFile, DrainBreaks, FileStays, RecoverRow, SkipRow
<1>5. CASE AroundStep
  BY <1>5 DEF AroundStep, Tick, UserClears, Retain, JobEnds
<1>6. CASE UNCHANGED vars
  BY <1>6 DEF vars
<1>7. QED
  BY <1>1, <1>2, <1>3, <1>4, <1>5, <1>6, NextCases

\* The step leaves the requests, and every event none was made for, as they are.
RequestsStay ==
  /\ UNCHANGED <<inbox, live>>
  /\ \A e \in Events : Unasked(e)' => Unasked(e)
  /\ \A e \in Events : Unasked(e) /\ NoCopyOf(e) => NoCopyOf(e)'
  /\ \A i \in 1..Len(inbox) : enqueued'[inbox[i]] = enqueued[inbox[i]]
  /\ live.stage = "decided" => enqueued'[live.event] = enqueued[live.event]

LEMMA RequestsStayEnough ==
  ASSUME TypeOK, RequestComesFirst, RequestsStay
  PROVE  RequestComesFirst'
<1>1. \A e \in Events : Unasked(e)' => NoCopyOf(e)'
  BY DEF RequestComesFirst, RequestsStay
<1>2. QED
  BY <1>1, InboxType DEF RequestComesFirst, RequestsStay

\* A helper that has asked stays so.
LEMMA HelperMoves ==
  ASSUME TypeOK, NEW e \in Events, NEW stage, HelperAt(e, stage)
  PROVE  /\ helper'[e] = stage
         /\ \A f \in Events \ {e} : Unasked(f)' = Unasked(f)
  BY DEF HelperAt, Unasked, TypeOK

\* A helper makes its request once, before there is any other copy.
LEMMA RequestsKeptByHelper ==
  ASSUME TypeOK, RequestComesFirst, NEW e \in Events, HelperStep(e)
  PROVE  RequestComesFirst'
<1> USE DEF process, stores, history
<1>1. CASE Ask(e)
  <2>1. Unasked(e) /\ NoCopyOf(e) /\ e # live.event
    <3>1. Unasked(e)
      BY <1>1 DEF Ask, Unasked
    <3>2. QED
      BY <3>1, IngressAssumption DEF RequestComesFirst
  <2>2. ~Unasked(e)' /\ \A f \in Events \ {e} : Unasked(f)' = Unasked(f)
    <3>1. HelperAt(e, "waiting") \/ HelperAt(e, "falling")
      BY <1>1 DEF Ask
    <3>2. QED
      BY <3>1, HelperMoves DEF Unasked
  <2>3. UNCHANGED <<live, todo, batch, spool, ingress, enqueued>>
    BY <1>1 DEF Ask
  <2>4. \A f \in Events : NoCopyOf(f)' = NoCopyOf(f)
    BY <2>3 DEF NoCopyOf
  <2>5. \A i \in 1..Len(inbox) : inbox[i] \in Events /\ inbox[i] # e
    BY <2>1, InboxType DEF RequestComesFirst
  <2>6. CASE inbox' = inbox
    BY <2>2, <2>3, <2>4, <2>5, <2>6 DEF RequestComesFirst
  <2>7. CASE inbox' = Append(inbox, e)
    <3>1. /\ Len(inbox') = Len(inbox) + 1 /\ Len(inbox) \in Nat
          /\ \A i \in 1..Len(inbox) : inbox'[i] = inbox[i]
          /\ inbox'[Len(inbox) + 1] = e
      BY <2>7 DEF TypeOK
    <3>2. \A i, j \in 1..Len(inbox') : inbox'[i] = inbox'[j] => i = j
      BY <2>5, <3>1 DEF RequestComesFirst
    <3>3. \A i \in 1..Len(inbox') :
            /\ helper'[inbox'[i]] \notin {"none", "asking"}
            /\ enqueued[inbox'[i]] = 0 /\ inbox'[i] # live.event
      <4> TAKE i \in 1..Len(inbox')
      <4>1. CASE i = Len(inbox) + 1
        BY <2>1, <2>2, <3>1, <4>1 DEF Unasked, NoCopyOf
      <4>2. CASE i \in 1..Len(inbox)
        BY <2>2, <2>5, <3>1, <4>2 DEF RequestComesFirst, Unasked
      <4>3. QED
        BY <3>1, <4>1, <4>2
    <3>4. IF live.stage = "idle" THEN live.event = NoEvent
          ELSE live.event \in Events /\ helper'[live.event] \notin {"none", "asking"}
      BY <2>1, <2>2 DEF RequestComesFirst, Unasked
    <3>5. QED
      BY <2>2, <2>3, <2>4, <3>2, <3>3, <3>4 DEF RequestComesFirst, Unasked
  <2>8. QED
    BY <1>1, <2>6, <2>7 DEF Ask
<1>2. ASSUME ~Ask(e)
      PROVE  RequestsStay
  <2>1. UNCHANGED <<inbox, live, todo, batch, enqueued>>
    BY <1>2 DEF HelperStep, InputIncomplete, CaptureRefused, Capture, GiveUp, FallBack,
                DatabaseBusy, WriteSpool, HelperDies
  <2>2. Unasked(e)' => Unasked(e)
    BY <1>2, HelperMoves DEF HelperStep, InputIncomplete, CaptureRefused, Capture, GiveUp,
       FallBack, DatabaseBusy, WriteSpool, HelperDies, Unasked
  <2>3. \A f \in Events \ {e} : Unasked(f)' = Unasked(f)
    BY <1>2, HelperMoves DEF HelperStep, InputIncomplete, CaptureRefused, Capture, GiveUp,
       FallBack, DatabaseBusy, WriteSpool, HelperDies
  <2>4. Unasked(e) => UNCHANGED <<ingress, spool>>
    BY <1>2 DEF HelperStep, InputIncomplete, CaptureRefused, Capture, GiveUp, FallBack,
                DatabaseBusy, WriteSpool, HelperDies, Unasked
  <2>5. \A f \in Events \ {e} : ingress'[f] = ingress[f] /\ spool'[f] = spool[f]
    <3>1. ingress' = Stored(e) \/ UNCHANGED ingress
      BY <1>2 DEF HelperStep, InputIncomplete, CaptureRefused, Capture, GiveUp, FallBack,
                  DatabaseBusy, WriteSpool, HelperDies
    <3>2. spool' = [spool EXCEPT ![e] = "json"] \/ UNCHANGED spool
      BY <1>2 DEF HelperStep, InputIncomplete, CaptureRefused, Capture, GiveUp, FallBack,
                  DatabaseBusy, WriteSpool, HelperDies
    <3>3. spool \in [Events -> {"none", "json", "processing"}]
      BY DEF TypeOK
    <3>4. QED
      BY <3>1, <3>2, <3>3, StoredType
  <2>6. QED
    BY <2>1, <2>2, <2>3, <2>4, <2>5 DEF RequestsStay, NoCopyOf
<1>3. QED
  BY <1>1, <1>2, RequestsStayEnough

LEMMA RequestsKeptLive ==
  ASSUME TypeOK, MemoryOfStage, RequestComesFirst, LiveStep
  PROVE  RequestComesFirst'
<1> USE DEF process, stores, history
<1>1. CASE Take
  <2> DEFINE e == Head(inbox)
  <2>1. /\ e = inbox[1] /\ 1 \in 1..Len(inbox)
        /\ Len(inbox) \in Nat /\ Len(inbox') = Len(inbox) - 1
        /\ \A i \in 1..Len(inbox') :
             i + 1 \in 1..Len(inbox) /\ i + 1 # 1 /\ inbox'[i] = inbox[i + 1]
    BY <1>1, InboxType, TailShifts DEF Take
  <2>2. e \in Events /\ ~Unasked(e) /\ enqueued[e] = 0
    BY <2>1, InboxType DEF RequestComesFirst
  <2>3. /\ live'.event = e /\ live'.stage \in {"decided", "rejected"}
        /\ live'.stage = "decided" => live'.ttl \in TTLs
    <3>1. \/ \E d \in Decisions(e) :
               live' = [event |-> e, stage |-> "decided", outcome |-> d.outcome, ttl |-> d.ttl]
          \/ live' = [Idle EXCEPT !.event = e, !.stage = "rejected"]
      BY <1>1 DEF Take
    <3>2. CASE live' = [Idle EXCEPT !.event = e, !.stage = "rejected"]
      BY <3>2 DEF Idle
    <3>3. CASE \E d \in Decisions(e) :
                 live' = [event |-> e, stage |-> "decided", outcome |-> d.outcome, ttl |-> d.ttl]
      BY <3>3, DecisionType
    <3>4. QED
      BY <3>1, <3>2, <3>3
  <2>4. UNCHANGED <<helper, todo, batch, spool, ingress, enqueued>>
    BY <1>1 DEF Take
  <2>5. \A f \in Events : Unasked(f)' = Unasked(f) /\ NoCopyOf(f)' = NoCopyOf(f)
    BY <2>4 DEF Unasked, NoCopyOf
  <2>6. \A i, j \in 1..Len(inbox') : inbox'[i] = inbox'[j] => i = j
    <3> TAKE i \in 1..Len(inbox'), j \in 1..Len(inbox')
    <3>1. inbox[i + 1] = inbox[j + 1] => i + 1 = j + 1
      BY <2>1 DEF RequestComesFirst
    <3>2. QED
      BY <2>1, <3>1
  <2>7. \A i \in 1..Len(inbox') :
          /\ helper[inbox'[i]] \notin {"none", "asking"}
          /\ enqueued[inbox'[i]] = 0 /\ inbox'[i] # e
    BY <2>1 DEF RequestComesFirst, Unasked
  <2>8. QED
    BY <2>2, <2>3, <2>4, <2>5, <2>6, <2>7 DEF RequestComesFirst, Unasked
<1>2. CASE Commit
  <2>1. live.stage = "decided" /\ live'.stage = "accepted" /\ live'.event = live.event
    BY <1>2 DEF Commit, TypeOK
  <2>2. live.event \in Events /\ ~Unasked(live.event)
    BY <2>1 DEF RequestComesFirst
  <2>3. UNCHANGED <<helper, inbox, todo, batch, spool, ingress>>
    BY <1>2 DEF Commit
  <2>4. \A f \in Events \ {live.event} : enqueued'[f] = enqueued[f]
    BY <1>2, <2>2 DEF Commit, Record, TypeOK
  <2>5. \A f \in Events : Unasked(f)' => NoCopyOf(f)'
    BY <2>2, <2>3, <2>4 DEF RequestComesFirst, Unasked, NoCopyOf
  <2>6. \A i \in 1..Len(inbox) :
          /\ helper[inbox[i]] \notin {"none", "asking"}
          /\ enqueued'[inbox[i]] = 0 /\ inbox[i] # live.event
    BY <2>4, InboxType DEF RequestComesFirst, Unasked
  <2>7. QED
    BY <2>1, <2>2, <2>3, <2>5, <2>6 DEF RequestComesFirst, Unasked
<1>3. CASE CommitFails
  <2>1. live.stage = "decided" /\ live'.stage = "rejected" /\ live'.event = live.event
    BY <1>3 DEF CommitFails, TypeOK
  <2>2. UNCHANGED <<helper, inbox, todo, batch, spool, ingress, enqueued>>
    BY <1>3 DEF CommitFails
  <2>3. \A f \in Events : Unasked(f)' = Unasked(f) /\ NoCopyOf(f)' = NoCopyOf(f)
    BY <2>2 DEF Unasked, NoCopyOf
  <2>4. QED
    BY <2>1, <2>2, <2>3 DEF RequestComesFirst, Unasked
<1>4. CASE Reply
  <2>1. live' = Idle /\ UNCHANGED <<inbox, todo, batch, spool, ingress, enqueued>>
    BY <1>4 DEF Reply, ReplyAt
  <2>2. \A f \in Events : helper[f] \notin {"none", "asking"} => helper'[f] \notin {"none", "asking"}
    <3>1. helper' = helper \/ HelperAt(live.event, "falling") \/ HelperAt(live.event, "done")
      BY <1>4 DEF Reply, ReplyAt
    <3>2. QED
      BY <3>1 DEF HelperAt, TypeOK
  <2>3. \A f \in Events : Unasked(f)' => NoCopyOf(f)'
    BY <2>1, <2>2 DEF RequestComesFirst, Unasked, NoCopyOf
  <2>4. \A i \in 1..Len(inbox) : inbox[i] \in Events /\ inbox[i] # NoEvent
    BY IngressAssumption, InboxType
  <2>5. QED
    BY <2>1, <2>2, <2>3, <2>4 DEF RequestComesFirst, Unasked, Idle
<1>5. QED
  BY <1>1, <1>2, <1>3, <1>4 DEF LiveStep

LEMMA RequestsKeptByStart ==
  ASSUME TypeOK, RequestComesFirst, StartStep
  PROVE  RequestComesFirst'
<1> USE DEF process, stores, history
<1>1. CASE Stop
  <2>1. /\ inbox' = <<>> /\ live' = Idle /\ todo' = {} /\ batch' = {}
        /\ UNCHANGED <<helper, spool, ingress, enqueued>>
    BY <1>1 DEF Stop
  <2>2. QED
    BY <2>1 DEF RequestComesFirst, Unasked, NoCopyOf, Idle
<1>2. ASSUME ~Stop
      PROVE  RequestsStay
  <2>1. UNCHANGED <<helper, inbox, live, spool, enqueued>>
    BY <1>2 DEF StartStep, Launch, KeychainLoads, KeychainFails, DrainFails,
                TakeBatch, TakeBatchFails, Bind, BindFails
  <2>2. \A f \in Events : ingress[f] = "none" => ingress'[f] = "none"
    BY <1>2 DEF StartStep, Launch, KeychainLoads, KeychainFails, DrainFails,
                TakeBatch, TakeBatchFails, Bind, BindFails, Reset, Pending
  <2>3. \A f \in Events : spool[f] = "none" /\ f \notin todo => f \notin todo'
    BY <1>2 DEF StartStep, Launch, KeychainLoads, KeychainFails, DrainFails,
                TakeBatch, TakeBatchFails, Bind, BindFails
  <2>4. \A f \in Events : ingress[f] = "none" /\ f \notin batch => f \notin batch'
    BY <1>2 DEF StartStep, Launch, KeychainLoads, KeychainFails, DrainFails,
                TakeBatch, TakeBatchFails, Bind, BindFails, Pending
  <2>5. QED
    BY <2>1, <2>2, <2>3, <2>4 DEF RequestsStay, NoCopyOf, Unasked
<1>3. QED
  BY <1>1, <1>2, RequestsStayEnough

LEMMA RequestsKeptByBacklog ==
  ASSUME TypeOK, MemoryOfStage, RequestComesFirst, NEW e \in Events, BacklogStep(e)
  PROVE  RequestComesFirst'
<1> USE DEF process, stores, history
<1>1. UNCHANGED <<helper, inbox, live>> /\ ~NoCopyOf(e)
  BY DEF BacklogStep, DrainFile, DrainBreaks, FileStays, RecoverRow, SkipRow, NoCopyOf
<1>2. todo' \subseteq todo /\ batch' \subseteq batch
  BY DEF BacklogStep, DrainFile, DrainBreaks, FileStays, RecoverRow, SkipRow
<1>3. \A f \in Events \ {e} : ingress'[f] = ingress[f]
  <2>1. ingress' \in {ingress, Stored(e), Unstored(e)}
    BY DEF BacklogStep, DrainFile, DrainBreaks, FileStays, RecoverRow, SkipRow
  <2>2. QED
    BY <2>1, StoredType, UnstoredType
<1>4. \A f \in Events \ {e} : spool'[f] = spool[f]
  <2>1. \/ UNCHANGED spool
        \/ spool' = [spool EXCEPT ![e] = "none"] \/ spool' = [spool EXCEPT ![e] = "processing"]
    BY DEF BacklogStep, DrainFile, DrainBreaks, FileStays, RecoverRow, SkipRow
  <2>2. QED
    BY <2>1 DEF TypeOK
<1>5. CASE RecoverRow(e)
  <2>1. inbox = <<>> /\ live.stage = "idle"
    BY <1>5 DEF RecoverRow, MemoryOfStage, Idle
  <2>2. \A f \in Events \ {e} : enqueued'[f] = enqueued[f]
    BY <1>5 DEF RecoverRow, Record, TypeOK
  <2>3. RequestsStay
    BY <1>1, <1>2, <1>3, <1>4, <2>1, <2>2 DEF RequestsStay, Unasked, NoCopyOf
  <2>4. QED
    BY <2>3, RequestsStayEnough
<1>6. CASE ~RecoverRow(e)
  <2>1. UNCHANGED enqueued
    BY <1>6 DEF BacklogStep, DrainFile, DrainBreaks, FileStays, SkipRow
  <2>2. RequestsStay
    BY <1>1, <1>2, <1>3, <1>4, <2>1 DEF RequestsStay, Unasked, NoCopyOf
  <2>3. QED
    BY <2>2, RequestsStayEnough
<1>7. QED
  BY <1>5, <1>6

LEMMA RequestsKept ==
  ASSUME TypeOK, MemoryOfStage, RequestComesFirst, [Next]_vars
  PROVE  RequestComesFirst'
<1>1. CASE AroundStep
  <2>1. UNCHANGED <<helper, inbox, live, todo, batch, spool, enqueued>>
    BY <1>1 DEF AroundStep, Tick, UserClears, Retain, JobEnds, process, stores, history
  <2>2. \A f \in Events : ingress[f] = "none" => ingress'[f] = "none"
    BY <1>1 DEF AroundStep, Tick, UserClears, Retain, JobEnds, Delete, process, stores, history
  <2>3. RequestsStay
    BY <2>1, <2>2 DEF RequestsStay, Unasked, NoCopyOf
  <2>4. QED
    BY <2>3, RequestsStayEnough
<1>2. CASE UNCHANGED vars
  <2>1. RequestsStay
    BY <1>2 DEF vars, process, stores, history, RequestsStay, Unasked, NoCopyOf
  <2>2. QED
    BY <2>1, RequestsStayEnough
<1>3. QED
  BY <1>1, <1>2, NextCases, RequestsKeptByHelper, RequestsKeptLive, RequestsKeptByStart,
     RequestsKeptByBacklog

-----------------------------------------------------------------------------
(* Custody *)

\* The transaction handles the event, unless it was handled before.
LEMMA RecordHandles ==
  ASSUME TypeOK, RecordedIsHandled, NEW e \in Events, NEW outcome, NEW ttl,
         Record(e, outcome, ttl)
  PROVE  /\ e \in handled' /\ handled \subseteq handled'
         /\ \A f \in Events : Seen(f)' => f \in handled'
<1>1. CASE Seen(e)
  BY <1>1 DEF Record, Seen, RecordedIsHandled
<1>2. CASE ~Seen(e)
  BY <1>2 DEF Record, EventStored, Seen, RecordedIsHandled, TypeOK
<1>3. QED
  BY <1>1, <1>2

LEMMA DeleteDrops ==
  ASSUME TypeOK, NEW S, NEW I \in SUBSET Events, Delete(S, I)
  PROVE  /\ \A f \in Events : Seen(f)' => Seen(f)
         /\ dropped \subseteq dropped'
         /\ \A f \in Events : ingress[f] = ingress'[f] \/ f \in handled \cup dropped'
  BY DEF Delete, Seen

LEMMA HandledKept ==
  ASSUME TypeOK, RequestComesFirst, RecordedIsHandled, [Next]_vars
  PROVE  RecordedIsHandled'
<1> USE DEF process, stores, history
<1>1. ASSUME NEW e \in Events, HelperStep(e)
      PROVE  RecordedIsHandled'
  <2>1. UNCHANGED <<row, handled, live>>
    BY <1>1 DEF HelperStep, InputIncomplete, CaptureRefused, Capture, Ask, GiveUp, FallBack,
                DatabaseBusy, WriteSpool, HelperDies
  <2>2. QED
    BY <2>1 DEF RecordedIsHandled, Seen
<1>2. CASE Commit
  <2>1. live.event \in Events /\ live'.event = live.event
    BY <1>2 DEF Commit, RequestComesFirst, TypeOK
  <2>2. Record(live.event, live.outcome, live.ttl)
    BY <1>2 DEF Commit
  <2>3. QED
    BY <2>1, <2>2, RecordHandles DEF RecordedIsHandled
<1>3. CASE Take \/ CommitFails \/ Reply
  <2>1. UNCHANGED <<row, handled>>
    BY <1>3 DEF Take, CommitFails, Reply, ReplyAt
  <2>2. live'.stage # "accepted"
    <3>1. CASE Take
      <4>1. \/ \E d \in Decisions(Head(inbox)) :
                 live' = [event |-> Head(inbox), stage |-> "decided", outcome |-> d.outcome,
                          ttl |-> d.ttl]
            \/ live' = [Idle EXCEPT !.event = Head(inbox), !.stage = "rejected"]
        BY <3>1 DEF Take
      <4>2. CASE live' = [Idle EXCEPT !.event = Head(inbox), !.stage = "rejected"]
        BY <4>2 DEF Idle
      <4>3. CASE \E d \in Decisions(Head(inbox)) :
                   live' = [event |-> Head(inbox), stage |-> "decided", outcome |-> d.outcome,
                            ttl |-> d.ttl]
        BY <4>3
      <4>4. QED
        BY <4>1, <4>2, <4>3
    <3>2. CASE CommitFails
      BY <3>2 DEF CommitFails, TypeOK
    <3>3. CASE Reply
      BY <3>3 DEF Reply, ReplyAt, Idle
    <3>4. QED
      BY <1>3, <3>1, <3>2, <3>3
  <2>3. QED
    BY <2>1, <2>2 DEF RecordedIsHandled, Seen
<1>4. CASE StartStep
  <2>1. UNCHANGED <<row, handled>> /\ live' \in {live, Idle}
    BY <1>4 DEF StartStep, Stop, Launch, KeychainLoads, KeychainFails, DrainFails,
                TakeBatch, TakeBatchFails, Bind, BindFails
  <2>2. QED
    BY <2>1 DEF RecordedIsHandled, Seen, Idle
<1>5. ASSUME NEW e \in Events, RecoverRow(e)
      PROVE  RecordedIsHandled'
  <2>1. PICK d \in Decisions(e) : Record(e, d.outcome, d.ttl)
    BY <1>5 DEF RecoverRow
  <2>2. UNCHANGED live
    BY <1>5 DEF RecoverRow
  <2>3. QED
    BY <2>1, <2>2, RecordHandles DEF RecordedIsHandled
<1>6. ASSUME NEW e \in Events, BacklogStep(e), ~RecoverRow(e)
      PROVE  RecordedIsHandled'
  BY <1>6 DEF BacklogStep, DrainFile, DrainBreaks, FileStays, SkipRow, RecordedIsHandled, Seen
<1>7. CASE AroundStep
  <2>1. UNCHANGED <<live, handled>>
    BY <1>7 DEF AroundStep, Tick, UserClears, Retain, JobEnds
  <2>2. \A f \in Events : Seen(f)' => Seen(f)
    BY <1>7 DEF AroundStep, Tick, UserClears, Retain, JobEnds, Delete, Seen
  <2>3. QED
    BY <2>1, <2>2 DEF RecordedIsHandled
<1>8. CASE UNCHANGED vars
  BY <1>8 DEF vars, RecordedIsHandled, Seen
<1>9. QED
  BY <1>1, <1>2, <1>3, <1>4, <1>5, <1>6, <1>7, <1>8, NextCases DEF LiveStep

\* What keeps an event in custody when its helper was done before.
LEMMA CustodyStays ==
  ASSUME Custody, handled \subseteq handled', dropped \subseteq dropped',
         \A f \in Events : helper'[f] = "done" =>
           \/ helper[f] = "done" \/ f \in handled' \/ ingress'[f] # "none" \/ spool'[f] # "none",
         \A f \in Events : ingress[f] # "none" \/ spool[f] # "none" =>
           f \in handled' \cup dropped' \/ ingress'[f] # "none" \/ spool'[f] # "none"
  PROVE  Custody'
  BY DEF Custody

LEMMA CustodyKeptByHelper ==
  ASSUME TypeOK, Custody, NEW e \in Events, HelperStep(e)
  PROVE  Custody'
<1> USE DEF process, stores, history
<1>1. UNCHANGED <<handled, dropped>>
  BY DEF HelperStep, InputIncomplete, CaptureRefused, Capture, Ask, GiveUp, FallBack,
         DatabaseBusy, WriteSpool, HelperDies
<1>2. \A f \in Events : ingress[f] # "none" => ingress'[f] # "none"
  <2>1. ingress' = Stored(e) \/ UNCHANGED ingress
    BY DEF HelperStep, InputIncomplete, CaptureRefused, Capture, Ask, GiveUp, FallBack,
           DatabaseBusy, WriteSpool, HelperDies
  <2>2. QED
    BY <2>1, StoredType
<1>3. \A f \in Events : spool[f] # "none" => spool'[f] # "none"
  <2>1. spool' = [spool EXCEPT ![e] = "json"] \/ UNCHANGED spool
    BY DEF HelperStep, InputIncomplete, CaptureRefused, Capture, Ask, GiveUp, FallBack,
           DatabaseBusy, WriteSpool, HelperDies
  <2>2. spool \in [Events -> {"none", "json", "processing"}]
    BY DEF TypeOK
  <2>3. QED
    BY <2>1, <2>2
<1>4. \A f \in Events \ {e} : helper'[f] = helper[f]
  <2>1. PICK stage : HelperAt(e, stage)
    BY DEF HelperStep, InputIncomplete, CaptureRefused, Capture, Ask, GiveUp, FallBack,
           DatabaseBusy, WriteSpool, HelperDies
  <2>2. QED
    BY <2>1 DEF HelperAt, TypeOK
<1>5. helper'[e] = "done" => ingress'[e] # "none" \/ spool'[e] # "none"
  <2>1. CASE FallBack(e)
    BY <2>1, StoredType DEF FallBack
  <2>2. CASE WriteSpool(e)
    BY <2>2 DEF WriteSpool, HelperAt, TypeOK
  <2>3. CASE ~FallBack(e) /\ ~WriteSpool(e)
    BY <2>3, HelperMoves DEF HelperStep, InputIncomplete, CaptureRefused, Capture, Ask, GiveUp,
       DatabaseBusy, HelperDies
  <2>4. QED
    BY <2>1, <2>2, <2>3
<1>6. QED
  BY <1>1, <1>2, <1>3, <1>4, <1>5, CustodyStays

\* The reply follows the commit; the file goes after the row is there, the row
\* with the commit.
LEMMA CustodyKept ==
  ASSUME TypeOK, RequestComesFirst, RecordedIsHandled, Custody, [Next]_vars
  PROVE  Custody'
<1> USE DEF process, stores, history
<1>1. CASE Commit
  <2>1. live.event \in Events /\ Record(live.event, live.outcome, live.ttl)
    BY <1>1 DEF Commit, RequestComesFirst
  <2>2. handled \subseteq handled' /\ UNCHANGED <<helper, spool, ingress, dropped>>
    BY <1>1, <2>1, RecordHandles DEF Commit
  <2>3. QED
    BY <2>2, CustodyStays
<1>2. CASE Reply
  <2>1. UNCHANGED <<spool, ingress, handled, dropped>>
    BY <1>2 DEF Reply, ReplyAt
  <2>2. live.stage \in {"accepted", "rejected"} /\ live.event \in Events
    BY <1>2 DEF Reply, ReplyAt, RequestComesFirst
  <2>3. CASE UNCHANGED helper
    BY <2>1, <2>3, CustodyStays
  <2>4. CASE live.stage = "accepted" /\ HelperAt(live.event, "done")
    <3>1. live.event \in handled
      BY <2>4 DEF RecordedIsHandled
    <3>2. \A f \in Events \ {live.event} : helper'[f] = helper[f]
      BY <2>4 DEF HelperAt, TypeOK
    <3>3. QED
      BY <2>1, <3>1, <3>2, CustodyStays
  <2>5. CASE HelperAt(live.event, "falling")
    <3>1. \A f \in Events : helper'[f] = "done" => helper[f] = "done"
      BY <2>5 DEF HelperAt, TypeOK
    <3>2. QED
      BY <2>1, <3>1, CustodyStays
  <2>6. QED
    BY <1>2, <2>2, <2>3, <2>4, <2>5 DEF Reply, ReplyAt
<1>3. CASE Take \/ CommitFails
  BY <1>3, CustodyStays DEF Take, CommitFails
<1>4. CASE StartStep
  <2>1. UNCHANGED <<helper, spool, handled, dropped>>
    BY <1>4 DEF StartStep, Stop, Launch, KeychainLoads, KeychainFails, DrainFails,
                TakeBatch, TakeBatchFails, Bind, BindFails
  <2>2. \A f \in Events : ingress[f] # "none" => ingress'[f] # "none"
    BY <1>4 DEF StartStep, Stop, Launch, KeychainLoads, KeychainFails, DrainFails,
                TakeBatch, TakeBatchFails, Bind, BindFails, Reset
  <2>3. QED
    BY <2>1, <2>2, CustodyStays
<1>5. ASSUME NEW e \in Events, BacklogStep(e)
      PROVE  Custody'
  <2>1. UNCHANGED <<helper, dropped>>
    BY <1>5 DEF BacklogStep, DrainFile, DrainBreaks, FileStays, RecoverRow, SkipRow
  <2>2. CASE RecoverRow(e)
    <3>1. e \in handled' /\ handled \subseteq handled'
      BY <2>2, RecordHandles DEF RecoverRow
    <3>2. /\ UNCHANGED spool
          /\ \A f \in Events \ {e} : ingress'[f] = ingress[f]
      BY <2>2, UnstoredType DEF RecoverRow
    <3>3. QED
      BY <2>1, <3>1, <3>2, CustodyStays
  <2>3. CASE DrainFile(e)
    <3>1. ingress'[e] # "none" /\ \A f \in Events \ {e} : ingress'[f] = ingress[f]
      BY <2>3, StoredType DEF DrainFile
    <3>2. \A f \in Events \ {e} : spool'[f] = spool[f]
      BY <2>3 DEF DrainFile, TypeOK
    <3>3. UNCHANGED handled
      BY <2>3 DEF DrainFile
    <3>4. QED
      BY <2>1, <3>1, <3>2, <3>3, CustodyStays
  <2>4. CASE DrainBreaks(e)
    <3>1. \A f \in Events : ingress[f] # "none" => ingress'[f] # "none"
      BY <2>4, StoredType DEF DrainBreaks
    <3>2. \A f \in Events : spool[f] # "none" => spool'[f] # "none"
      BY <2>4 DEF DrainBreaks, TypeOK
    <3>3. UNCHANGED handled
      BY <2>4 DEF DrainBreaks
    <3>4. QED
      BY <2>1, <3>1, <3>2, <3>3, CustodyStays
  <2>5. CASE FileStays(e) \/ SkipRow(e)
    BY <2>1, <2>5, CustodyStays DEF FileStays, SkipRow
  <2>6. QED
    BY <1>5, <2>2, <2>3, <2>4, <2>5 DEF BacklogStep
<1>6. CASE UserClears \/ Retain
  <2>1. PICK S, I \in SUBSET Events : Delete(S, I)
    <3>1. InProcess \in SUBSET Events /\ Clearable \in SUBSET Events
      BY DEF InProcess, Clearable
    <3>2. QED
      BY <1>6, <3>1 DEF UserClears, Retain
  <2>2. UNCHANGED <<helper, spool, handled>>
    BY <1>6 DEF UserClears, Retain
  <2>3. QED
    BY <2>1, <2>2, DeleteDrops, CustodyStays
<1>7. CASE Tick \/ (\E e \in Events : JobEnds(e)) \/ UNCHANGED vars
  BY <1>7, CustodyStays DEF Tick, JobEnds, vars
<1>8. QED
  BY <1>1, <1>2, <1>3, <1>4, <1>5, <1>6, <1>7, NextCases, CustodyKeptByHelper
     DEF LiveStep, AroundStep

-----------------------------------------------------------------------------
(* Jobs and their events *)

\* The transaction records no event twice, and a job only with its event.
LEMMA RecordKeepsJobs ==
  ASSUME TypeOK, JobKeepsEvent, NEW e \in Events, NEW outcome, NEW ttl, Record(e, outcome, ttl)
  PROVE  JobKeepsEvent'
<1>1. CASE Seen(e)
  BY <1>1 DEF Record, JobKeepsEvent
<1>2. CASE ~Seen(e)
  <2>1. \A f \in Events \ {e} : row'[f] = row[f] /\ job'[f] = job[f]
    BY <1>2 DEF Record, EventStored, TypeOK
  <2>2. row'[e] = outcome
    BY <1>2 DEF Record, EventStored, TypeOK
  <2>3. outcome # "queued" => job'[e] = job[e]
    BY <1>2 DEF Record
  <2>4. job[e].state = "none"
    BY <1>2 DEF Seen, JobKeepsEvent
  <2>5. QED
    BY <2>1, <2>2, <2>3, <2>4 DEF JobKeepsEvent
<1>3. QED
  BY <1>1, <1>2

LEMMA JobsKept ==
  ASSUME TypeOK, RequestComesFirst, JobKeepsEvent, [Next]_vars
  PROVE  JobKeepsEvent'
<1> USE DEF process, stores, history
<1>1. CASE Commit
  <2>1. live.event \in Events /\ Record(live.event, live.outcome, live.ttl)
    BY <1>1 DEF Commit, RequestComesFirst
  <2>2. QED
    BY <2>1, RecordKeepsJobs
<1>2. ASSUME NEW e \in Events, RecoverRow(e)
      PROVE  JobKeepsEvent'
  BY <1>2, RecordKeepsJobs DEF RecoverRow
<1>3. ASSUME NEW e \in Events, JobEnds(e)
      PROVE  JobKeepsEvent'
  <2>1. UNCHANGED row /\ \A f \in Events : job'[f].state # "none" => job[f].state # "none"
    BY <1>3 DEF JobEnds, TypeOK
  <2>2. QED
    BY <2>1 DEF JobKeepsEvent
<1>4. CASE UserClears
  <2>1. \A f \in Events : job'[f].state # "none" => job[f].state = "open" /\ row'[f] = row[f]
    BY <1>4 DEF UserClears, Delete, Clearable, NoJob, TypeOK
  <2>2. QED
    BY <2>1 DEF JobKeepsEvent
<1>5. CASE Retain
  <2>1. \A f \in Events : job'[f].state # "none" => job[f].state # "none" /\ row'[f] = row[f]
    BY <1>5 DEF Retain, Delete, NoJob
  <2>2. QED
    BY <2>1 DEF JobKeepsEvent
<1>6. CASE UNCHANGED <<row, job>>
  BY <1>6 DEF JobKeepsEvent
<1>7. ASSUME NEW e \in Events, HelperStep(e)
      PROVE  UNCHANGED <<row, job>>
  BY <1>7 DEF HelperStep, InputIncomplete, CaptureRefused, Capture, Ask, GiveUp, FallBack,
              DatabaseBusy, WriteSpool, HelperDies
<1>8. StartStep => UNCHANGED <<row, job>>
  BY DEF StartStep, Stop, Launch, KeychainLoads, KeychainFails, DrainFails,
         TakeBatch, TakeBatchFails, Bind, BindFails
<1>9. ASSUME NEW e \in Events, BacklogStep(e), ~RecoverRow(e)
      PROVE  UNCHANGED <<row, job>>
  BY <1>9 DEF BacklogStep, DrainFile, DrainBreaks, FileStays, SkipRow
<1>10. Take \/ CommitFails \/ Reply \/ Tick \/ UNCHANGED vars => UNCHANGED <<row, job>>
  BY DEF Take, CommitFails, Reply, ReplyAt, Tick, vars
<1>11. QED
  BY <1>1, <1>2, <1>3, <1>4, <1>5, <1>6, <1>7, <1>8, <1>9, <1>10, NextCases
     DEF LiveStep, AroundStep

-----------------------------------------------------------------------------
(* One notification *)

\* A step that queues nothing, forgets nothing it may not, and turns back no clock.
LEMMA QueuedStays ==
  ASSUME TypeOK, QueuedOrPast, UNCHANGED enqueued, now' \in Nat, now <= now',
         \A f \in Events :
           /\ cleared'[f] = cleared[f] \/ cleared'[f] = cleared[f] + 1
           /\ occurred'[f] = occurred[f] \/ enqueued[f] <= cleared[f]
           /\ row[f] = "queued" =>
                row'[f] = "queued" \/ cleared'[f] = cleared[f] + 1 \/ Past(occurred[f])
  PROVE  QueuedOrPast'
<1> SUFFICES ASSUME NEW f \in Events
             PROVE  \/ enqueued[f] <= cleared'[f]
                    \/ /\ enqueued[f] = cleared'[f] + 1
                       /\ row'[f] = "queued" \/ occurred'[f] + RetentionAge < now'
  BY DEF QueuedOrPast, Past
<1>1. /\ enqueued[f] \in Nat /\ cleared[f] \in Nat /\ occurred[f] \in Nat /\ now \in Nat
      /\ RetentionAge \in Nat
  BY IngressAssumption DEF TypeOK
<1>2. CASE enqueued[f] <= cleared[f]
  BY <1>1, <1>2
<1>3. CASE enqueued[f] = cleared[f] + 1 /\ (row[f] = "queued" \/ Past(occurred[f]))
  <2>1. occurred'[f] = occurred[f]
    BY <1>1, <1>3
  <2>2. CASE cleared'[f] = cleared[f] + 1
    BY <1>1, <1>3, <2>2
  <2>3. CASE cleared'[f] = cleared[f]
    BY <1>1, <1>3, <2>1, <2>3 DEF Past
  <2>4. QED
    BY <2>2, <2>3
<1>4. QED
  BY <1>2, <1>3 DEF QueuedOrPast

\* Queueing counts against what was cleared, or comes first.
LEMMA RecordQueues ==
  ASSUME TypeOK, QueuedOrPast, NEW e \in Events, NEW outcome \in Outcomes, NEW ttl,
         Record(e, outcome, ttl), UNCHANGED <<now, occurred, cleared>>,
         outcome = "queued" => enqueued[e] = 0 \/ ~Past(occurred[e])
  PROVE  QueuedOrPast'
<1>1. CASE Seen(e)
  <2>1. UNCHANGED <<row, enqueued>>
    BY <1>1 DEF Record
  <2>2. \A f \in Events : enqueued'[f] = enqueued[f] /\ cleared'[f] = cleared[f]
    BY <2>1
  <2>3. \A f \in Events : row'[f] = row[f] /\ occurred'[f] = occurred[f]
    BY <2>1
  <2>4. UNCHANGED enqueued /\ now' \in Nat /\ now <= now'
    BY <2>1 DEF TypeOK
  <2> QED
    BY <2>2, <2>3, <2>4, QueuedStays
<1>2. CASE ~Seen(e)
  <2>1. \A f \in Events \ {e} : row'[f] = row[f] /\ enqueued'[f] = enqueued[f]
    BY <1>2 DEF Record, EventStored, TypeOK
  <2>2. row'[e] = outcome /\ row[e] = "none"
    BY <1>2 DEF Record, EventStored, Seen, TypeOK
  <2>3. CASE outcome # "queued"
    <3>1. UNCHANGED enqueued
      BY <1>2, <2>3 DEF Record
    <3>2. QED
      BY <2>1, <2>2, <3>1 DEF QueuedOrPast, Past
  <2>4. CASE outcome = "queued"
    <3>1. enqueued'[e] = enqueued[e] + 1
      BY <1>2, <2>4 DEF Record, TypeOK
    <3>2. enqueued[e] \in Nat /\ cleared[e] \in Nat
      BY DEF TypeOK
    <3>3. enqueued[e] <= cleared[e]
      BY <2>2, <2>4, <3>2 DEF QueuedOrPast
    <3>4. enqueued'[e] <= cleared[e] \/ enqueued'[e] = cleared[e] + 1
      BY <3>1, <3>2, <3>3
    <3>5. QED
      BY <2>1, <2>2, <2>4, <3>4 DEF QueuedOrPast, Past
  <2>5. QED
    BY <2>3, <2>4
<1>3. QED
  BY <1>1, <1>2

\* An event past the retention age is past every time to live.
LEMMA QueuedOnlyInTime ==
  ASSUME TypeOK, NEW e \in Events, NEW d \in Decisions(e), d.outcome = "queued"
  PROVE  ~Past(occurred[e])
<1>1. d.ttl \in Nat /\ d.ttl <= RetentionAge /\ RetentionAge \in Nat
  BY DecisionType, IngressAssumption
<1>2. now \in Nat /\ occurred[e] \in Nat
  BY DEF TypeOK
<1>3. ~(now - occurred[e] >= d.ttl)
  BY DEF Decisions, Verdict
<1>4. QED
  BY <1>1, <1>2, <1>3 DEF Past

LEMMA QueuedKept ==
  ASSUME TypeOK, RequestComesFirst, QueuedOrPast, [Next]_vars
  PROVE  QueuedOrPast'
<1> USE DEF process, stores, history
<1>0. now \in Nat /\ now <= now
  BY DEF TypeOK
<1>1. CASE Commit
  <2>1. /\ live.event \in Events /\ live.outcome \in Outcomes /\ enqueued[live.event] = 0
        /\ Record(live.event, live.outcome, live.ttl)
    BY <1>1 DEF Commit, RequestComesFirst, TypeOK
  <2>2. UNCHANGED <<now, occurred, cleared>>
    BY <1>1 DEF Commit
  <2>3. QED
    BY <2>1, <2>2, RecordQueues
<1>2. ASSUME NEW e \in Events, RecoverRow(e)
      PROVE  QueuedOrPast'
  <2>1. PICK d \in Decisions(e) : Record(e, d.outcome, d.ttl)
    BY <1>2 DEF RecoverRow
  <2>2. UNCHANGED <<now, occurred, cleared>>
    BY <1>2 DEF RecoverRow
  <2>3. d.outcome \in Outcomes /\ (d.outcome = "queued" => ~Past(occurred[e]))
    BY DecisionType, QueuedOnlyInTime
  <2>4. QED
    BY <2>1, <2>2, <2>3, RecordQueues
<1>3. CASE UserClears
  <2>1. \A f \in Events :
          /\ cleared'[f] = cleared[f] \/ cleared'[f] = cleared[f] + 1
          /\ row[f] = "queued" => row'[f] = "queued" \/ cleared'[f] = cleared[f] + 1
    BY <1>3 DEF UserClears, Delete, TypeOK
  <2>2. UNCHANGED <<now, occurred, enqueued>>
    BY <1>3 DEF UserClears
  <2>3. QED
    BY <1>0, <2>1, <2>2, QueuedStays
<1>4. CASE Retain
  <2>1. \A f \in Events : row[f] = "queued" => row'[f] = "queued" \/ Past(occurred[f])
    BY <1>4 DEF Retain, Delete, TypeOK
  <2>2. UNCHANGED <<now, occurred, enqueued, cleared>>
    BY <1>4 DEF Retain
  <2>3. QED
    BY <1>0, <2>1, <2>2, QueuedStays
<1>5. CASE Tick
  <2>1. now' \in Nat /\ now <= now' /\ UNCHANGED <<occurred, row, enqueued, cleared>>
    BY <1>0, <1>5 DEF Tick
  <2>2. QED
    BY <2>1, QueuedStays
<1>6. ASSUME NEW e \in Events, HelperStep(e)
      PROVE  QueuedOrPast'
  <2>1. UNCHANGED <<now, row, enqueued, cleared>>
    BY <1>6 DEF HelperStep, InputIncomplete, CaptureRefused, Capture, Ask, GiveUp, FallBack,
                DatabaseBusy, WriteSpool, HelperDies
  <2>2. CASE Capture(e)
    <3>1. \A f \in Events \ {e} : occurred'[f] = occurred[f]
      BY <2>2 DEF Capture, TypeOK
    <3>2. enqueued[e] = 0 /\ cleared[e] \in Nat
      BY <2>2 DEF Capture, RequestComesFirst, Unasked, NoCopyOf, TypeOK
    <3>3. enqueued[e] <= cleared[e]
      BY <3>2
    <3>4. QED
      BY <1>0, <2>1, <3>1, <3>3, QueuedStays
  <2>3. CASE ~Capture(e)
    <3>1. UNCHANGED occurred
      BY <1>6, <2>3 DEF HelperStep, InputIncomplete, CaptureRefused, Ask, GiveUp, FallBack,
                        DatabaseBusy, WriteSpool, HelperDies
    <3>2. QED
      BY <1>0, <2>1, <3>1, QueuedStays
  <2>4. QED
    BY <2>2, <2>3
<1>7. CASE UNCHANGED <<now, occurred, row, enqueued, cleared>>
  BY <1>0, <1>7, QueuedStays
<1>8. StartStep => UNCHANGED <<now, occurred, row, enqueued, cleared>>
  BY DEF StartStep, Stop, Launch, KeychainLoads, KeychainFails, DrainFails,
         TakeBatch, TakeBatchFails, Bind, BindFails
<1>9. ASSUME NEW e \in Events, BacklogStep(e), ~RecoverRow(e)
      PROVE  UNCHANGED <<now, occurred, row, enqueued, cleared>>
  BY <1>9 DEF BacklogStep, DrainFile, DrainBreaks, FileStays, SkipRow
<1>10. ASSUME Take \/ CommitFails \/ Reply \/ (\E e \in Events : JobEnds(e)) \/ UNCHANGED vars
       PROVE  UNCHANGED <<now, occurred, row, enqueued, cleared>>
  BY <1>10 DEF Take, CommitFails, Reply, ReplyAt, JobEnds, vars
<1>11. QED
  BY <1>1, <1>2, <1>3, <1>4, <1>5, <1>6, <1>7, <1>8, <1>9, <1>10, NextCases
     DEF LiveStep, AroundStep

-----------------------------------------------------------------------------
(* The theorems *)

LEMMA InitInvariant ==
  ASSUME Init
  PROVE  IInv
<1> USE IngressAssumption DEF Init
<1>1. TypeOK
  BY DEF TypeOK, HelperStages, Phases, LiveStages, Outcomes, Idle, NoJob
<1>2. MemoryOfStage /\ RequestComesFirst
  BY DEF MemoryOfStage, RequestComesFirst, Unasked, NoCopyOf, Idle
<1>3. RecordedIsHandled /\ Custody /\ JobKeepsEvent
  BY DEF RecordedIsHandled, Seen, Custody, JobKeepsEvent, Idle, NoJob
<1>4. QueuedOrPast
  BY DEF QueuedOrPast
<1>5. QED
  BY <1>1, <1>2, <1>3, <1>4 DEF IInv

\* The invariant holds initially and is kept by every step.
THEOREM IngressInvariant == Spec => []IInv
<1>1. Init => IInv
  BY InitInvariant
<1>2. IInv /\ [Next]_vars => IInv'
  BY TypesKept, MemoryKept, RequestsKept, HandledKept, CustodyKept, JobsKept, QueuedKept DEF IInv
<1>3. QED
  BY <1>1, <1>2, PTL DEF Spec

\* Every variable keeps its type; in particular the IPC loop only ever works on
\* an event of its own.
THEOREM TypeCorrect == Spec => []TypeOK
<1>1. IInv => TypeOK
  BY DEF IInv
<1>2. QED
  BY <1>1, IngressInvariant, PTL

\* An event whose helper ended well is recorded, in a row or in a file, however
\* often the application dies, whatever fails, and however full the channel and
\* the spool are; only a deletion of `processing` rows takes one away.
THEOREM CustodyIsKept == Spec => []Custody
<1>1. IInv => Custody
  BY DEF IInv
<1>2. QED
  BY <1>1, IngressInvariant, PTL

\* An event is turned into jobs once, but for the user's clearings: a request in
\* memory is an event's first copy, and a copy that outlives its record is past
\* every time to live (pipeline.rs, retention.rs).
THEOREM NotifiedOnceOnly == Spec => []NotifiedOnce
<1>1. IInv => NotifiedOnce
  <2> SUFFICES ASSUME IInv, NEW e \in Events
               PROVE  enqueued[e] <= 1 + cleared[e]
    BY DEF NotifiedOnce
  <2>1. enqueued[e] \in Nat /\ cleared[e] \in Nat
    BY DEF IInv, TypeOK
  <2>2. enqueued[e] <= cleared[e] \/ enqueued[e] = cleared[e] + 1
    BY DEF IInv, QueuedOrPast
  <2>3. QED
    BY <2>1, <2>2
<1>2. QED
  BY <1>1, IngressInvariant, PTL

\* Neither clearing nor retention takes an event whose job is still there.
THEOREM JobsKeepTheirEvents == Spec => []JobKeepsEvent
<1>1. IInv => JobKeepsEvent
  BY DEF IInv
<1>2. QED
  BY <1>1, IngressInvariant, PTL
=============================================================================
