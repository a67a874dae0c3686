-------------------------- MODULE HealthViewProofs --------------------------
(***************************************************************************)
(* What the pages show, for every set of pages and subscriptions, every    *)
(* capacity of the channel and every number of changes and faults: a page  *)
(* that numbers its requests never goes back, and a page told of every     *)
(* topic reads what was announced, though announcements are dropped.       *)
(***************************************************************************)
EXTENDS HealthView, TLAPS

USE DEF Unread

-----------------------------------------------------------------------------
(* Sequences *)

\* What the channel keeps of what it is given: something, if there was anything.
LEMMA UptoKeeps ==
  ASSUME NEW S, NEW s \in Seq(S), NEW n \in Nat \ {0}
  PROVE  Upto(n, s) \in Seq(S) /\ (s # <<>> => Upto(n, s) # <<>>)
<1>1. PICK m \in Nat : m = (IF Len(s) < n THEN Len(s) ELSE n) /\ m <= Len(s) /\ (Len(s) # 0 => m # 0)
  OBVIOUS
<1>2. Upto(n, s) = SubSeq(s, 1, m)
  BY <1>1 DEF Upto
<1>3. SubSeq(s, 1, m) \in Seq(S) /\ Len(SubSeq(s, 1, m)) = m
  BY <1>1
<1>4. s # <<>> => Len(s) # 0
  OBVIOUS
<1>5. Len(<<>>) = 0
  OBVIOUS
<1>6. QED
  BY <1>1, <1>2, <1>3, <1>4, <1>5

\* What is left of a sequence without its element i: the elements before it where
\* they were, those after it one place ahead.
LEMMA WithoutOne ==
  ASSUME NEW S, NEW s \in Seq(S), NEW i \in 1..Len(s)
  PROVE  /\ Without(s, i) \in Seq(S) /\ Len(Without(s, i)) = Len(s) - 1
         /\ \A j \in 1..Len(s) - 1 : Without(s, i)[j] = IF j < i THEN s[j] ELSE s[j + 1]
<1>1. PICK front, rest : front = SubSeq(s, 1, i - 1) /\ rest = SubSeq(s, i + 1, Len(s))
  OBVIOUS
<1>2. front \in Seq(S) /\ Len(front) = i - 1 /\ \A j \in 1..i - 1 : front[j] = s[j]
  BY <1>1
<1>3. rest \in Seq(S) /\ Len(rest) = Len(s) - i /\ \A j \in 1..Len(s) - i : rest[j] = s[i + j]
  BY <1>1
<1>4. Without(s, i) = front \o rest
  BY <1>1 DEF Without
<1>5. Without(s, i) \in Seq(S) /\ Len(Without(s, i)) = Len(s) - 1
  BY <1>2, <1>3, <1>4
<1>6. ASSUME NEW j \in 1..Len(s) - 1
      PROVE  Without(s, i)[j] = IF j < i THEN s[j] ELSE s[j + 1]
  <2>1. CASE j < i
    BY <1>2, <1>3, <1>4, <2>1
  <2>2. CASE ~(j < i)
    <3>1. (front \o rest)[j] = rest[j - (i - 1)]
      BY <1>2, <1>3, <2>2
    <3>2. j - (i - 1) \in 1..Len(s) - i /\ i + (j - (i - 1)) = j + 1
      BY <2>2
    <3>3. QED
      BY <1>3, <1>4, <2>2, <3>1, <3>2
  <2>3. QED
    BY <2>1, <2>2
<1>7. QED
  BY <1>5, <1>6

-----------------------------------------------------------------------------
(* The projection *)

LEMMA OverallIsLevel == Overall \in Levels
  BY DEF Overall, Worst, Levels

-----------------------------------------------------------------------------
(* Producers *)

\* The state changes under the pages: what they asked and show stays.
LEMMA PagesRest ==
  ASSUME IInv, UNCHANGED <<requests, shown>>, version' \in Nat, version' >= version
  PROVE  NothingAhead' /\ OnlyTheLast'
<1>1. NothingAhead'
  <2>1. ASSUME NEW v \in Views
        PROVE  shown[v] <= version' /\ \A i \in 1..Len(requests[v]) : requests[v][i].read <= version'
    <3>1. shown[v] \in Nat /\ version \in Nat /\ shown[v] <= version
      BY DEF IInv, TypeOK, NothingAhead
    <3>2. ASSUME NEW i \in 1..Len(requests[v])
          PROVE  requests[v][i].read <= version'
      <4>1. requests[v][i] \in Request
        BY DEF IInv, TypeOK
      <4>2. requests[v][i].read \in Int /\ requests[v][i].read <= version
        BY <4>1 DEF Request, IInv, NothingAhead
      <4>3. QED
        BY <3>1, <4>2
    <3>3. QED
      BY <3>1, <3>2
  <2>2. QED
    BY <2>1 DEF NothingAhead
<1>2. OnlyTheLast'
  BY DEF IInv, OnlyTheLast
<1>3. QED
  BY <1>1, <1>2

\* A change is announced on some topics, or on none: whatever the channel drops,
\* it is not left empty.
LEMMA ChangesKeeps ==
  ASSUME IInv, NEW new \in [agent: Levels, paused: BOOLEAN, jobs: SUBSET JobStates, rejected: BOOLEAN],
         NEW topics \in Seq(Topics), Changes(new, topics)
  PROVE  IInv'
<1>1. /\ world' = new /\ version' = version + 1
      /\ announced' = IF topics = <<>> THEN announced ELSE version + 1
      /\ channel' = Upto(Capacity, channel \o topics)
      /\ UNCHANGED <<calls, tray, listening, missed, requests, newest, shown, faults>>
  BY DEF Changes, Emit, pages, window
<1>2. version \in Nat /\ announced \in 0..version /\ channel \in Seq(Topics)
  BY DEF IInv, TypeOK
<1>3. channel \o topics \in Seq(Topics) /\ (channel # <<>> \/ topics # <<>> => channel \o topics # <<>>)
  BY <1>2
<1>4. channel' \in Seq(Topics) /\ (channel # <<>> \/ topics # <<>> => channel' # <<>>)
  BY <1>1, <1>3, UptoKeeps, HealthViewAssumption
<1>5. TypeOK'
  BY <1>1, <1>2, <1>4 DEF IInv, TypeOK
<1>6. NothingAhead' /\ OnlyTheLast'
  BY <1>1, <1>2, PagesRest
<1>7. AnnouncedIsRead'
  BY <1>1, <1>4 DEF IInv, AnnouncedIsRead
<1>8. QED
  BY <1>5, <1>6, <1>7 DEF IInv

\* Every change of the state is one of these.
LEMMA ProducersChange ==
  ASSUME IInv,
         \/ OutcomeRecorded \/ JobExpires \/ RequestRefused \/ EventProcessed
         \/ ChannelSaved \/ JobRetried \/ HistoryCleared \/ RuleSaved \/ Healed
         \/ \E level \in Found \ {world.agent} : Changes([world EXCEPT !.agent = level], <<"health">>)
  PROVE  \E new \in [agent: Levels, paused: BOOLEAN, jobs: SUBSET JobStates, rejected: BOOLEAN],
            topics \in Seq(Topics) : Changes(new, topics)
<1> DEFINE Worlds == [agent: Levels, paused: BOOLEAN, jobs: SUBSET JobStates, rejected: BOOLEAN]
<1>1. world \in Worlds
  BY DEF IInv, TypeOK
<1>2. /\ <<>> \in Seq(Topics) /\ <<"health">> \in Seq(Topics) /\ <<"queue">> \in Seq(Topics)
      /\ <<"history">> \in Seq(Topics) /\ <<"health", "queue">> \in Seq(Topics)
  BY DEF Topics
<1>3. CASE OutcomeRecorded
  <2>1. PICK jobs, after :
          /\ jobs \in SUBSET JobStates
          /\ after = [world EXCEPT !.jobs = jobs \cup (world.jobs \cap {"failed"})]
          /\ \/ Changes(after, <<"queue">>)
             \/ Changes([after EXCEPT !.paused = TRUE], <<"health", "queue">>)
    BY <1>3 DEF OutcomeRecorded
  <2>2. after \in Worlds
    BY <1>1, <2>1 DEF JobStates
  <2>3. [after EXCEPT !.paused = TRUE] \in Worlds
    BY <2>2
  <2>4. QED
    BY <1>2, <2>1, <2>2, <2>3
<1>4. CASE JobExpires
  <2>1. [world EXCEPT !.jobs = {"failed"}] \in Worlds
    BY <1>1 DEF JobStates
  <2>2. QED
    BY <1>2, <1>4, <2>1 DEF JobExpires
<1>5. CASE RequestRefused
  <2>1. [world EXCEPT !.rejected = TRUE] \in Worlds
    BY <1>1
  <2>2. QED
    BY <1>2, <1>5, <2>1 DEF RequestRefused
<1>6. CASE EventProcessed \/ RuleSaved
  BY <1>1, <1>2, <1>6 DEF EventProcessed, RuleSaved
<1>7. CASE ChannelSaved
  <2>1. [world EXCEPT !.paused = FALSE] \in Worlds
    BY <1>1
  <2>2. QED
    BY <1>2, <1>7, <2>1 DEF ChannelSaved
<1>8. CASE JobRetried
  <2>1. [world EXCEPT !.jobs = world.jobs \ {"failed"}] \in Worlds
    BY <1>1
  <2>2. QED
    BY <1>2, <1>8, <2>1 DEF JobRetried
<1>9. CASE HistoryCleared
  <2>1. [world EXCEPT !.jobs = world.jobs \cap {"retry_wait"}] \in Worlds
    BY <1>1
  <2>2. QED
    BY <1>2, <1>9, <2>1 DEF HistoryCleared
<1>10. CASE Healed
  <2>1. [world EXCEPT !.agent = "ok"] \in Worlds
    BY <1>1 DEF Levels
  <2>2. QED
    BY <1>2, <1>10, <2>1 DEF Healed
<1>11. CASE \E level \in Found \ {world.agent} :
              Changes([world EXCEPT !.agent = level], <<"health">>)
  <2>1. \A level \in Found : [world EXCEPT !.agent = level] \in Worlds
    BY <1>1, HealthViewAssumption
  <2>2. QED
    BY <1>2, <1>11, <2>1
<1>12. QED
  BY <1>3, <1>4, <1>5, <1>6, <1>7, <1>8, <1>9, <1>10, <1>11

\* The detection announces what it found unchanged.
LEMMA RedetectKeeps ==
  ASSUME IInv, Redetect
  PROVE  IInv'
<1>1. CASE \E level \in Found \ {world.agent} :
             Changes([world EXCEPT !.agent = level], <<"health">>)
  BY <1>1, ProducersChange, ChangesKeeps
<1>2. CASE /\ Emit(<<"health">>) /\ announced' = version
           /\ UNCHANGED <<world, version, calls, tray, pages, window, faults>>
  <2>1. version \in Nat /\ channel \in Seq(Topics)
    BY DEF IInv, TypeOK
  <2>2. channel \o <<"health">> \in Seq(Topics) /\ channel \o <<"health">> # <<>>
    BY <2>1 DEF Topics
  <2>3. channel' \in Seq(Topics) /\ channel' # <<>>
    BY <1>2, <2>2, UptoKeeps, HealthViewAssumption DEF Emit
  <2>4. TypeOK'
    BY <1>2, <2>1, <2>3 DEF IInv, TypeOK, pages, window
  <2>5. NothingAhead' /\ OnlyTheLast'
    BY <1>2, <2>1, PagesRest DEF window
  <2>6. AnnouncedIsRead'
    BY <2>3 DEF AnnouncedIsRead
  <2>7. QED
    BY <2>4, <2>5, <2>6 DEF IInv
<1>3. QED
  BY <1>1, <1>2 DEF Redetect

-----------------------------------------------------------------------------
(* The forwarder and the tray *)

\* The page asks again; what it waited for stays, but for a page that numbers its
\* requests only the new one is awaited.
LEMMA AskedOnceMore ==
  ASSUME IInv, NEW v \in Views
  PROVE  /\ Asked(v) \in Seq(Request)
         /\ Len(Asked(v)) = Len(requests[v]) + 1
         /\ Asked(v)[Len(requests[v]) + 1] = [read |-> Unread, awaited |-> TRUE]
         /\ \A i \in 1..Len(requests[v]) : Asked(v)[i].read = requests[v][i].read
         /\ v \in LatestOnly => \A i \in 1..Len(requests[v]) : ~Asked(v)[i].awaited
<1>1. PICK s : s = requests[v]
  OBVIOUS
<1>2. s \in Seq(Request)
  BY <1>1 DEF IInv, TypeOK
<1>3. PICK old : old = [i \in 1..Len(s) |-> [s[i] EXCEPT !.awaited = v \notin LatestOnly]]
  OBVIOUS
<1>4. ASSUME NEW i \in 1..Len(s)
      PROVE  old[i] \in Request /\ old[i].awaited = (v \notin LatestOnly) /\ old[i].read = s[i].read
  <2>1. s[i] \in Request
    BY <1>2
  <2>2. old[i] = [s[i] EXCEPT !.awaited = v \notin LatestOnly]
    BY <1>3
  <2>3. QED
    BY <2>1, <2>2 DEF Request
<1>5. old \in Seq(Request) /\ Len(old) = Len(s)
  BY <1>2, <1>3, <1>4
<1>6. [read |-> Unread, awaited |-> TRUE] \in Request
  BY DEF Request
<1>7. Asked(v) = Append(old, [read |-> Unread, awaited |-> TRUE])
  BY <1>1, <1>3 DEF Asked
<1>8. PICK new : new = [read |-> Unread, awaited |-> TRUE]
  OBVIOUS
<1>9. /\ Append(old, new) \in Seq(Request) /\ Len(Append(old, new)) = Len(s) + 1
      /\ Append(old, new)[Len(s) + 1] = new
      /\ \A i \in 1..Len(s) : Append(old, new)[i] = old[i]
  BY <1>5, <1>6, <1>8
<1>10. QED
  BY <1>1, <1>4, <1>7, <1>8, <1>9

LEMMA ForwardKeeps ==
  ASSUME IInv, Forward
  PROVE  IInv'
<1>1. PICK topic : topic = Head(channel)
  OBVIOUS
<1>2. /\ channel # <<>> /\ channel' = Tail(channel)
      /\ requests' = [v \in Views |-> IF v \in Told(topic) THEN Asked(v) ELSE requests[v]]
      /\ missed' = (missed \cup (Informed \ listening)) \ Told(topic)
      /\ calls' = (calls \/ topic = "health")
      /\ UNCHANGED <<world, version, announced, tray, listening, newest, shown, faults>>
  BY <1>1 DEF Forward, state
<1>3. topic \in Topics /\ channel' \in Seq(Topics)
  BY <1>1, <1>2 DEF IInv, TypeOK
<1>4. Told(topic) \subseteq Views
  BY DEF IInv, TypeOK, Told
<1>5. /\ \A v \in Views \ Told(topic) : requests'[v] = requests[v]
      /\ \A v \in Told(topic) : requests'[v] = Asked(v)
  BY <1>2, <1>4
<1>6. TypeOK'
  <2>1. requests' \in [Views -> Seq(Request)]
    BY <1>2, AskedOnceMore DEF IInv, TypeOK
  <2>2. QED
    BY <1>2, <1>3, <2>1 DEF IInv, TypeOK
<1>7. NothingAhead' /\ OnlyTheLast'
  <2>1. ASSUME NEW v \in Views
        PROVE  /\ shown[v] <= version
               /\ \A k \in 1..Len(requests'[v]) : requests'[v][k].read <= version
               /\ v \in LatestOnly => \A k \in 1..Len(requests'[v]) : requests'[v][k].awaited =>
                    /\ k = Len(requests'[v])
                    /\ requests'[v][k].read # Unread => shown[v] <= requests'[v][k].read
    <3>1. CASE v \notin Told(topic)
      BY <1>5, <3>1 DEF IInv, NothingAhead, OnlyTheLast
    <3>2. CASE v \in Told(topic)
      <4>1. PICK n \in Nat : n = Len(requests[v])
        BY DEF IInv, TypeOK
      <4>2. PICK s : s = Asked(v)
        OBVIOUS
      <4>3. /\ Len(s) = n + 1 /\ s[n + 1] = [read |-> Unread, awaited |-> TRUE]
            /\ \A k \in 1..n : s[k].read = requests[v][k].read
            /\ v \in LatestOnly => \A k \in 1..n : ~s[k].awaited
        BY <4>1, <4>2, AskedOnceMore
      <4>4. shown[v] <= version /\ \A k \in 1..n : requests[v][k].read <= version
        BY <4>1 DEF IInv, NothingAhead
      <4>5. version \in Nat
        BY DEF IInv, TypeOK
      <4>6. \A k \in 1..Len(s) : s[k].read <= version
        BY <4>3, <4>4, <4>5
      <4>7. v \in LatestOnly => \A k \in 1..Len(s) : s[k].awaited => k = Len(s) /\ s[k].read = Unread
        BY <4>3
      <4>8. requests'[v] = s
        BY <1>5, <3>2, <4>2
      <4>9. QED
        BY <4>4, <4>6, <4>7, <4>8
    <3>3. QED
      BY <3>1, <3>2
  <2>2. QED
    BY <1>2, <2>1, HealthViewAssumption DEF NothingAhead, OnlyTheLast
<1>8. AnnouncedIsRead'
  <2>1. ASSUME NEW v \in Informed
        PROVE  v \in missed' \/ \E i \in 1..Len(requests'[v]) : requests'[v][i].read = Unread
    <3>1. v \in Views /\ Listens[v] = Topics
      BY <2>1 DEF Informed
    <3>2. CASE v \in listening
      <4>1. v \in Told(topic)
        BY <1>3, <3>1, <3>2 DEF Told
      <4>2. PICK n \in Nat : n = Len(requests[v])
        BY <3>1 DEF IInv, TypeOK
      <4>3. requests'[v][n + 1].read = Unread /\ n + 1 \in 1..Len(requests'[v])
        BY <1>5, <3>1, <4>1, <4>2, AskedOnceMore
      <4>4. QED
        BY <4>3
    <3>3. CASE v \notin listening
      BY <1>2, <2>1, <3>3 DEF Told
    <3>4. QED
      BY <3>2, <3>3
  <2>2. QED
    BY <2>1 DEF AnnouncedIsRead
<1>9. QED
  BY <1>6, <1>7, <1>8 DEF IInv

LEMMA RefreshKeeps ==
  ASSUME IInv, RefreshTray \/ RefreshTrayBlindly
  PROVE  IInv'
<1>1. /\ UNCHANGED <<world, version, announced, channel, listening, missed, requests, newest, shown>>
      /\ calls' = FALSE /\ tray' \in Levels /\ (faults' = faults \/ faults' = faults + 1)
  BY OverallIsLevel DEF RefreshTray, RefreshTrayBlindly, state, pages, window, Levels
<1>2. faults \in Nat /\ faults' \in Nat /\ version \in Nat
  BY <1>1 DEF IInv, TypeOK
<1>3. TypeOK'
  BY <1>1, <1>2 DEF IInv, TypeOK
<1>4. NothingAhead' /\ OnlyTheLast'
  BY <1>1, <1>2, PagesRest
<1>5. AnnouncedIsRead'
  BY <1>1, <1>2 DEF IInv, AnnouncedIsRead
<1>6. QED
  BY <1>3, <1>4, <1>5 DEF IInv

-----------------------------------------------------------------------------
(* The pages *)

LEMMA SubscribesKeeps ==
  ASSUME IInv, NEW v \in Views, Subscribes(v)
  PROVE  IInv'
<1>1. /\ UNCHANGED <<world, version, announced, channel, calls, tray, missed, requests, newest, shown, faults>>
      /\ listening' = listening \cup {v}
  BY DEF Subscribes, state, window
<1>2. TypeOK'
  BY <1>1 DEF IInv, TypeOK
<1>3. NothingAhead' /\ OnlyTheLast'
  BY <1>1, PagesRest DEF IInv, TypeOK
<1>4. AnnouncedIsRead'
  BY <1>1 DEF IInv, AnnouncedIsRead
<1>5. QED
  BY <1>2, <1>3, <1>4 DEF IInv

\* A thread of the core reads the state for a request: it is as new as anything
\* announced.
LEMMA ReadKeeps ==
  ASSUME IInv, NEW v \in Views, NEW i \in 1..Len(requests[v]), Read(v, i)
  PROVE  IInv'
<1>1. PICK s : s = requests[v]
  OBVIOUS
<1>2. PICK answered : answered = [s[i] EXCEPT !.read = version]
  OBVIOUS
<1>3. PICK t : t = [s EXCEPT ![i] = answered]
  OBVIOUS
<1>4. s \in Seq(Request) /\ i \in 1..Len(s) /\ version \in Nat
  BY <1>1 DEF IInv, TypeOK
<1>5. answered \in Request /\ answered.read = version /\ answered.awaited = s[i].awaited
  <2>1. s[i] \in Request
    BY <1>4
  <2>2. QED
    BY <1>2, <1>4, <2>1 DEF Request
<1>6. /\ t \in Seq(Request) /\ Len(t) = Len(s) /\ t[i] = answered
      /\ \A j \in 1..Len(s) \ {i} : t[j] = s[j]
  BY <1>3, <1>4, <1>5
<1>7. /\ requests' = [requests EXCEPT ![v] = t]
      /\ newest' = [w \in Informed |-> IF w = v THEN version ELSE newest[w]]
      /\ UNCHANGED <<world, version, announced, channel, calls, tray, listening, missed, shown, faults>>
  BY <1>1, <1>2, <1>3 DEF Read, state, pages
<1>8. requests'[v] = t /\ \A w \in Views \ {v} : requests'[w] = requests[w]
  BY <1>7 DEF IInv, TypeOK
<1>9. TypeOK'
  BY <1>4, <1>6, <1>7 DEF IInv, TypeOK
<1>10. NothingAhead' /\ OnlyTheLast'
  <2>1. ASSUME NEW w \in Views
        PROVE  /\ shown[w] <= version
               /\ \A j \in 1..Len(requests'[w]) : requests'[w][j].read <= version
               /\ w \in LatestOnly => \A j \in 1..Len(requests'[w]) : requests'[w][j].awaited =>
                    /\ j = Len(requests'[w])
                    /\ requests'[w][j].read # Unread => shown[w] <= requests'[w][j].read
    <3>1. CASE w # v
      BY <1>8, <3>1 DEF IInv, NothingAhead, OnlyTheLast
    <3>2. CASE w = v
      <4>1. shown[v] <= version /\ \A j \in 1..Len(s) : s[j].read <= version
        BY <1>1 DEF IInv, NothingAhead
      <4>2. \A j \in 1..Len(t) : t[j].read <= version
        BY <1>4, <1>5, <1>6, <4>1
      <4>3. ASSUME v \in LatestOnly, NEW j \in 1..Len(t), t[j].awaited
            PROVE  j = Len(t) /\ (t[j].read # Unread => shown[v] <= t[j].read)
        <5>1. s[j].awaited
          BY <1>5, <1>6, <4>3
        <5>2. j = Len(s) /\ (s[j].read # Unread => shown[v] <= s[j].read)
          BY <1>1, <1>6, <4>3, <5>1 DEF IInv, OnlyTheLast
        <5>3. QED
          BY <1>5, <1>6, <4>1, <4>3, <5>2
      <4>4. QED
        BY <1>8, <3>2, <4>1, <4>2, <4>3
    <3>3. QED
      BY <3>1, <3>2
  <2>2. QED
    BY <1>7, <2>1, HealthViewAssumption DEF NothingAhead, OnlyTheLast
<1>11. AnnouncedIsRead'
  <2>1. ASSUME NEW w \in Informed, w # v
        PROVE  /\ newest'[w] = newest[w] /\ requests'[w] = requests[w]
    BY <1>7, <1>8, <2>1 DEF Informed
  <2>2. v \in Informed => newest'[v] >= announced'
    BY <1>7 DEF IInv, TypeOK
  <2>3. QED
    BY <1>7, <2>1, <2>2 DEF IInv, AnnouncedIsRead
<1>12. QED
  BY <1>9, <1>10, <1>11 DEF IInv

\* A request is gone; the others keep their order.
LEMMA RequestGone ==
  ASSUME IInv, NEW v \in Views, NEW i \in 1..Len(requests[v]),
         requests' = [requests EXCEPT ![v] = Without(requests[v], i)]
  PROVE  /\ requests' \in [Views -> Seq(Request)]
         /\ \A w \in Views \ {v} : requests'[w] = requests[w]
         /\ Len(requests'[v]) = Len(requests[v]) - 1
         /\ \A j \in 1..Len(requests'[v]) : requests'[v][j] = requests[v][IF j < i THEN j ELSE j + 1]
<1>1. PICK s : s = requests[v]
  OBVIOUS
<1>2. s \in Seq(Request)
  BY <1>1 DEF IInv, TypeOK
<1>3. /\ Without(s, i) \in Seq(Request) /\ Len(Without(s, i)) = Len(s) - 1
      /\ \A j \in 1..Len(s) - 1 : Without(s, i)[j] = IF j < i THEN s[j] ELSE s[j + 1]
  BY <1>1, <1>2, WithoutOne
<1>4. requests'[v] = Without(s, i) /\ \A w \in Views \ {v} : requests'[w] = requests[w]
  BY <1>1 DEF IInv, TypeOK
<1>5. requests' \in [Views -> Seq(Request)]
  BY <1>1, <1>3 DEF IInv, TypeOK
<1>6. QED
  BY <1>1, <1>3, <1>4, <1>5

\* A request that was read takes no unread one with it.
LEMMA UnreadStays ==
  ASSUME IInv, NEW v \in Views, NEW i \in 1..Len(requests[v]), requests[v][i].read # Unread,
         requests' = [requests EXCEPT ![v] = Without(requests[v], i)],
         UNCHANGED <<announced, channel, missed, newest, faults>>
  PROVE  AnnouncedIsRead'
<1>1. ASSUME NEW w \in Informed, NEW j \in 1..Len(requests[w]), requests[w][j].read = Unread
      PROVE  \E k \in 1..Len(requests'[w]) : requests'[w][k].read = Unread
  <2>1. w \in Views
    BY DEF Informed
  <2>2. CASE w # v
    BY <1>1, <2>1, <2>2, RequestGone
  <2>3. CASE w = v
    <3>0. Len(requests[v]) \in Nat
      BY DEF IInv, TypeOK
    <3>1. PICK n \in Nat, t \in {requests'[v]} : n = Len(requests[v]) /\ t = requests'[v]
      BY <3>0
    <3>2. /\ Len(t) = n - 1
          /\ \A k \in 1..Len(t) : t[k] = requests[v][IF k < i THEN k ELSE k + 1]
      <4>1. /\ Len(requests'[v]) = Len(requests[v]) - 1
            /\ \A k \in 1..Len(requests'[v]) :
                 requests'[v][k] = requests[v][IF k < i THEN k ELSE k + 1]
        BY RequestGone
      <4>2. QED
        BY <3>1, <4>1
    <3>3. j # i /\ j \in 1..n /\ i \in 1..n
      BY <1>1, <2>3, <3>1
    <3>4. CASE j < i
      <4>1. j \in 1..Len(t) /\ t[j] = requests[v][j]
        BY <3>2, <3>3, <3>4
      <4>2. QED
        BY <1>1, <2>3, <3>1, <4>1
    <3>5. CASE j > i
      <4>1. j - 1 \in 1..Len(t) /\ t[j - 1] = requests[v][j]
        BY <3>2, <3>3, <3>5
      <4>2. QED
        BY <1>1, <2>3, <3>1, <4>1
    <3>6. QED
      BY <3>3, <3>4, <3>5
  <2>4. QED
    BY <2>2, <2>3
<1>2. QED
  BY <1>1 DEF IInv, AnnouncedIsRead

\* An answer that is applied is the one the page waits for, and no older than what
\* it shows; no other is awaited then.
LEMMA AnswerKeeps ==
  ASSUME IInv, NEW v \in Views, NEW i \in 1..Len(requests[v]), Answer(v, i)
  PROVE  IInv' /\ \A w \in LatestOnly : shown'[w] >= shown[w]
<1>1. PICK s : s = requests[v]
  OBVIOUS
<1>2. s \in Seq(Request) /\ s[i] \in Request /\ i \in 1..Len(s)
  BY <1>1 DEF IInv, TypeOK
<1>3. /\ s[i].read # Unread
      /\ requests' = [requests EXCEPT ![v] = Without(requests[v], i)]
      /\ shown' = IF s[i].awaited THEN [shown EXCEPT ![v] = s[i].read] ELSE shown
      /\ UNCHANGED <<world, version, announced, channel, calls, tray, listening, missed, newest, faults>>
  BY <1>1 DEF Answer, Applies, state, pages
<1>4. /\ requests' \in [Views -> Seq(Request)]
      /\ \A w \in Views \ {v} : requests'[w] = requests[w]
      /\ Len(requests'[v]) = Len(s) - 1
      /\ \A j \in 1..Len(requests'[v]) : requests'[v][j] = s[IF j < i THEN j ELSE j + 1]
  BY <1>1, <1>3, RequestGone
<1>5. shown \in [Views -> Nat] /\ s[i].read \in Nat /\ s[i].read <= version /\ shown[v] <= version
  <2>1. s[i].read \in Nat \cup {Unread}
    BY <1>2 DEF Request
  <2>2. QED
    BY <1>1, <1>2, <1>3, <2>1 DEF IInv, TypeOK, NothingAhead
<1>6. /\ shown' \in [Views -> Nat]
      /\ \A w \in Views \ {v} : shown'[w] = shown[w]
      /\ shown'[v] = IF s[i].awaited THEN s[i].read ELSE shown[v]
  BY <1>3, <1>5
<1>7. TypeOK'
  BY <1>3, <1>4, <1>6 DEF IInv, TypeOK
<1>8. ASSUME v \in LatestOnly, s[i].awaited
      PROVE  i = Len(s) /\ shown[v] <= s[i].read
  BY <1>1, <1>2, <1>3, <1>8 DEF IInv, OnlyTheLast
<1>9. ASSUME NEW w \in LatestOnly
      PROVE  shown'[w] >= shown[w]
  <2>1. shown[w] \in Nat
    BY <1>5, HealthViewAssumption
  <2>2. QED
    BY <1>5, <1>6, <1>8, <1>9, <2>1, HealthViewAssumption
<1>10. NothingAhead' /\ OnlyTheLast'
  <2>1. ASSUME NEW w \in Views
        PROVE  /\ shown'[w] <= version
               /\ \A j \in 1..Len(requests'[w]) : requests'[w][j].read <= version
               /\ w \in LatestOnly => \A j \in 1..Len(requests'[w]) : requests'[w][j].awaited =>
                    /\ j = Len(requests'[w])
                    /\ requests'[w][j].read # Unread => shown'[w] <= requests'[w][j].read
    <3>1. CASE w # v
      BY <1>4, <1>6, <3>1 DEF IInv, NothingAhead, OnlyTheLast
    <3>2. CASE w = v
      <4>1. PICK n \in Nat, t \in {requests'[v]} : n = Len(s) /\ t = requests'[v]
        BY <1>2
      <4>2. Len(t) = n - 1 /\ \A j \in 1..n - 1 : t[j] = s[IF j < i THEN j ELSE j + 1]
        BY <1>4, <4>1
      <4>3. shown'[v] <= version
        BY <1>5, <1>6
      <4>4. \A j \in 1..n : s[j].read <= version
        BY <1>1, <4>1 DEF IInv, NothingAhead
      <4>5. ASSUME NEW j \in 1..Len(t)
            PROVE  \E k \in 1..n : t[j] = s[k] /\ k # i /\ (k = n => j = n - 1)
        <5>1. CASE j < i
          BY <1>2, <4>1, <4>2, <4>5, <5>1
        <5>2. CASE ~(j < i)
          BY <1>2, <4>1, <4>2, <4>5, <5>2
        <5>3. QED
          BY <5>1, <5>2
      <4>6. ASSUME v \in LatestOnly, NEW j \in 1..Len(t), t[j].awaited
            PROVE  j = Len(t) /\ (t[j].read # Unread => shown'[v] <= t[j].read)
        <5>1. PICK k \in 1..n : t[j] = s[k] /\ k # i /\ (k = n => j = n - 1)
          BY <4>5
        <5>2. k = n /\ (s[k].read # Unread => shown[v] <= s[k].read)
          BY <1>1, <4>1, <4>6, <5>1 DEF IInv, OnlyTheLast
        <5>3. ~s[i].awaited
          BY <1>8, <4>1, <4>6, <5>1, <5>2
        <5>4. QED
          BY <1>6, <4>2, <5>1, <5>2, <5>3
      <4>7. QED
        BY <3>2, <4>1, <4>3, <4>4, <4>5, <4>6
    <3>3. QED
      BY <3>1, <3>2
  <2>2. QED
    BY <1>3, <2>1, HealthViewAssumption DEF NothingAhead, OnlyTheLast
<1>11. AnnouncedIsRead'
  BY <1>1, <1>2, <1>3, <1>4, UnreadStays DEF IInv
<1>12. QED
  BY <1>7, <1>9, <1>10, <1>11 DEF IInv

\* A request that fails is a fault.
LEMMA RequestFailsKeeps ==
  ASSUME IInv, NEW v \in Views, NEW i \in 1..Len(requests[v]), RequestFails(v, i)
  PROVE  IInv'
<1>1. PICK s : s = requests[v]
  OBVIOUS
<1>2. s \in Seq(Request) /\ i \in 1..Len(s) /\ faults \in Nat
  BY <1>1 DEF IInv, TypeOK
<1>3. /\ faults' = faults + 1
      /\ requests' = [requests EXCEPT ![v] = Without(requests[v], i)]
      /\ UNCHANGED <<world, version, announced, channel, calls, tray, listening, missed, newest, shown>>
  BY DEF RequestFails, state, pages
<1>4. /\ requests' \in [Views -> Seq(Request)]
      /\ \A w \in Views \ {v} : requests'[w] = requests[w]
      /\ Len(requests'[v]) = Len(s) - 1
      /\ \A j \in 1..Len(requests'[v]) : requests'[v][j] = s[IF j < i THEN j ELSE j + 1]
  BY <1>1, <1>3, RequestGone
<1>5. TypeOK'
  BY <1>2, <1>3, <1>4 DEF IInv, TypeOK
<1>6. NothingAhead' /\ OnlyTheLast'
  <2>1. ASSUME NEW w \in Views
        PROVE  /\ shown[w] <= version
               /\ \A j \in 1..Len(requests'[w]) : requests'[w][j].read <= version
               /\ w \in LatestOnly => \A j \in 1..Len(requests'[w]) : requests'[w][j].awaited =>
                    /\ j = Len(requests'[w])
                    /\ requests'[w][j].read # Unread => shown[w] <= requests'[w][j].read
    <3>1. CASE w # v
      BY <1>4, <3>1 DEF IInv, NothingAhead, OnlyTheLast
    <3>2. CASE w = v
      <4>1. PICK n \in Nat, t \in {requests'[v]} : n = Len(s) /\ t = requests'[v]
        BY <1>2
      <4>2. Len(t) = n - 1 /\ \A j \in 1..n - 1 : t[j] = s[IF j < i THEN j ELSE j + 1]
        BY <1>4, <4>1
      <4>3. shown[v] <= version /\ \A j \in 1..n : s[j].read <= version
        BY <1>1, <4>1 DEF IInv, NothingAhead
      <4>4. ASSUME NEW j \in 1..Len(t)
            PROVE  \E k \in 1..n : t[j] = s[k] /\ (k = n => j = n - 1)
        <5>1. CASE j < i
          BY <1>2, <4>1, <4>2, <4>4, <5>1
        <5>2. CASE ~(j < i)
          BY <1>2, <4>1, <4>2, <4>4, <5>2
        <5>3. QED
          BY <5>1, <5>2
      <4>5. ASSUME v \in LatestOnly, NEW j \in 1..Len(t), t[j].awaited
            PROVE  j = Len(t) /\ (t[j].read # Unread => shown[v] <= t[j].read)
        <5>1. PICK k \in 1..n : t[j] = s[k] /\ (k = n => j = n - 1)
          BY <4>4
        <5>2. k = n /\ (s[k].read # Unread => shown[v] <= s[k].read)
          BY <1>1, <4>1, <4>5, <5>1 DEF IInv, OnlyTheLast
        <5>3. QED
          BY <4>2, <5>1, <5>2
      <4>6. QED
        BY <3>2, <4>1, <4>3, <4>4, <4>5
    <3>3. QED
      BY <3>1, <3>2
  <2>2. QED
    BY <1>3, <2>1, HealthViewAssumption DEF NothingAhead, OnlyTheLast
<1>7. AnnouncedIsRead'
  BY <1>2, <1>3 DEF AnnouncedIsRead
<1>8. QED
  BY <1>5, <1>6, <1>7 DEF IInv

-----------------------------------------------------------------------------
(* The theorems *)

\* Every step keeps the invariant, and no step takes a page that numbers its requests
\* back to an older state.
LEMMA StepKeeps ==
  ASSUME IInv, [Next]_vars
  PROVE  IInv' /\ \A v \in LatestOnly : shown'[v] >= shown[v]
<1>1. LatestOnly \subseteq Views /\ shown \in [Views -> Nat]
  BY HealthViewAssumption DEF IInv, TypeOK
<1>2. ASSUME UNCHANGED shown
      PROVE  \A v \in LatestOnly : shown'[v] >= shown[v]
  BY <1>1, <1>2
<1>3. CASE \/ OutcomeRecorded \/ JobExpires \/ RequestRefused \/ EventProcessed
           \/ ChannelSaved \/ JobRetried \/ HistoryCleared \/ RuleSaved \/ Healed
  <2>1. PICK new \in [agent: Levels, paused: BOOLEAN, jobs: SUBSET JobStates, rejected: BOOLEAN],
             topics \in Seq(Topics) : Changes(new, topics)
    BY <1>3, ProducersChange
  <2>2. UNCHANGED shown
    BY <2>1 DEF Changes, window
  <2>3. QED
    BY <1>2, <2>1, <2>2, ChangesKeeps
<1>4. CASE Redetect
  BY <1>2, <1>4, RedetectKeeps DEF Redetect, Changes, window
<1>5. CASE Forward
  BY <1>2, <1>5, ForwardKeeps DEF Forward
<1>6. CASE RefreshTray \/ RefreshTrayBlindly
  BY <1>2, <1>6, RefreshKeeps DEF RefreshTray, RefreshTrayBlindly, window
<1>7. CASE \E v \in Views : Subscribes(v)
  BY <1>2, <1>7, SubscribesKeeps DEF Subscribes, window
<1>8. CASE \E v \in Views : \E i \in 1..Len(requests[v]) : Read(v, i)
  BY <1>2, <1>8, ReadKeeps DEF Read
<1>9. CASE \E v \in Views : \E i \in 1..Len(requests[v]) : Answer(v, i)
  BY <1>9, AnswerKeeps
<1>10. CASE \E v \in Views : \E i \in 1..Len(requests[v]) : RequestFails(v, i)
  BY <1>2, <1>10, RequestFailsKeeps DEF RequestFails
<1>11. CASE UNCHANGED vars
  <2>1. UNCHANGED <<world, version, announced, channel, calls, tray, listening, missed,
                    requests, newest, shown, faults>>
    BY <1>11 DEF vars, state, pages, window
  <2>2. TypeOK' /\ AnnouncedIsRead'
    BY <2>1 DEF IInv, TypeOK, AnnouncedIsRead
  <2>3. NothingAhead' /\ OnlyTheLast'
    BY <2>1 DEF IInv, NothingAhead, OnlyTheLast
  <2>4. QED
    BY <1>2, <2>1, <2>2, <2>3 DEF IInv
<1>12. QED
  BY <1>3, <1>4, <1>5, <1>6, <1>7, <1>8, <1>9, <1>10, <1>11 DEF Next

\* Producers, forwarder, tray and pages keep the requests and what is shown in order.
THEOREM ViewInvariant == Spec => []IInv
<1>1. Init => IInv
  <2>1. SUFFICES ASSUME Init
                 PROVE  IInv
    OBVIOUS
  <2>2. PICK first : first = [read |-> Unread, awaited |-> TRUE]
    OBVIOUS
  <2>3. PICK asked : asked = <<first>>
    OBVIOUS
  <2>4. /\ first \in Request /\ first.read = Unread /\ first.awaited
        /\ asked \in Seq(Request) /\ Len(asked) = 1 /\ asked[1] = first
    BY <2>2, <2>3 DEF Request
  <2>5. /\ requests = [v \in Views |-> asked] /\ shown = [v \in Views |-> 0]
        /\ version = 0 /\ announced = 0 /\ channel = <<>> /\ newest = [v \in Informed |-> 0]
        /\ calls = FALSE /\ tray = "ok" /\ listening = {} /\ missed = {} /\ faults = 0
        /\ world = [agent |-> "ok", paused |-> FALSE, jobs |-> {}, rejected |-> FALSE]
    BY <2>1, <2>2, <2>3 DEF Init
  <2>6. TypeOK
    <3>1. world \in [agent: Levels, paused: BOOLEAN, jobs: SUBSET JobStates, rejected: BOOLEAN]
      BY <2>5 DEF Levels
    <3>2. requests \in [Views -> Seq(Request)] /\ shown \in [Views -> Nat] /\ newest \in [Informed -> Nat]
      BY <2>4, <2>5
    <3>3. channel \in Seq(Topics) /\ tray \in Levels
      BY <2>5 DEF Levels
    <3>4. version \in Nat /\ announced \in 0..version /\ faults \in Nat
      BY <2>5
    <3>5. listening \subseteq Views /\ missed \subseteq Informed
      BY <2>5
    <3>6. calls \in BOOLEAN
      BY <2>5
    <3>7. QED
      BY <3>1, <3>2, <3>3, <3>4, <3>5, <3>6 DEF TypeOK
  <2>7. /\ \A v \in Views : requests[v] = asked /\ shown[v] = 0
        /\ \A i \in 1..Len(asked) : i = 1 /\ i = Len(asked) /\ asked[i].read = Unread
    BY <2>4, <2>5
  <2>8. NothingAhead /\ OnlyTheLast
    <3>1. Unread <= version /\ 0 <= version
      BY <2>5
    <3>2. NothingAhead
      BY <2>5, <2>7, <3>1 DEF NothingAhead
    <3>3. OnlyTheLast
      BY <2>7, HealthViewAssumption DEF OnlyTheLast
    <3>4. QED
      BY <3>2, <3>3
  <2>9. AnnouncedIsRead
    BY <2>5 DEF AnnouncedIsRead
  <2>10. QED
    BY <2>6, <2>8, <2>9 DEF IInv
<1>2. IInv /\ [Next]_vars => IInv'
  BY StepKeeps
<1>3. QED
  BY <1>1, <1>2, PTL DEF Spec

\* Every variable has its type.
THEOREM TypeCorrect == Spec => []TypeOK
<1>1. IInv => TypeOK
  BY DEF IInv
<1>2. QED
  BY <1>1, ViewInvariant, PTL

\* A page told of every topic has read what was announced or is about to, though the
\* channel drops what it has no room for (events.rs, try_send).
THEOREM DropsAreMadeUpFor == Spec => []AnnouncedIsRead
<1>1. IInv => AnnouncedIsRead
  BY DEF IInv
<1>2. QED
  BY <1>1, ViewInvariant, PTL

\* A page that numbers its requests (HistoryPage.tsx) never goes back to an older
\* state, in whatever order the answers come.
THEOREM NumberedPagesAdvance == Spec => NeverOlder
<1>1. IInv /\ [Next]_vars => [\A v \in LatestOnly : shown'[v] >= shown[v]]_vars
  BY StepKeeps
<1>2. QED
  BY <1>1, ViewInvariant, PTL DEF Spec, NeverOlder
=============================================================================
