----------------------------- MODULE HealthView -----------------------------
(***************************************************************************)
(* What the user sees of the program's health: the entry of the tray menu  *)
(* and the pages of the window, which are told that something changed and  *)
(* then read the state for themselves.  The announcements of every         *)
(* producer go through one bounded channel that drops what it cannot hold; *)
(* the forwarder is its only reader.  A page's request is read by a thread *)
(* of the core and answered in any order.                                  *)
(***************************************************************************)
EXTENDS Integers, Sequences, FiniteSets, Functions

CONSTANTS
  Views,          \* pages of the window
  Listens,        \* view -> the topics it has subscribed to
  Found,          \* levels the detection can find the agents at
  LatestOnly,     \* views that number their requests and keep the last one's answer
  Capacity,       \* announcements the channel holds
  MaxChanges,     \* bound: changes of the state
  MaxFaults,      \* bound: requests and reads that fail
  MaxOfPage,      \* bound: unanswered requests of one page
  MaxInFlight     \* bound: unanswered requests of all pages

Topics == {"health", "queue", "history"}
Levels == {"ok", "warning", "error"}

ASSUME HealthViewAssumption ==
  /\ Listens \in [Views -> SUBSET Topics] /\ LatestOnly \subseteq Views
  /\ Found \subseteq Levels
  /\ Capacity \in Nat \ {0} /\ {MaxOfPage, MaxInFlight} \subseteq Nat \ {0}
  /\ MaxChanges \in Nat /\ MaxFaults \in Nat

Informed == {v \in Views : Listens[v] = Topics}

VARIABLES
  world,      \* what the database and the counters say
  version,    \* history: how often that changed
  announced,  \* history: the last version a producer announced on any topic
  channel,    \* the announcements under way
  calls,      \* whether a rebuilding of the tray menu waits for the main thread
  tray,       \* the level the menu shows
  listening,  \* pages whose subscriptions are in place
  missed,     \* history: pages told of everything that an announcement passed by before
  requests,   \* view -> its unanswered requests
  newest,     \* history: page told of everything -> the newest version read for it
  shown,      \* view -> the version it shows
  faults

state == <<world, version, announced>>
pages == <<listening, missed>>
window == <<requests, newest, shown>>
vars == <<state, channel, calls, tray, pages, window, faults>>

(***************************************************************************)
(* The state, and its projection.                                          *)
(***************************************************************************)
Unread == -1   \* of a request no thread of the core has come to

Worst(levels) ==
  IF "error" \in levels THEN "error" ELSE IF "warning" \in levels THEN "warning" ELSE "ok"

JobStates == {"retry_wait", "failed"}   \* failed stands for expired too: both are errors

\* project_health over build_health_snapshot: agents with their hooks, channels,
\* the queue's counts, refused requests.
Overall ==
  Worst({world.agent}
        \cup (IF world.paused THEN {"warning"} ELSE {})
        \cup (IF "failed" \in world.jobs THEN {"error"} ELSE {})
        \cup (IF "retry_wait" \in world.jobs \/ world.rejected THEN {"warning"} ELSE {}))

Init ==
  /\ world = [agent |-> "ok", paused |-> FALSE, jobs |-> {}, rejected |-> FALSE]
  /\ version = 0 /\ announced = 0
  /\ channel = <<>> /\ calls = FALSE
  /\ tray = "ok"
  /\ listening = {} /\ missed = {}
  /\ requests = [v \in Views |-> <<[read |-> Unread, awaited |-> TRUE]>>]
  /\ newest = [v \in Informed |-> 0] /\ shown = [v \in Views |-> 0]
  /\ faults = 0

(***************************************************************************)
(* Producers.  try_send: what the channel has no room for is dropped.      *)
(***************************************************************************)
Upto(n, s) == SubSeq(s, 1, IF Len(s) < n THEN Len(s) ELSE n)
Emit(topics) == channel' = Upto(Capacity, channel \o topics)

Changes(new, topics) ==
  /\ version < MaxChanges
  /\ world' = new /\ version' = version + 1
  /\ announced' = IF topics = <<>> THEN announced ELSE version + 1
  /\ Emit(topics)
  /\ UNCHANGED <<calls, tray, pages, window, faults>>

\* The worker has recorded an outcome, which may have paused the channel.
OutcomeRecorded ==
  \E jobs \in SUBSET JobStates :
    LET after == [world EXCEPT !.jobs = jobs \cup (@ \cap {"failed"})] IN
    \/ Changes(after, <<"queue">>)
    \/ Changes([after EXCEPT !.paused = TRUE], <<"health", "queue">>)

\* A pass sweeps jobs past their deadline before it claims: no one is told.
JobExpires == Changes([world EXCEPT !.jobs = {"failed"}], <<>>)

\* A request of a helper is refused, or its handling panics.
RequestRefused == Changes([world EXCEPT !.rejected = TRUE], <<"health">>)
EventProcessed == Changes(world, <<"history">>)

\* Commands of the window: a channel saved or its credential replaced, a job
\* retried, the history cleared, a rule saved.
ChannelSaved == world.paused /\ Changes([world EXCEPT !.paused = FALSE], <<>>)
JobRetried == "failed" \in world.jobs /\ Changes([world EXCEPT !.jobs = @ \ {"failed"}], <<>>)
HistoryCleared ==
  world.jobs # {} /\ Changes([world EXCEPT !.jobs = @ \cap {"retry_wait"}], <<"history">>)
RuleSaved == Changes(world, <<"health">>)

\* Self-heal has written the hooks back.
Healed == world.agent # "ok" /\ Changes([world EXCEPT !.agent = "ok"], <<"health">>)

\* Every six hours: whatever it finds, and whether or not that can be stored.
RedetectQuietly ==   \* a mutant of Redetect: only a difference is announced
  \E level \in Found \ {world.agent} : Changes([world EXCEPT !.agent = level], <<"health">>)
Redetect ==
  \/ \E level \in Found \ {world.agent} :
       Changes([world EXCEPT !.agent = level], <<"health">>)
  \/ /\ Emit(<<"health">>)
     /\ announced' = version
     /\ UNCHANGED <<world, version, calls, tray, pages, window, faults>>

(***************************************************************************)
(* The forwarder and the tray.                                             *)
(***************************************************************************)
\* A page that numbers its requests no longer waits for the ones before.
Asked(v) ==
  Append([i \in 1..Len(requests[v]) |-> [requests[v][i] EXCEPT !.awaited = v \notin LatestOnly]],
         [read |-> Unread, awaited |-> TRUE])

\* A mutant of Told: a view that waits for an answer is not asked again.
ToldOnce(topic) == {v \in listening : topic \in Listens[v] /\ requests[v] = <<>>}
Told(topic) == {v \in listening : topic \in Listens[v]}

InFlight == SumFunction([v \in Views |-> Len(requests[v])])

Forward ==
  /\ channel # <<>>
  /\ \A v \in Told(Head(channel)) : Len(requests[v]) < MaxOfPage
  /\ InFlight + Cardinality(Told(Head(channel))) <= MaxInFlight
  /\ channel' = Tail(channel)
  /\ requests' = [v \in Views |-> IF v \in Told(Head(channel)) THEN Asked(v) ELSE requests[v]]
  /\ missed' = (missed \cup (Informed \ listening)) \ Told(Head(channel))
  /\ calls' = (calls \/ Head(channel) = "health")
  /\ UNCHANGED <<state, tray, listening, newest, shown, faults>>

RefreshTray ==
  /\ calls /\ calls' = FALSE
  /\ tray' = Overall
  /\ UNCHANGED <<state, channel, pages, window, faults>>

\* A snapshot that cannot be read counts as a good one.
RefreshTrayBlindly ==
  /\ calls /\ calls' = FALSE
  /\ faults < MaxFaults /\ faults' = faults + 1
  /\ tray' = "ok"
  /\ UNCHANGED <<state, channel, pages, window>>

(***************************************************************************)
(* The pages.                                                              *)
(***************************************************************************)
\* A page asks for the first time before its subscriptions are in place.
Subscribes(v) ==
  /\ v \notin listening /\ listening' = listening \cup {v}
  /\ UNCHANGED <<state, channel, calls, tray, missed, window, faults>>

Read(v, i) ==
  /\ requests[v][i].read = Unread
  /\ requests' = [requests EXCEPT ![v][i].read = version]
  /\ newest' = [w \in Informed |-> IF w = v THEN version ELSE newest[w]]
  /\ UNCHANGED <<state, channel, calls, tray, pages, shown, faults>>

Without(s, i) == SubSeq(s, 1, i - 1) \o SubSeq(s, i + 1, Len(s))

AppliesAny(v, i) == TRUE   \* a mutant of Applies
Applies(v, i) == requests[v][i].awaited

Answer(v, i) ==
  /\ requests[v][i].read # Unread
  /\ requests' = [requests EXCEPT ![v] = Without(@, i)]
  /\ shown' = IF Applies(v, i) THEN [shown EXCEPT ![v] = requests[v][i].read] ELSE shown
  /\ UNCHANGED <<state, channel, calls, tray, pages, newest, faults>>

\* The page keeps what it has.
RequestFails(v, i) ==
  /\ faults < MaxFaults /\ faults' = faults + 1
  /\ requests' = [requests EXCEPT ![v] = Without(@, i)]
  /\ UNCHANGED <<state, channel, calls, tray, pages, newest, shown>>

Next ==
  \/ OutcomeRecorded \/ JobExpires \/ RequestRefused \/ EventProcessed
  \/ ChannelSaved \/ JobRetried \/ HistoryCleared \/ RuleSaved \/ Healed \/ Redetect
  \/ Forward \/ RefreshTray \/ RefreshTrayBlindly
  \/ \E v \in Views :
       \/ Subscribes(v)
       \/ \E i \in 1..Len(requests[v]) : Read(v, i) \/ Answer(v, i) \/ RequestFails(v, i)

\* The forwarder and the main thread go on, threads of the core and the window
\* answer, and the timer of the detection fires again and again.
Fairness ==
  /\ WF_vars(Forward) /\ WF_vars(RefreshTray) /\ WF_vars(Redetect)
  /\ \A v \in Views :
       /\ WF_vars(Subscribes(v))
       /\ WF_vars(\E i \in 1..Len(requests[v]) : Read(v, i))
       /\ WF_vars(\E i \in 1..Len(requests[v]) : Answer(v, i))

Spec == Init /\ [][Next]_vars /\ Fairness
-----------------------------------------------------------------------------
\* The tray and the pages told of the health come to show the state, though some
\* changes are not announced, some announcements dropped and some reads failed:
\* the detection announces even what it finds unchanged.
ViewsCatchUp ==
  LET current == tray = Overall /\ \A v \in Views : "health" \in Listens[v] => shown[v] = version
  IN ~current ~> current

\* A page that numbers its requests never goes back to an older state, whatever
\* the order of the answers.
NeverOlder == [][\A v \in LatestOnly : shown'[v] >= shown[v]]_vars

\* For a page told of every topic a dropped announcement is made up for: one that
\* is still in the channel has it read the state again, once it listens.
AnnouncedIsRead ==
  \A v \in Informed :
    \/ newest[v] >= announced \/ channel # <<>> \/ v \in missed
    \/ \E i \in 1..Len(requests[v]) : requests[v][i].read = Unread
    \/ faults > 0

(***************************************************************************)
(* What the code does not keep.                                            *)
(***************************************************************************)
\* What changes the level on the tray tells it so: the outcome of a job changes it
\* and is announced to the pages of the queue only, and an announcement that finds
\* the channel full is dropped, though worker.rs has the next one make up for it.
TrayIsTold ==
  [][Overall' # Overall /\ tray' # Overall'
       => calls' \/ \E i \in 1..Len(channel') : channel'[i] = "health"]_vars

\* A page never goes back to an older state: the ones that do not number their
\* requests apply the answers as they come.
NoPageOlder == [][\A v \in Views : shown'[v] >= shown[v]]_vars

(***************************************************************************)
(* The inductive invariant.                                                *)
(***************************************************************************)
Request == [read: Nat \cup {Unread}, awaited: BOOLEAN]
TypeOK ==
  /\ world \in [agent: Levels, paused: BOOLEAN, jobs: SUBSET JobStates, rejected: BOOLEAN]
  /\ version \in Nat /\ announced \in 0..version
  /\ channel \in Seq(Topics) /\ calls \in BOOLEAN /\ tray \in Levels
  /\ listening \subseteq Views /\ missed \subseteq Informed
  /\ requests \in [Views -> Seq(Request)]
  /\ newest \in [Informed -> Nat] /\ shown \in [Views -> Nat]
  /\ faults \in Nat

\* Neither what a page shows nor an answer to come is ahead of the state.
NothingAhead ==
  \A v \in Views :
    shown[v] <= version /\ \A i \in 1..Len(requests[v]) : requests[v][i].read <= version

\* A page that numbers its requests waits for its last one only, and the answer to
\* that one is not older than what the page shows.
OnlyTheLast ==
  \A v \in LatestOnly : \A i \in 1..Len(requests[v]) :
    requests[v][i].awaited =>
      /\ i = Len(requests[v])
      /\ requests[v][i].read # Unread => shown[v] <= requests[v][i].read

IInv == TypeOK /\ NothingAhead /\ OnlyTheLast /\ AnnouncedIsRead
=============================================================================
