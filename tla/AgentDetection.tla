--------------------------- MODULE AgentDetection --------------------------
(***************************************************************************)
(* Which versions of the agents the program believes in. A detection runs  *)
(* the version command of one candidate after the other, then writes the   *)
(* version into agent-versions.json, where the hook helper looks it up for *)
(* every event, and into agent_installations, where health is read. The    *)
(* file holds all agents and is read, changed and renamed without a lock,  *)
(* by commands of the window and by a loop that detects again every six    *)
(* hours. A hook action detects too, and asks for a confirmation of a      *)
(* version that is only compatible with a verified one.                    *)
(***************************************************************************)
EXTENDS CommandThreads, Sequences, FiniteSetsExt

CONSTANTS
  AgentOrder,        \* the agents, in the order a detection takes them
  Places,            \* number of candidate paths
  Versions,          \* versions an agent may have, ordered as semver is
  Line(_),           \* major.minor of a version
  Catalogued(_),     \* the versions with an embedded catalog, by agent
  Events, SafeEvents,
  HooksOf(_, _),     \* the events in the catalog of a version, by agent
  Required(_),       \* the events the rules ask for, by agent
  Broken,            \* invalid version, process failed, timed out
  Missing, None,
  Loop,              \* the thread of the periodic detection
  FirstAnswers,      \* what the candidates of an agent may answer at the start
  MaxChanges         \* bound: updates and removals of agents

Agents == {AgentOrder[i] : i \in 1..Len(AgentOrder)}
Answers == Versions \cup Broken \cup {None}

ASSUME DetectionAssumption ==
  /\ Versions \subseteq Nat /\ Missing \notin Versions /\ None \notin Versions
  /\ Broken \cap (Versions \cup {Missing, None}) = {}
  /\ Places \in Nat \ {0} /\ MaxChanges \in Nat
  /\ Loop \in Threads
  /\ AgentOrder \in Seq(Agents) /\ AgentOrder # <<>>
  /\ FirstAnswers \subseteq [1..Places -> Answers]
  /\ SafeEvents \subseteq Events
  /\ \A a \in Agents :
       /\ Required(a) \subseteq Events
       /\ Catalogued(a) # {} /\ Catalogued(a) \subseteq Versions
       /\ \A v \in Catalogued(a) : SafeEvents \subseteq HooksOf(a, v)

VARIABLES
  files,     \* files[a][i]: what the i-th candidate of a answers (None: no such file)
  cache,     \* cache[a]: the version of a in agent-versions.json
  row,       \* row[a]: what the row of a says was found
  hooks,     \* hooks[a]: events whose entries an action has installed
  changes

agentVars == <<files, cache, row, hooks, changes>>
detectionVars == <<threadVars, agentVars>>

NoVersions == [a \in Agents |-> None]

DetectionInit ==
  /\ ThreadsInit
  /\ files \in [Agents -> FirstAnswers]
  /\ cache = NoVersions
  /\ row = NoVersions
  /\ hooks = [a \in Agents |-> {}]
  /\ changes = 0

(***************************************************************************)
(* The catalog a version is held against.                                  *)
(***************************************************************************)
SameLine(a, v) == {c \in Catalogued(a) : Line(c) = Line(v)}

\* The nearest verified version below, or the only one of the line.
Compatible(a, v) ==
  LET below == {c \in SameLine(a, v) : c <= v} IN
  IF below # {} THEN {Max(below)}
  ELSE IF Cardinality(SameLine(a, v)) = 1 THEN SameLine(a, v) ELSE {}

Verification(a, v) ==
  CASE v \in Catalogued(a)       -> "exact"
    [] v \in Versions \ Catalogued(a) /\ Compatible(a, v) # {} -> "compatible"
    [] OTHER                     -> "upgrade_required"

EventsFor(a, v) ==
  CASE Verification(a, v) = "exact"      -> HooksOf(a, v)
    [] Verification(a, v) = "compatible" -> UNION {HooksOf(a, c) : c \in Compatible(a, v)}
    [] OTHER                             -> SafeEvents

\* What the helper makes of an event: without a version it is dropped without
\* a word, and an event that is not in the version's catalog is an error.
Captured(a, e) == cache[a] # None /\ e \in EventsFor(a, cache[a])

(***************************************************************************)
(* A detection.                                                            *)
(***************************************************************************)
\* The first candidate that answers with a version, or the last failure.
Found(answers) ==
  LET good == {i \in 1..Places : answers[i] \in Versions}
      bad  == {i \in 1..Places : answers[i] \in Broken}
  IN IF good # {} THEN answers[Min(good)] ELSE IF bad # {} THEN answers[Max(bad)] ELSE Missing

Probing(kind, queue, confirmed) ==
  [step |-> "probe", kind |-> kind, queue |-> queue, confirmed |-> confirmed,
   at |-> 1, found |-> Missing, copy |-> NoVersions, behind |-> FALSE]

DetectAgents(t) ==
  /\ \E kind \in {"detect", "list"} : Begins(t, Probing(kind, AgentOrder, FALSE))
  /\ UNCHANGED agentVars

ApplyHookAction(t) ==
  /\ \E a \in Agents, confirmed \in BOOLEAN : Begins(t, Probing("act", <<a>>, confirmed))
  /\ UNCHANGED agentVars

\* The loop is not counted among the commands, and awaits its pass.
RedetectTick ==
  /\ job[Loop] = Free
  /\ Continues(Loop, Probing("detect", AgentOrder, FALSE))
  /\ UNCHANGED agentVars

AgentOf(t) == Head(job[t].queue)

\* After the file: the row, the gate, or the next agent.
AfterCache(t) ==
  CASE job[t].kind = "detect" -> [job[t] EXCEPT !.step = "row", !.copy = NoVersions, !.behind = FALSE]
    [] job[t].kind = "act"    -> [job[t] EXCEPT !.step = "gate", !.copy = NoVersions, !.behind = FALSE]
    [] OTHER ->
         IF Len(job[t].queue) = 1 THEN Free
         ELSE Probing(job[t].kind, Tail(job[t].queue), job[t].confirmed)

\* One version command: killed after two seconds, its answer parsed.
Probe(t) ==
  LET answer == files[AgentOf(t)][job[t].at]
      last   == job[t].at = Places
  IN
  /\ job[t].step = "probe"
  /\ IF answer \in Versions
     THEN Continues(t, [job[t] EXCEPT !.step = "read", !.found = answer])
     ELSE LET seen == [job[t] EXCEPT !.found = IF answer = None THEN @ ELSE answer] IN
          IF last
          THEN Continues(t, CASE job[t].kind = "detect" -> [seen EXCEPT !.step = "row"]
                              [] job[t].kind = "act"    -> [seen EXCEPT !.step = "gate"]
                              [] OTHER -> AfterCache(t))
          ELSE Continues(t, [seen EXCEPT !.at = @ + 1])
  /\ UNCHANGED agentVars

\* write_detected: all agents of the file, with this one's version.
ReadCacheEmpty(t) ==   \* a mutant of ReadCache: the file is not read
  /\ job[t].step = "read"
  /\ Continues(t, [job[t] EXCEPT !.step = "rename",
                                 !.copy = [NoVersions EXCEPT ![AgentOf(t)] = job[t].found]])
  /\ UNCHANGED agentVars
ReadCache(t) ==
  /\ job[t].step = "read"
  /\ Continues(t, [job[t] EXCEPT !.step = "rename",
                                 !.copy = [cache EXCEPT ![AgentOf(t)] = job[t].found]])
  /\ UNCHANGED agentVars

\* Whoever has read the file before is behind from now on.
RenameCache(t) ==
  /\ job[t].step = "rename"
  /\ cache' = job[t].copy
  /\ job' = [u \in Threads |->
               IF u = t THEN AfterCache(t)
               ELSE IF job[u] # Free /\ job[u].step = "rename" THEN [job[u] EXCEPT !.behind = TRUE]
               ELSE job[u]]
  /\ UNCHANGED <<begun, faults, files, row, hooks, changes>>

\* A failure is not reported to anybody.
CacheWriteFails(t) ==
  /\ job[t].step \in {"read", "rename"}
  /\ Faulty
  /\ job' = [job EXCEPT ![t] = AfterCache(t)]
  /\ UNCHANGED agentVars

Persisted(t) ==
  IF Len(job[t].queue) = 1 THEN Free
  ELSE Probing("detect", Tail(job[t].queue), FALSE)

\* persist_detection, whatever was found; its failure goes to the log.
PersistVersionsOnly(t) ==   \* a mutant of PersistDetection: a failed detection is not stored
  /\ job[t].step = "row"
  /\ row' = IF job[t].found \in Versions THEN [row EXCEPT ![AgentOf(t)] = job[t].found] ELSE row
  /\ Continues(t, Persisted(t))
  /\ UNCHANGED <<files, cache, hooks, changes>>
PersistDetection(t) ==
  /\ job[t].step = "row"
  /\ row' = [row EXCEPT ![AgentOf(t)] = job[t].found]
  /\ Continues(t, Persisted(t))
  /\ UNCHANGED <<files, cache, hooks, changes>>

PersistFails(t) ==
  /\ job[t].step = "row"
  /\ Faulty
  /\ job' = [job EXCEPT ![t] = Persisted(t)]
  /\ UNCHANGED agentVars

\* apply_hook_action: only a compatible version is asked about. An agent that was
\* not found counts as one of an unknown version.
Refused(t) ==
  /\ job[t].step = "gate"
  /\ Verification(AgentOf(t), job[t].found) = "compatible" /\ ~job[t].confirmed
  /\ Ends(t)
  /\ UNCHANGED agentVars

\* The entries of every event the rules require, whatever the catalog.
Install(t) ==
  /\ job[t].step = "gate"
  /\ Verification(AgentOf(t), job[t].found) = "compatible" => job[t].confirmed
  /\ hooks' = [hooks EXCEPT ![AgentOf(t)] = Required(AgentOf(t))]
  /\ Ends(t)
  /\ UNCHANGED <<files, cache, row, changes>>

\* The helper cannot be deployed, or the configuration file not replaced.
InstallFails(t) ==
  /\ job[t].step = "gate"
  /\ Aborts(t)
  /\ UNCHANGED agentVars

(***************************************************************************)
(* What happens around it.                                                 *)
(***************************************************************************)
\* An agent is installed, updated or removed, or its command fails.
AgentChanges ==
  /\ changes < MaxChanges
  /\ changes' = changes + 1
  /\ \E a \in Agents, i \in 1..Places, x \in Answers :
       files[a][i] # x /\ files' = [files EXCEPT ![a][i] = x]
  /\ UNCHANGED <<threadVars, cache, row, hooks>>

\* The file is removed, or can no longer be read as one.
CacheDamaged ==
  /\ Faulty
  /\ cache # NoVersions /\ cache' = NoVersions
  /\ UNCHANGED <<job, files, row, hooks, changes>>

Restart ==
  /\ AllEnd
  /\ UNCHANGED agentVars

DetectionStep(t) ==
  \/ Probe(t)
  \/ ReadCache(t) \/ RenameCache(t) \/ CacheWriteFails(t)
  \/ PersistDetection(t) \/ PersistFails(t)
  \/ Refused(t) \/ Install(t) \/ InstallFails(t)

DetectionNext ==
  \/ \E t \in Threads \ {Loop} : DetectAgents(t) \/ ApplyHookAction(t)
  \/ RedetectTick
  \/ \E t \in Threads : DetectionStep(t)
  \/ AgentChanges
  \/ CacheDamaged
  \/ Restart

\* The loop's timer goes on ticking, and the threads of the pool run.
Fairness == WF_detectionVars(RedetectTick) /\ \A t \in Threads : WF_detectionVars(DetectionStep(t))

DetectionSpec == DetectionInit /\ [][DetectionNext]_detectionVars /\ Fairness

(***************************************************************************)
(* Properties.                                                             *)
(***************************************************************************)
DetectionTypeOK ==
  /\ files \in [Agents -> [1..Places -> Answers]]
  /\ cache \in [Agents -> Versions \cup {None}]
  /\ row \in [Agents -> Versions \cup Broken \cup {Missing, None}]
  /\ hooks \in [Agents -> SUBSET Events]
  /\ changes \in 0..MaxChanges

\* The detections under way.
DetectionJobs ==
  [step: {"probe", "read", "rename", "row", "gate"}, kind: {"detect", "list", "act"},
   queue: Seq(Agents) \ {<<>>}, confirmed: BOOLEAN, at: 1..Places,
   found: Versions \cup Broken \cup {Missing},
   copy: [Agents -> Versions \cup {None}], behind: BOOLEAN]
DetectionJobsOK == job \in [Threads -> {Free} \cup DetectionJobs]

\* A detection that goes on to the file has found a version, and a copy read after
\* the last write of the file lacks nothing that the file holds.
CopiesAreComplete ==
  \A t \in Threads :
    /\ job[t].step = "read" => job[t].found \in Versions
    /\ job[t].step = "rename" /\ ~job[t].behind =>
         \A a \in Agents : cache[a] # None => job[t].copy[a] # None

DetectionInv == DetectionTypeOK /\ DetectionJobsOK /\ CopiesAreComplete

\* A detection of one agent never makes the helper forget the version of
\* another, and with it drop the other's events, unless two detections wrote
\* the file at once or the file could not be read.
KnownStaysKnown ==
  [][\A a \in Agents :
       cache[a] # None /\ cache'[a] = None =>
         cache' = NoVersions \/ \E t \in Threads : job[t] # Free /\ job[t].step = "rename" /\ job[t].behind]_detectionVars

\* Once the agents stop changing, the row of each says what is installed, and
\* the helper looks up the version that is: an overlapped write or an older
\* detection stored last is made good by the loop.
UpgradeNoticed ==
  <>[](\A a \in Agents :
         /\ row[a] = Found(files[a])
         /\ Found(files[a]) \in Versions => cache[a] = Found(files[a]))

\* What docs/operations.md says of an agent whose version no catalog verifies:
\* only events that are captured for it are installed.
OnlyCapturedInstalled ==
  \A a \in Agents : cache[a] # None => \A e \in hooks[a] : Captured(a, e)
=============================================================================
