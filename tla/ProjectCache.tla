--------------------------- MODULE ProjectCache ---------------------------
(***************************************************************************)
(* Registered projects and who knows of them. The tables projects and      *)
(* project_paths are the truth. Every edit, once committed, writes the     *)
(* file project-paths.json, which the hook helper resolves working         *)
(* directories with; the application resolves live events with what it     *)
(* read from the tables when it started. The file is written from reads    *)
(* that are statements of their own, so edits may fall between them.       *)
(***************************************************************************)
EXTENDS CommandThreads, Sequences, SequencesExt, FiniteSets

CONSTANTS
  Projects, Paths,
  Parent,      \* Parent[p]: the directory p lies in, or NoPath
  GitRoot,     \* GitRoot[p]: the working tree whose repository p belongs to, or NoPath
  NoPath,
  Depth,       \* Depth[p]: segments of the normalized path p
  MaxPaths     \* paths of one project the file has room for (200)

ASSUME CacheAssumption ==
  /\ Parent \in [Paths -> Paths \cup {NoPath}] /\ GitRoot \in [Paths -> Paths \cup {NoPath}]
  /\ NoPath \notin Paths
  /\ Depth \in [Paths \cup {NoPath} -> Nat]
  /\ \A p \in Paths : Depth[Parent[p]] < Depth[p]
  /\ MaxPaths \in Nat
  /\ IsFiniteSet(Projects)

VARIABLES
  root,       \* root[r]: the root of project r, or NoPath when r is not registered
  others,     \* others[r]: its aliases and worktrees
  cache,      \* cache[r]: the paths of r in project-paths.json
  known,      \* known[r]: the paths of r the running application resolves with
  failed,     \* the stored health of the cache: regeneration failed
  behind      \* history: the file was published over by an older one, or not published

cacheVars == <<root, others, cache, known, failed, behind>>

Registered == {r \in Projects : root[r] # NoPath}
PathsOf(r) == IF r \in Registered THEN {root[r]} \cup others[r] ELSE {}
Tables == [r \in Projects |-> PathsOf(r)]
Taken == UNION {PathsOf(r) : r \in Projects}

\* The tables as earlier sessions left them, with the file of the last edit.
CacheInit ==
  /\ root \in [Projects -> Paths \cup {NoPath}]
  /\ others \in [Projects -> SUBSET Paths]
  /\ \A r \in Projects :
       /\ root[r] = NoPath => others[r] = {}
       /\ root[r] \notin others[r]
       /\ \A q \in Projects \ {r} : PathsOf(r) \cap PathsOf(q) = {}
  /\ cache = Tables
  /\ known = Tables
  /\ failed = FALSE
  /\ behind = FALSE

(***************************************************************************)
(* Resolution of a working directory: among the registered paths that are  *)
(* a prefix of it, the one of most segments. Two projects may only share a *)
(* path in a torn copy.                                                    *)
(***************************************************************************)
Above[p \in Paths \cup {NoPath}] == IF p = NoPath THEN {} ELSE {p} \cup Above[Parent[p]]

ResolvesAmong(regs, p) ==
  LET prefixes == {a \in Above[p] : \E r \in Projects : a \in regs[r]}
      longest  == {a \in prefixes : \A b \in prefixes : Depth[b] <= Depth[a]}
  IN {r \in Projects : \E a \in longest : a \in regs[r]}

\* The helper resolves with the file, the application with what it read at its start.
HelperResolves(p) == ResolvesAmong(cache, p)
AppResolves(p) == ResolvesAmong(known, p)

(***************************************************************************)
(* The edits: one immediate transaction each. A path belongs to one        *)
(* project (UNIQUE), and what breaks that aborts the transaction.          *)
(***************************************************************************)
Publishing == [step |-> "list", queue |-> <<>>, copy |-> [r \in Projects |-> {}], fresh |-> FALSE]

\* A transaction committed: copies being made by others are out of date.
Committed(t) ==
  job' = [u \in Threads |->
            IF u = t THEN Publishing
            ELSE IF job[u].step \in {"copy", "rename"} THEN [job[u] EXCEPT !.fresh = FALSE]
            ELSE job[u]]

\* save_project: registered, or its root moved.
RootAllowed(r, p) == p \notin Taken \/ p = root[r]
SaveRoot(r, p) ==
  /\ RootAllowed(r, p)
  /\ root' = [root EXCEPT ![r] = p]
  /\ UNCHANGED others

\* save_project_path: an alias or a worktree of a project that is there.
PathAllowed(r, p) == r \in Registered /\ p \notin Taken
SavePath(r, p) ==
  /\ PathAllowed(r, p)
  /\ others' = [others EXCEPT ![r] = @ \cup {p}]
  /\ UNCHANGED root

\* delete_project_path: never the root.
RemovalAllowed(p) == \E r \in Registered : p \in others[r]
RemovePath(p) ==
  /\ RemovalAllowed(p)
  /\ others' = [r \in Projects |-> others[r] \ {p}]
  /\ UNCHANGED root

\* A directory inside a repository that is registered joins its owner: looked up
\* in the tables before the transaction.
Owner(p) == {r \in Registered : GitRoot[p] # p /\ GitRoot[p] \in PathsOf(r)}

BeginSave(t) ==
  \E r \in Projects, p \in Paths, alias \in BOOLEAN :
    /\ \/ ~alias /\ Begins(t, [step |-> "save", project |-> r, path |-> p])
       \/ alias /\ Owner(p) = {} /\ Begins(t, [step |-> "save", project |-> r, path |-> p])
       \/ alias /\ \E o \in Owner(p) : Begins(t, [step |-> "add", project |-> o, path |-> p])
    /\ UNCHANGED cacheVars

BeginAlias(t) ==
  \E r \in Registered, p \in Paths :
    /\ Begins(t, [step |-> "add", project |-> r, path |-> p])
    /\ UNCHANGED cacheVars

BeginRemoval(t) ==
  \E p \in Taken :
    /\ Begins(t, [step |-> "remove", path |-> p])
    /\ UNCHANGED cacheVars

Edit(t) ==
  \/ job[t].step = "save" /\ SaveRoot(job[t].project, job[t].path)
  \/ job[t].step = "add" /\ SavePath(job[t].project, job[t].path)
  \/ job[t].step = "remove" /\ RemovePath(job[t].path)

\* A mutant of CommitEdit: the removal of a path publishes nothing.
CommitEditSilently(t) ==
  /\ Edit(t)
  /\ IF job[t].step = "remove" THEN job' = [job EXCEPT ![t] = Free] ELSE Committed(t)
  /\ UNCHANGED <<begun, faults, cache, known, failed, behind>>

CommitEdit(t) ==
  /\ Edit(t)
  /\ Committed(t)
  /\ UNCHANGED <<begun, faults, cache, known, failed, behind>>

\* Refused (unknown project, path taken, a root cannot be removed).
EditRefused(t) ==
  /\ \/ job[t].step = "save" /\ ~RootAllowed(job[t].project, job[t].path)
     \/ job[t].step = "add" /\ ~PathAllowed(job[t].project, job[t].path)
     \/ job[t].step = "remove" /\ ~RemovalAllowed(job[t].path)
  /\ Ends(t)
  /\ UNCHANGED cacheVars

(***************************************************************************)
(* The publication: list the projects, read each one's paths, write a new  *)
(* file and rename it over the old, store how it went.                     *)
(***************************************************************************)
ListProjects(t) ==
  /\ job[t].step = "list"
  /\ \E order \in SetToSeqs(Registered) :
       Continues(t, [job[t] EXCEPT !.step = IF order = <<>> THEN "rename" ELSE "copy",
                                   !.queue = order, !.fresh = TRUE])
  /\ UNCHANGED cacheVars

CopyProject(t) ==
  LET r == Head(job[t].queue) IN
  /\ job[t].step = "copy"
  /\ Cardinality(PathsOf(r)) <= MaxPaths
  /\ Continues(t, [job[t] EXCEPT !.step = IF Len(job[t].queue) = 1 THEN "rename" ELSE "copy",
                                 !.queue = Tail(@), !.copy[r] = PathsOf(r)])
  /\ UNCHANGED cacheVars

Rename(t) ==
  /\ job[t].step = "rename"
  /\ cache' = job[t].copy
  /\ behind' = ~job[t].fresh
  /\ Continues(t, [step |-> "health", failed |-> FALSE])
  /\ UNCHANGED <<root, others, known, failed>>

\* Too much for the file, whatever was committed.
TooLarge(t) ==
  /\ job[t].step = "copy"
  /\ Cardinality(PathsOf(Head(job[t].queue))) > MaxPaths
  /\ behind' = TRUE
  /\ Continues(t, [step |-> "health", failed |-> TRUE])
  /\ UNCHANGED <<root, others, cache, known, failed>>

\* A path listed a moment ago is gone, or the file cannot be written.
PublishFails(t) ==
  /\ job[t].step \in {"list", "copy", "rename"}
  /\ Faulty
  /\ behind' = TRUE
  /\ job' = [job EXCEPT ![t] = [step |-> "health", failed |-> TRUE]]
  /\ UNCHANGED <<root, others, cache, known, failed>>

StoreHealth(t) ==
  /\ job[t].step = "health"
  /\ failed' = job[t].failed
  /\ Ends(t)
  /\ UNCHANGED <<root, others, cache, known, behind>>

\* The application stops and starts: it reads its registrations again, but
\* writes no file.
CacheRestart ==
  /\ known' = Tables
  /\ behind' = (behind \/ \E t \in Threads : job[t].step \in {"list", "copy", "rename"})
  /\ UNCHANGED <<root, others, cache, failed>>

CacheStep(t) ==
  \/ BeginSave(t)
  \/ BeginAlias(t)
  \/ BeginRemoval(t)
  \/ CommitEdit(t)
  \/ EditRefused(t)
  \/ ListProjects(t)
  \/ CopyProject(t)
  \/ Rename(t)
  \/ TooLarge(t)
  \/ PublishFails(t)
  \/ StoreHealth(t)

CacheTypeOK ==
  /\ root \in [Projects -> Paths \cup {NoPath}]
  /\ others \in [Projects -> SUBSET Paths]
  /\ cache \in [Projects -> SUBSET Paths]
  /\ known \in [Projects -> SUBSET Paths]
  /\ failed \in BOOLEAN /\ behind \in BOOLEAN

InFlight == \E t \in Threads : job[t].step \in {"list", "copy", "rename"}

\* When no publication is under way, the helper gives every directory the
\* project of the nearest path registered above it, and at most one project,
\* unless the last file came from before an edit or was not written.
NearestProjectKnown ==
  InFlight \/ behind \/
    \A p \in Paths :
      LET nearest == HelperResolves(p) IN
      /\ Cardinality(nearest) <= 1
      /\ \A r \in nearest : \E a \in PathsOf(r) :
           a \in Above[p] /\ Taken \cap Above[p] \subseteq Above[a]
      /\ nearest = {} => Taken \cap Above[p] = {}

\* The application files a live event under the project its directory is
\* registered for.
LiveEventsMatchProject ==
  \A p \in Paths : AppResolves(p) = ResolvesAmong(Tables, p)

(***************************************************************************)
(* The inductive invariant.                                                *)
(***************************************************************************)
\* The jobs that edit and publish.
CacheJobs ==
  [step: {"save", "add"}, project: Projects, path: Paths] \cup [step: {"remove"}, path: Paths]
  \cup [step: {"list", "copy", "rename"}, queue: Seq(Projects), copy: [Projects -> SUBSET Paths],
        fresh: BOOLEAN]
  \cup [step: {"health"}, failed: BOOLEAN]

\* A path belongs to one project, and only a registered one has paths.
PathsHaveOneOwner ==
  /\ \A r \in Projects : root[r] = NoPath => others[r] = {}
  /\ \A r, q \in Projects : r # q => PathsOf(r) \cap PathsOf(q) = {}

\* A copy no edit has overtaken holds each project as the tables do, or has it still
\* to come.
CopyFollows(work) ==
  /\ work.step = "list" => work.copy = [r \in Projects |-> {}]
  /\ work.step = "copy" => work.queue # <<>>
  /\ work.step \in {"copy", "rename"} /\ work.fresh =>
       \A r \in Projects :
         \/ work.copy[r] = PathsOf(r)
         \/ work.step = "copy" /\ \E i \in 1..Len(work.queue) : work.queue[i] = r
CopiesFollow == \A t \in Threads : CopyFollows(job[t])

\* When no publication is under way, the file is what the tables hold, unless it
\* came from before an edit or was not written.
FileIsCurrent == InFlight \/ behind \/ cache = Tables

CacheInv == CacheTypeOK /\ PathsHaveOneOwner /\ CopiesFollow /\ FileIsCurrent
=============================================================================
