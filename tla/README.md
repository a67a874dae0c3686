# CC Reminder in TLA+

CC Reminder is a desktop application (Tauri 2: a Rust core under `src/src-tauri/src`,
a React front end under `src/src`). The hooks of Claude Code and Codex start a small
helper process for every event; the helper hands the event to the application, which
decides by rules whether somebody should be told, queues a delivery job per channel in
SQLite, and a worker sends the jobs to DingTalk or WeCom robots. The application also
writes the hooks into the agents' configuration files and repairs them.

Paths below are relative to `src/src-tauri/src/`.

## 1. The system and its parts

| Part | Code | State | Operations |
|---|---|---|---|
| Hook helper | `hook_command.rs` | none; one process per event | `process`: ask over IPC, else insert into `ingress_events`, else write a spool file |
| IPC | `ipc/client.rs`, `ipc/server.rs` | a bounded channel of requests in memory | `send_ingress` (75 ms), `serve_stream`, reply |
| Event pipeline | `pipeline.rs` | none of its own | `process_live`, `recover_ingress`, `enqueue_jobs` |
| Event store | `storage/events.rs` | tables `events`, `ingress_events` | `insert_ingress`, `take_ingress_batch`, `insert_event_in_tx`, `recover_stale_ingress` |
| Spool | `storage/spool.rs` | files `*.json`, `*.processing` | `write_exclusive`, `drain` |
| Delivery queue | `storage/queue.rs` | tables `delivery_jobs`, `delivery_attempts`; pause, counter and next allowed time in `channels` | `enqueue_in_tx`, `expire_due`, `claim_due`, `complete(_aggregate)`, `retry(_aggregate)`, `manual_retry`, `bump_/reset_auth_failures` |
| Delivery worker | `worker.rs` | the tasks of a pass, two semaphores | `run`, `run_once`, `process_claim`, `record_success`, `record_failure` |
| Channel senders | `channels/*` | none | one HTTP request with a ten-second timeout, and how its answer is read |
| Retention | `storage/retention.rs` | – | `run_once` every few hours, `clear_history` |
| Start and shutdown | `lib.rs` | the phases of the process | `setup_core`, `shutdown_core`, `uninstall_hooks_cli` |
| Configuration | `storage/config.rs`, `commands/{channels,projects,settings,rules}` | tables `channels`, `projects`, `project_paths`, `rules`, `project_rules`, `settings`; the file `project-paths.json`; the login registration | saving, patching, deleting; replacing a credential; publishing the project cache |
| Credential store | `security/credentials.rs` | one keyring entry per channel | `put`, `get`, `delete` |
| Hook installer | `installer/lifecycle.rs`, `installer/atomic.rs`, `storage/integrations.rs` | the agent's configuration file, a lock file, table `integrations` | `inspect`, `apply` (install, repair, disable, uninstall) |
| Self-heal | `agents/selfheal.rs` | – | `heal_agent_once` every five hours |
| Rules and policy | `rules/*` | none; reads settings and the deliveries on record | resolve a rule for a project, `evaluate_policy`: filters, time to live, pause, quiet hours, cooldown, window limit, aggregation |
| Helper deployment | `installer/helper.rs` | the copy in `bin/`, its version sidecar | `ensure_installed` at the start and before every hook action |
| Agent detection | `agents/*`, `commands/agents.rs` | `agent-versions.json`, `agent_installations` | probing candidates every six hours and on demand |
| Keys | `security/crypto.rs`, `lib.rs` | `correlation.key`, the data key in the keyring | created by the application, the helpers and the uninstaller's command line; removed by a purge |
| Text | `events/*`, `rules/template.rs`, `security/redact.rs` | none | what is captured of a hook's JSON, stored, rendered, redacted |
| Views | `health.rs`, `tray.rs`, `commands/mod.rs`, front end | what each page shows | announcements, refetching |
| The rest | `diagnostics.rs`, `commands/updates.rs`, packaging | files | see section 8 |

How they interact:

* The helper and the application share no memory. They meet at a socket (or named
  pipe), in the table `ingress_events` (both open the database) and in the spool directory.
* The IPC loop takes one request at a time; the reply is sent after the event's
  transaction has committed.
* Pipeline and worker meet in `delivery_jobs` only. The interval of the worker finds what
  the pipeline inserted.
* The user's commands run on blocking threads next to all of it: they edit channels and
  rules, retry jobs and clear the history while messages are out.
* The self-heal loop, the window's commands and the uninstaller's command line rewrite the
  same agent file, which the agent and the user's editor write as well.
* Every helper reads three files others write: the agents' versions, the projects' paths and
  the correlation key, which it creates if there is none.
* Producers announce changes through one bounded channel; the forwarder tells tray and
  window, which then read the state for themselves.

What is hard: a helper that gives up while its request is still being handled; a
process that stops between any two steps; answers of the platform that are lost, so a
message may or may not have arrived; jobs, channels and events deleted under a task that
has them in flight; leases, retries and deadlines that meet at one moment; counters that
are changed in a transaction of their own; files changed by others between a read and a
rename. PROJECT.json lists every one under "hazards", at its line.

What makes each part correct:

* *Helper, IPC, ingress, spool, pipeline*: an event the helper handed over is never out of
  everybody's custody; however many copies of it there are, it is notified once; the
  backlog drains, unless rows that fail every time fill the recovery's batch.
* *Policy*: nothing is sent in a quiet period or beyond a limit; nothing is withheld without a
  condition of the rule; a deferral ends where the rule says.
* *Queue and worker*: one task per row; no duplicate but after a lost answer; success is
  real; attempts and deadlines are kept; an outcome is final; pauses follow their counter;
  every pass ends and every job settles.
* *Installer*: a file is never overwritten on top of a change nobody read; the trust shown
  is trust earned; damage is healed, but for entries that are gone while the agent's version is not verified; an
  uninstalled integration stays uninstalled, which the loop may undo.
* *Configuration and credentials*: a channel's row and its secret belong together; a rule in
  force only names channels that exist.
* *Settings and projects*: only commands that overlap lose each other's changes; the helper
  resolves a directory as the tables do.
* *Detection, deployment, keys*: a known version is not forgotten, an update is noticed; no
  older helper silently replaces a newer one; one correlation key; what is sealed can be opened.
* *Messages*: nothing the catalog calls sensitive is stored in clear or sent.
* *Views*: what is shown comes to be true.

## 2. Modules

| Module | Models | Proved about |
|---|---|---|
| `RetryPolicy` | `classify`, backoff, error kinds: pure operators | `DeliveryWorkerProofs` |
| `DeliveryQueue` | the rows of `delivery_jobs` and `channels`, one operator per transaction of `storage/queue.rs` | `DeliveryWorkerProofs` |
| `DeliveryWorker` | the worker, the platform (external), the user's commands and retention over `DeliveryQueue` | `DeliveryWorkerProofs` |
| `AtLeastOnce` | the promise of the queue, without leases, attempts, channels or clock | refinement, in `DeliveryWorkerProofs` |
| `ChannelSend` | one attempt of an adapter, used by `DeliveryWorker` | `DeliveryWorkerProofs` |
| `IngressPath` | helper, IPC loop, start and stop, ingress rows, spool, events, clearing and retention | `IngressPathProofs` |
| `HookInstaller` | the steps of `apply` run by the window, the self-heal loop and the uninstaller over one file, its lock and its rows | `HookInstallerProofs` |
| `HelperDeployment` | `ensure_installed` on several threads, its copy and its sidecar | `HookInstallerProofs` |
| `Configuration` | channels, their keyring entries, global rules and project patches | `ConfigurationProofs` |
| `NotificationPolicy` | `evaluate_policy`, the reads before it and the transaction after it, with the clock, the settings and the deliveries it counts | `PipelineProofs` |
| `CommandThreads`, `SettingsDocument`, `ProjectCache`, `WindowCommands` | the blocking threads; the settings document and the login registration; project tables and cache file; their composition | `WindowCommandsProofs` |
| `DataDirectory` | the two keys and the directory between application, helpers, command line and purge | `DataDirectoryProofs` |
| `AgentDetection` | detections, the versions file, the rows, the confirmation | `HookInstallerProofs` |
| `CommandLine`, `HookFile` | quoting and reading back a hook's command; the patch of a configuration file as text | `HookInstallerProofs` |
| `Message` | from event and rule to document, and to what a platform receives: pure operators | `PipelineProofs` |
| `EventRecord` | from a hook's JSON to what is stored, live or recovered: pure operators over `Message` | `PipelineProofs` |
| `HealthView` | announcements, forwarder, tray and pages | `HealthViewProofs` |
| `MC...` | instances for TLC | – |

### RetryPolicy, DeliveryQueue, DeliveryWorker

`job[j]` is the row of `delivery_jobs`: state, attempt counter, `next_attempt_at`,
`expires_at`, lease end, and the number of rows in `delivery_attempts` (`ledger`). `chan[c]`
is the part of `channels` the queue uses; `cred` numbers the successive credentials.
`task[j]` is where the pass's task for the claim of `j` stands; the members of a bucket
move together (`Become(ClaimOf(j), ...)`), because one task sends one message for all of
them. Time is a natural number; jitter is a free choice over the range the code draws from.

A pass is `Sweep` (`expire_due`), then in a second transaction `ClaimDue` (`claim_due`, with
the same `now`, kept in `pass`; `PassFails` is its error), then for each claim `Admit` (global permit), `Post`
(channel permit, composing, channel row, request out), an answer of the platform
(`PlatformAccepts`, `PlatformRefuses`), and the record of it, in two transactions where
the code has two (`RecordSuccess` then `HealChannel`; `RecordFailure` then `StrikeChannel`).
`TaskFails`, `RetryNotRecorded` and `Restart` are the failures: a storage error or panic
that ends a task, a `retry` whose error is dropped, the death of the process with requests
out. The user retries, edits and deletes, and `Retain` deletes by age, at any moment.

`copies`, `lost` and `strikes` are history: how often the platform took a job, how many of
these acceptances the queue never recorded, and what may count against a channel since it
was saved or healed: `own`, the refusals of sends posted with the credential it has now, and
`older`, whether a send of an earlier one was out when that one was saved. `pass.revived` are the
jobs retried by hand since the pass's sweep. A bucket's members are stored whenever the pipeline
comes to it, also after the window's end. `CutsCharacter` are the sets of members whose joined
bodies `compose_document` cannot truncate.

### AtLeastOnce

The abstract specification: a notification that was accepted stays open until it succeeds,
fails, expires or is removed; copies reach the platform only while it is open (or was
removed under a request already out), and it succeeds only after a copy arrived.
`DeliveryWorker` instantiates it (`Promise`, with the `phase` of a job as its mapping);
the property `KeepsPromise` is checked by TLC and proved (`ImplementsAtLeastOnce`).

### IngressPath

`helper[e]` is the process of event `e`. The application is `phase`, `inbox` (the IPC
channel), `live` (the request being worked on), `todo` and `batch` (what the running drain
and recovery still hold in memory); `Stop` clears them all at any moment. `spool`,
`ingress`, `row` and `job` are what survives. Which rule applies and what the policy says
is a free choice among `suppressed` and, by the event's age against the rule's time to
live, `queued` or `expired`. `enqueued`, `cleared`, `handled` and `dropped` are history.

### HookInstaller

`file` is the agent's configuration file: the form of each of our entries (`none`, `ours`,
`edited`) and a number for the rest, which grows with every foreign write. `rows` is
`hook_installations`, `verified` whether the agent's row asks for no upgrade (`VersionDetected` changes it), `lock`
the lock file, `proc[a]` what actor `a` has in memory and where in
`apply` it is: `ReadFile`, `Compare` (second read; an equal file is not written), `CheckDrift`
(lock, hash), `Rename`, `Verify` (still under the lock), `Reread`, `BuildRecord` for each entry
(reading its row), `ReplaceRows`. The loop comes to `apply` through `HealerLists`,
`HealerInspects` (file) and `HealerDecides` (verification and rows), the others directly. What is damage is
`IsDamage`: an entry absent from the file is not, while the version is unverified (`lifecycle.rs:113`). `AgentWrites` is external
and heeds no lock; `HookRuns` is the request of a hook's helper. The model is of Codex,
whose rows carry trust; for Claude Code it is always `NotRequired`, and all else is the same.
The helper's version and path are fixed. `touched` (others wrote the file under an apply),
`observed` and `uninstalled` are history.

### Configuration

`exists` is the table of channels, `secret` the keyring, `global` and `patch` the rules as far
as they decide whether and where to notify. A channel command is a series of steps of one of
two `Clients`, since commands run on blocking threads and hold no lock between a row
and a keyring access; saving a rule is one transaction. A command that fails is ended
where it is (`SaveRowFails`, `StopsShort`). `replaced` and `faulted` are history.

### NotificationPolicy

Refines what `IngressPath` leaves open: which verdict an event gets. `Decision` follows the order
of the returns of `evaluate_policy`. What it is given is read one after the other, each read a step of its own, for
one event at a time: `ResolveRule` and `ReadClock` (a recovered row's clock is read before its rule),
`ReadSettings` with the list of channels, and a `LookUp` of the deliveries of each channel; then `Evaluate`, and
`Record`, the transaction after it. Edits, ticks and deliveries may fall between any two. `input` is the
`PolicyInput` so far; its `known`, the deliveries there were when the clock was read, is history. Settings and
channels that cannot be read count as none (`ReadsNothing`); any other failure keeps the event for later (`Fails`).
A delivery later than the clock's reading is looked up but not counted (`Seen`), and may take the place of one that would be;
`LimitsKept` is stated for limits that still have their places (`Visible`).
The pipeline's time zone is the one it was made with (`offset`, `Restart`). Filters, whose
fields are data, are two sets of events: `Unmatched`, and `Detailed` for those only admitted by
model or permission mode, which a recovered row lacks. The worker is external (`Send`, `GiveUp`): when
and how it sends is `DeliveryWorker`'s subject. The properties compare the clock arithmetic with
a calendar of quiet periods (`Period`, `Covering`).

### ChannelSend

An answer of the platform is external: its fate (answered, lost, unreadable, too large), the HTTP
status, the code by name, a Retry-After. `SendOne` and `Send` read it as the adapters do, `AttemptsOf`
is the set of outcomes one attempt may have, with the copies the platform then has. `DeliveryWorker`
takes its errors from there, so which answers are retried, strike a channel or end a job is the code's.

### SettingsDocument, ProjectCache, WindowCommands

A command is the sequence of its transactions and file accesses on one of the `Threads`:
`job[t]` is the step and what it has read so far. A settings command reads the whole document and
later writes the whole; a save registers the login switch before. An edit of the projects
commits, then lists the projects, copies the paths of each, renames the file and stores the health,
each a step. `wanted`, `lost`, `unsure` and `behind` are history; they mark exactly what an overlap
or a failed write cost, so the properties say that nothing else costs anything.

### DataDirectory

`at[p]` is how far each process is in its start: the application, the command line of the
uninstaller, and any number of helpers. The correlation key is read, or written to a temporary
file and linked; hardening a file opens it with `create`, as the code does. The purge erases the
keyring entries, and a detached process sweeps the directory entry by entry while others may still
run. `refs` and `sealed` are the keys that stored data was made with.

### HelperDeployment

`deploy[t]` is the step of `ensure_installed` on thread `t`: `CompareCopy`, `Gate` (the recorded
version), `Publish` (rename), `Rehash`, `Record` (sidecar). Failures, a stop, another package at the
next start, a damaged copy and the purge come in between. Versions are numbers in the order of semver.

### AgentDetection

`files[a]` is what a probe of each candidate path of agent `a` would answer, which an update changes
at any moment. A detection on a thread probes the candidates of each agent in order, reads the
cache, renames a new one, and stores the row. A hook action detects first, is refused without a
confirmation where the code asks for one, and installs. The loop's thread detects again and again.

### CommandLine, HookFile

A file's `hooks` value is a text of tokens: brackets, commas, comments, elements; each event's array
holds groups, each group's array handlers. Of white space the line ends are tokens too, since `delete_runs`
passes over it and a `//` comment (`Slashes`) ends with its line; a comment whose last character is a comma
is followed by `CommaBreak`, which the byte scan takes for a separator (`CommaBefore`). `Lexed` is how
the text is read after the edits: what a comment without its line end covers is gone (`CommentedOut`).
A root that is no object is `Scalar`, and is written anew. The edits are those the code plans, as positions of tokens
(`HandlerEdits`, `GroupEdits`, `NewProperties`), and `Spliced` applies them: token by token, what no edit
removes stays (`Kept`) and what is put in at its place follows. `PatchedText` is the whole patch and
`RefusedPatch` the cases in which the file is left alone: edits that overlap, what is expected and is none,
a result that does not parse. Abstracted: blank lines are one line end; an element stands on one line, and a
group whose handlers have line ends of their own, when a comment takes its first line, makes the file unparsable
(`CutsGroup`), as does a comment that would cover an array's bracket; a comment ends in one comma at most.
Properties of the `hooks` object are never deleted, so no comment there can change what is in force.
A handler is a command of characters: `CanonicalCommand` quotes it for
POSIX or Windows, `ShellWords` splits it again, each one character at a time (`QuoteStep`, `PosixStep`,
`WindowsStep`), and whether it is taken for the program's own is decided by the words, as in `recognize_owned`.

### Message, EventRecord

A text is a sequence of characters, each the value of one field or one character of a template, so
that "this value is in that message" can be said; patterns are parameters (`Mandatory`, `Custom`).
`Message` follows `enqueue_jobs`, `build_template_context`, `render_document` and the adapters'
limits; `EventRecord` follows `capture_hook_json`, `normalize_event`, `normalize_safe_ingress` and
the recovery. Neither has state: they are there to be proved about.

### HealthView

`world` is what a snapshot is computed from, `version` counts its changes; producers `Emit` into
`channel`, which drops what it cannot hold; `Forward` hands one announcement to the pages that listen and
has the tray rebuilt on a change of health. A page's request is read by a thread of the core and
answered in any order; pages in `LatestOnly` number theirs. `announced`, `newest` and `missed` are history.

## 3. Runs

| Run | Question | What it shows |
|---|---|---|
| `delivery_singles` | two single jobs on one channel; a lost answer, a credential error, one crash or storage failure, one edit or clearing, one manual retry | rows, leases, copies, strikes and deadlines are consistent; a late claim only of a job retried by hand between a pass's sweep and its claim; `AtLeastOnce` is kept |
| `delivery_group` | a bucket of two jobs, one of which cannot be composed alone, a job on another channel, one global permit, a manual retry, a crash | the task owns its rows; a pause follows its counter; outcomes are final; every pass ends; every job settles but in a paused channel or a bucket that panics |
| `ingress_path` | two events behind two no longer catalogued, as many as a recovery takes, between helper, IPC, rows and spool; stops, a fault or clearing, retention | custody is never lost; nothing is notified twice; a job keeps its event; the backlog drains unless rows that always fail fill the batch |
| `hook_installer` | two hooks, three writers of ours, one foreign write or another version of the agent, a failure at any step | no blind rewrite; trust is earned; damage is healed, unless all of it is entries gone while the version is not verified |
| `configuration` | two channels, two threads, a rule, a patch, a fault | chosen targets exist; no credential is left behind |
| `credential_replaced` (violation) | is a replaced credential there? | the replacement deletes it |
| `notification_policy` | two events, live or recovered, under eight versions of a rule; a rule or pause edit, a clearing, a new time zone, a failing read or transaction, or a restart, between any two reads | quiet periods and limits are kept; a deferral ends with its period, or after a whole day at the time the rule names; nothing is dropped without cause |
| `window_commands` | two threads and the tray over settings and projects, a fault, restarts | only overlaps lose changes; the login item follows the document; the helper's cache resolves as the tables do |
| `data_directory` | application, command line and two helpers over one directory, a purge, a kill or fault | one correlation key; what is sealed can be opened |
| `agent_detection` | loop, window and hook actions over two agents at two places, an update, a fault | a known version is not forgotten; an update is noticed |
| `hook_file` | every sequence of patches of irregular files, for any wanted events and helper paths | the user's part is untouched, but where the end of a `//` comment is deleted with an own element, or the file was no object; the program's is exactly what is wanted; no comma is lost or doubled |
| `health_view` | shell, history page and tray behind a channel of one, two changes, a fault | drops are made good; no numbered page goes back; tray and shell catch up |

Some configurations are kept beside the runs. These refute, each with a short trace, what a comment,
a document or another part of the code says (PROJECT.json quotes it under "findings"):

| Configuration | Refutes |
|---|---|
| `MCHookUninstall.cfg` | `UninstallStays`: the self-heal loop may take a file being uninstalled for damage |
| `MCIngressBacklog.cfg`, with `BacklogAlwaysDrains` for its property | `BacklogAlwaysDrains`: rows that fail at every start starve those behind them |
| `MCHookFile.cfg`, with `ForeignAlwaysUntouched` for its property | a deletion takes the comma and the line end of a `//` comment, which then covers a group or handler of the user's; a file that is no object is written anew |
| `MCConfiguration.cfg`, with `ActiveTargetsExist` for its invariants | a patch switches on a rule whose channel was deleted |
| `MCNotificationPolicyDefer.cfg` | `DeferredWaits`: a deferred notification is queued as due at once |
| `MCWindowCommandsLive.cfg` | `LiveEventsMatchProject`: the application resolves with the projects of its start |
| `MCDataDirectoryPurge.cfg` (with `-continue`) | `SweptAfterExit`: the deletion may begin before the process has ended; `KeyFileWhole`: hardening a key file just purged leaves an empty one |
| `MCAgentDetectionCatalog.cfg` | `OnlyCapturedInstalled`: events the catalog does not verify are installed |
| `MCHealthViewStale.cfg` (with `-continue`) | `TrayIsTold`: outcomes that change the level are not announced to the tray; `NoPageOlder`: the shell applies answers as they come |

The invariants named `TypeOK` (`SettingsTypeOK`, ...) are stated in each module. That of every module with a
row in section 6 is proved (`TypeCorrect`, and `PublishedIsRecorded` for `HelperDeployment`); TLC was run with
the others, and with every inductive invariant before it was proved.
The remaining findings are in the definitions that follow the code, among them a sixth attempt
(`AttemptsBounded` states the bound the code does keep), a manual retry after the deadline
(`ManualRetry`), a Retry-After shortened by a later failure
(`ChannelAfterFailure`), a strike for each member of a bucket (`StrikeChannel`), a whole time to live for a
recovered event (`Deadline`), a window limit that counts eight deliveries (`Seen`), a quiet period's bypass that
is all or nothing (`QuietHours`), and edits of a hook file that overlap (`RefusedPatch`).

## 4. Bounds, and why they are enough

* *Jobs*: two share a channel, which is what the channel's semaphore, counter and pause are
  about; a third on another channel is what the global semaphore is about. A bucket of two is
  the smallest whose members can differ.
* *MaxTime* is 2 in the delivery runs, *LeaseDuration* 1, the time to live 2 (singles) and 1
  (group): a lease, a backoff and a deadline run out, and every comparison with `now` is reached at
  less and equal, in the group run at greater too. Rows grow old enough for retention in the group
  run only; in the other a deleted channel and a cleared history take rows away.
* *MaxAttempts* is 1 in the delivery runs, so the limit is met within the clock's bound;
  *AuthPauseThreshold* is 2, the smallest that differs from "every strike pauses".
* *MaxFaults* and *MaxEdits* are at most 1 (delivery): the argument for each property is
  about a step and the steps another actor may put before it, and the proofs show the delivery
  properties for every bound.
* *Ingress*: two readable events behind two that fail at every recovery, one in a row and one in a file, a one-place
  inbox, a one-file spool, batches of two: every limit is met, and the batch is filled by failing rows, or has one or
  two of them fewer (a file not drained yet, a row cleared or removed by retention). `BacklogDrains` allows nothing
  but the first to hold a readable row up, and only while it lasts. A behaviour has a fault or a clearing, not both
  (`OneTrouble`); a copy in a row and a copy in a file of one event need two faults. The proofs cover both. The two events are alike, so the run only explores behaviours in which `e1` comes first (`FirstComesE1`): each other one is such a behaviour with the names exchanged.
* *Hooks*: two hooks are recorded one by one, so a row can change between two reads; two user
  actions, one foreign write or change of the version, verified or not at the start, and one fault put an install and an uninstall, a heal and a foreign
  change in every order.
* *Configuration*: a second channel shows that a command leaves the others alone; two clients
  interleave, a third would repeat one of them.
* *Policy*: days of three instants, a Sunday and the Monday after it, two time zones: a period
  within a day, over midnight and of a whole day, begun yesterday or today, before, at and after
  each end. Two events are what cooldown and limit relate, the plain one first (`FirstComesE1`); one edit or fault
  (`OneTrouble`). A delivery that comes between the clock's reading and the lookup is met; that several take
  all the places of the lookup needs more events, and is in the proof.
* *Window commands*: three commands on two threads: two overlap, and a third finds what they left. Paths: a
  repository, a worktree inside it, a directory beside both; room for two paths of a project, so the cut is met.
* *Data directory*: two helpers and the application race for one key; three random keys, so each may
  make its own; one kill or fault.
* *Detection*: versions verified, of its line, and of no catalogued line; a candidate that answers behind one that fails.
* *Hook file*: up to three elements in a text, so a run has a first, a middle and a last; a comment at any one
  place or a trailing comma, in any one text; in arrays and groups also a `//` comment that ends in a comma, at every place
and with a line end or another comment at every other, in any one text; every character the quoting tells apart.
* *Views*: one announcement fills the channel; three requests in flight allow two of one page out of order.
* *SYMMETRY* is used for jobs, events, clients, threads, projects, helpers and keys, in runs that check no liveness.

`CHECK_DEADLOCK FALSE` is set because an instance ends: when everything has
settled at `MaxTime`, or every bound on commands, changes and faults is used up and every actor is
through, nothing more happens.

## 5. Fairness

`DeliveryWorker!Fairness` is weak fairness of `Tick`, of `Sweep` and `ClaimDue`, and of `TaskStep(j)` for
each job. The tokio runtime polls every task that is ready, the worker's interval keeps
ticking (`worker.rs:268`), and every request is answered, by the client's ten-second
timeout at the latest. There is no fairness for the platform accepting, for the
user, for retention or for faults. `EveryJobSettles` excepts rows a paused channel holds in `sending`,
rows of a bucket that panics whenever it is composed (`Unsendable`: they are neither swept nor finished,
whatever their deadline), and else jobs whose lease or deadline lies beyond the end of the instance's clock.

`HookInstaller!FairSpec` is weak fairness of each actor's `apply`, a blocking call that runs on until
it ends or fails, and of the self-heal loop, whose interval ticks again; the lock's holder always
releases it, and a waiter times out. The user and the agent need not do anything. `HealsDamage` excepts a file all of
whose damage is missing entries of an agent that stays unverified (`AwaitsUpgrade`), which the loop leaves alone.

`AgentDetection` has weak fairness of the loop's tick (an interval of six hours) and of the steps of
a detection under way, whose processes are killed at a timeout. `HealthView` has that of the
forwarder, of the main thread's menu rebuild, of the redetection, and of each page's reads and answers;
changes, failures and producers are not fair.

`IngressPath` needs none: `BacklogDrains` says what follows if the application completes
its start again and again (`[]<><<Bind>>_vars`), which only the user can bring about: a readable row is gone
sometime, and after each return, or from some moment on it is behind as many failing rows as one batch (`Blocked`).

## 6. Proofs

### The delivery worker

`DeliveryWorkerProofs` proves, for every value of the constants under `RetryAssumption`,
`QueueAssumption` and `WorkerAssumption`:

| Theorem | Says |
|---|---|
| `TypeCorrect` | the type invariant |
| `LeaseMeansSending` | a row has a lease exactly while it is in `sending` |
| `TasksOwnTheirRows` | a row with an outcome still to be recorded is in `sending` or deleted |
| `OnlyLossDuplicates` | a second copy only after an unrecorded acceptance |
| `SuccessIsReal` | `succeeded` only after a recorded acceptance |
| `RetriesComeInTime` | a retry is due before the deadline |
| `RetriesAreBounded` | at most one attempt more than `MAX_ATTEMPTS`, each in the ledger |
| `OldCredentialStrikesOnce` | a channel's counter holds strikes of its own credential, and of one send of an older one at most |
| `PauseFollowsCounter` | paused exactly at the threshold |
| `LateJobsAreSwept` | a waiting job is claimed past its deadline only if retried by hand between the pass's sweep and its claim |
| `OutcomesAreFinal` | outcomes change only by a manual retry of a failed job |
| `ImplementsAtLeastOnce` | every behaviour is one `AtLeastOnce` allows |

All rest on one inductive invariant, `IInv` of `DeliveryWorker`:

* `RowsOK`: what each row satisfies on its own;
* `TaskOwnsItsRow` and `OneTaskPerBucket`: `complete` and `retry` act on a claim, and a claim is the
  bucket's members *in flight*: only if these share one task does "the claim of j" mean
  the same thing for each member;
* `Accounted`: the exact relation of `copies` and `lost` at each stage. The duplicate bound
  `copies <= lost + 1` alone is not inductive: a job waiting for a retry must have no
  unaccounted copy, or its next send would break the bound. This is where the ownership
  of rows is needed: a row in flight that could be claimed again would have a second copy
  counted on top of one in flight;
* `PausedAtThreshold`, which is inductive on its own;
* `PassIsQuiet`: between a sweep and its claim no task is there. `ClaimDue` is the delicate case: a row in
  `sending` it finds has no task, and its lease, not a task, decides about it.

`LateJobsAreSwept` needs `SweptInv` beside it: from the sweep to the claim what waits has its deadline ahead of the
time the pass read, or was retried by hand since. A job stored meanwhile satisfies it because its
deadline counts from a later moment; a failed one reopened meanwhile need not, and is the exception.

`OldCredentialStrikesOnce` relates a channel's counter to `own + older`, times any number that no claim exceeds.
It needs `StrikeInv` beside `IInv`: the claim with the platform is alone on its channel (`OneSendPerChannel`, the
channel's semaphore), a deleted channel has no rows left to strike it for (`GoneChannelsAreClean`), and a refusal
counted, or a send whose credential is no longer the channel's, that has not struck yet has its strikes still to
come (`StrikesCounted`, for every such number at once: the claim at work and the widest bucket need not be the same).

### One attempt

`DeliveryWorkerProofs` begins with any set of answers that say what the platform took (`Explicit`): one attempt,
fallback included, brings at most one message, exactly one with a receipt, and one with an error only
if the answer was lost or unreadable (`OneMessagePerAttempt`). It is what `DeliveryWorker` relies on
when it counts one copy for a request.

### The ingress path

`IngressPathProofs` assumes `IngressAssumption`: finitely many events, limits of at least one, and no rule whose
time to live exceeds the age at which retention deletes. `Custody` and `JobKeepsEvent` need `MemoryOfStage` (what a
phase of the application may hold in memory) and little else. `NotifiedOnce` is the deep one, because up to three
copies of an event are worked off independently:

* `RequestComesFirst`: an event nobody asked about has left no trace, and the request in the inbox or at work is of an
  event not queued before. So the live path, which does not look for the event until its transaction, cannot be
  overtaken by a copy: a helper writes one only after it gave up the request, and copies are taken up only at a start.
* `RecordedIsHandled`: an event with a row counts as handled, so custody ends with a record and not before.
* `QueuedOrPast`: an event queued once more often than it was cleared is still on record, or past every rule's time to
  live. The bound `enqueued <= 1 + cleared` alone is not inductive: retention may delete the row of an event while a
  copy of it waits, and that copy is queued no more only because it is too old by then. This is where the
  assumption on `RetentionAge` is used.

### The hook installer

`HookInstallerProofs` needs only that the bounds are numbers. `NoBlindOverwrite` is an action property of `LockedKnowsFile`: while an
apply holds the lock, the file is the one it read, or somebody without the lock wrote it since. It is
preserved because only the holder renames. `TrustIsEarned` is not inductive without `RecordsAreEarned`, the same of
the records each apply carries in memory: it takes a row's trust, a run may be recorded and another apply may
replace the rows, before it writes its records back.

### Helper deployment

The theorems, which follow in `HookInstallerProofs`, assume only that versions are numbers above `NoCopy` (`VersionsNumbered`).
`DeployInv` adds to the types that what was published is recorded or its publisher is still at it
(`RecordedOrUnderWay`), and that a thread past the gate carries no older version (`PastTheGate`): the
package is fixed while threads run. `NoSilentRollback` follows for every step; it excepts versions whose
sidecar could not be written, which `ensure_installed` never repairs (a finding).

### Agent detection

The last part of `HookInstallerProofs` proves `KnownStaysKnown` under `DetectionAssumption`: agents in a non-empty
order, answers that are versions or failures, required events that exist. A rename replaces the whole versions
file by a copy read two steps earlier, so the property needs `CopiesAreComplete`: a copy that is not `behind` has a
version for each agent the file has one for. It is preserved because a detection reaches the file only with a
version found, and because every rename makes the copies of the others `behind`. TLC checks the invariant on
`MCAgentDetection` (822 183 states).

### The hook file

`HookFileAssumption` says of the constants: the files there are at the start have a text's shape and their elements
apart and each `//` comment with its line end, the catalogued events are all in `EventOrder`, a helper has a path, and on Windows one in which no backslash
stands directly before a double quote, which no file name has there (`Quotable`).

`FileStaysSeparated` proves `StaysSeparated` for any file. The check for a comma between two elements is nobody's:
`validate` takes a text without it. `HookFileInv` adds the shape (`FileShape`: brackets at the ends of a text
and nowhere else), without which an edit could fall outside of it. The argument:

* `SplicePlaced` lays a spliced text out: where each kept token and the inserted text come to stand. `Joined` is a
  recursive function over the texts; that it exists and what it yields is shown with `SetInduction`, as for `Above` below.
* `RunsDeleted`: however the doomed elements lie, between two elements that stay a comma stays. A run takes the comma
  behind it or else the one before it, and no other run begins in the gap.
* The result is read again, and a comment that has lost its line end could take a comma with it. `Tidy` says that it takes
  none that is needed: a comment keeps its line end, or else a comma stays between it and every element that stays before it,
  and no text is put in behind a bare comment. `LexedSound` shows that a splice by such edits is apart when it is read.
* `SpliceSound`: edits that keep commas so, with a text that begins with one put behind the last element that stays,
  yield a text of that shape whose elements are apart. `HandlerPlan`, `GroupPlan` and `NewPropertiesPlan` show
  that the plans of the three levels are such edits.

`PatchedAsWanted` proves of every patch the first part of `ExactlyWanted` (`HandlesExactly`): the events the file has
handlers of the program's for are the wanted ones, whatever was there before. The order of the text does not matter
for that, so it argues with `Contents`, the set of a text's elements (`SpliceContents`), and `KeptIsRead` and `PutIsRead` show
that the target and what is put in are still there when the text is read. For a group that needs the exception
`RunsOver`; a comment within a group can take handlers of the user's but never the one put in. Its hypothesis `MarkersApart`
says that `Junk`, `Scalar` and `Absent`, which stand for what is no text and no group, are neither; TLC has model values for them.

That a handler put in is one the program reads as its own is `OwnCommandRecognised`, which needs only that the characters
the quoting tells apart differ (`CharacterAssumption`). A reader's state after a text is a function of the state before it;
`PosixWordRead` and `WindowsWordRead` show that reading a quoted word adds that word and no other, `WordsRead` goes
on to the command. On Windows the writer holds backslashes back as the reader does, and character by character what is
written so far is read as what was taken so far, but for those held back. Where a backslash stands before a double quote
the two disagree, which is a finding.

### Configuration

`ChosenTargetsExist` is inductive with the types: what saving a rule demands of its targets, and what a deletion looks
for, meet in it. For `NoOrphanSecret`, which speaks of channels at rest, `SecretsTended` says where a credential without
a row is meanwhile: with a command that has stored it or is about to delete it.

### Window commands

`WindowCommandsProofs` joins the invariants of the two halves (`SettingsInv`, `CacheInv`) with `JobsOK`, the types of the
work on the threads; a step of one half leaves the other's variables alone. `CacheAssumption` includes that the
projects are finite in number, which a table is.

* `DocumentsAgree`: a document in hand differs from the stored one only in the fields of its command, those stored
  since (`missed`) and those already lost. Without it a write could take back any field.
* `SavesRegistered`: a save between its registration and its write has the login switch as it is, if nobody stored
  another since.
* `PathsHaveOneOwner`, `CopiesFollow`: a path is of one project, which an edit checks in its transaction; a copy that no
  edit has overtaken has each project as the tables do, or still to copy. `FileIsCurrent` follows at the rename.

`NearestProjectFound` is `NearestProjectKnown` from `FileIsCurrent`. `resolve_project` takes the prefix of most segments,
and that this is the nearest is an induction over the directories above one: of two prefixes of a path, the one of
fewer segments is a prefix of the other (`AboveIsAChain`). The induction theorems of the library take an operator,
which the provers cannot instantiate; `SetInduction` says the same of a set and follows from `WFMin`, which takes
sets. The recursive function `Above` needs a proof that it exists (`AboveUnfolds`): solutions up to a number of
segments exist, agree, and are put together. `CacheAssumption` has a parent shorter than what lies in it.

### The data directory

`DataDirectoryProofs` assumes `DirectoryAssumption`, the distinctness of processes and of the values that are no key. A link
never replaces a file, so `OneCorrelationKey` is inductive with `SweepIsKnown` (before a deletion begins nothing takes the
file away). `SealedStaysReadable` needs `OneDataKey`: every data key at hand is the keyring's, and who makes one found
none; the two processes that may do so at one moment are the exception `erased` names.

### The views

`HealthViewProofs` uses the type, that nothing shown or read is ahead of `version` (`NothingAhead`), and of a numbering page
that only its last request is awaited and its answer not older than what is shown (`OnlyTheLast`); `NeverOlder` is then a
property of each step. `AnnouncedIsRead` is inductive with the types: whoever empties the channel leaves a request
that is still to be read.

### The policy

`PipelineProofs` assumes `PolicyAssumption`: finitely many events and channels, rules of the shape the
settings allow, a day of at least one instant. The invariant has, with the types, jobs of recorded events only (`JobsAreRecorded`:
no event is decided about twice), reads in their order (`ReadsInOrder`), and `KnownIsCounted`: a delivery that was known
when the clock was read, and is on record still, is in what was looked up once its channel has been. It is inductive
because a delivery leaves the record but never comes back, nor changes its time. The rest is in these lemmas:

* `QuietIsCalendar`: the case distinctions of `quiet_membership` on the local time and the weekday hold exactly when one of the
  calendar's periods covers the moment. `PeriodCovers` says so of one period; it compares multiples of the day's length,
  the only place where products of two unknowns occur. `QuietEndIsPeriods` adds that `quiet_end` is that period's close, or
  for a whole day `end` past it (`Overrun`): the code adds a day whenever `start = end`, so the deferral lasts on into the day after the
  last quiet one. No document says where such a deferral should end; the property states what the code does.
* `SeenAreThere` and `LimitSeen`: what is counted of the limited lookups is never more than was looked up, and no less than a
  limit wherever that many were there and, with what came since, have their places. Both map a place among a channel's
  latest deliveries to a delivery (`LookedUpParted`, `NoneOverlooked`), by a bijection
  chosen for every channel (`NumberingOf`). This is why `LookedUp` is a set of places and not a sum over the channels:
  a sum is defined by recursion, of which nothing could be proved.

### Messages and records

`PipelineProofs` then argues about a set `S` of values that may be seen: if the public fields of an event, the
labels, the template's words and the keyword are in `S`, then everything a platform receives is
(`OnlyPublicLeaves`), since a context only holds authorized values and every later operator keeps `Seq(S)`.
`MandatoryHidden` uses that truncation comes after redaction; `MetadataOnly` and `KeywordKept` are
about a limit of zero and the adapters' prefix. It then continues the argument backwards to the
hook's JSON: nothing outside `S` is kept in clear (`NothingSensitiveInClear`), if `S` has the public scalars,
redacted, and the references (`Harmless`); and a recovered event agrees with the live one
(`RecoveredAgrees`) if its project is still there. The patterns, the HMAC and the catalog are arbitrary.

## 7. Only model-checked

* `PassEnds`, `EveryJobSettles`, `BacklogDrains`, `HealsDamage`, `UpgradeNoticed`, `ViewsCatchUp`: liveness,
  out of the prover's reach.
* Of `HookFile`: `ForeignUntouched`, `StrictStaysStrict`, and of `ExactlyWanted` that there is one handler for each event and
  that a second patch changes line ends at most. These compare whole texts, order and comments included.

## 8. Not modelled

* Signatures, JSON and Markdown of a request; escaping and layout of a message; the patterns of redaction
  (parameters of `Message`). Where wording bears on control it is modelled: `compose_document` (`worker.rs:485`)
  panics on a character boundary (`CutsCharacter`).
* The catalogs' content, static data; the parsing of a version's output; the manifest's lookup.
* The cipher and its bounds; the framing of the IPC and the permissions of its endpoint.
* The file's snapshots, which are written and never read by the program; `delivery_attempts` as a history.
* Diagnostics archive, log rotation, updates, window handling, forms, packaging: I/O, views and build scripts.
* SQLite itself: a transaction is one step.

## 9. Plan

Written so far: the delivery queue and its worker, the ingress path, the hook installer and the helper it
deploys, detection, configuration, settings and projects, the data directory, policy, messages and records, the views,
the patch of a hook file and its commands, all with proofs. Next:

1. Of `HookFile`: that the elements of the user's keep their order, of which `SplicePlaced` says where each one goes.
2. The rejected files of the spool and the reports of the diagnostics over them.
