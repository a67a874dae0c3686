--------------------------- MODULE Configuration ---------------------------
(***************************************************************************)
(* Channels with their credentials, and the rules that name channels       *)
(* (storage/config.rs, commands/channels.rs, security/credentials.rs).     *)
(* The rows are in SQLite, the credentials in the system's keyring: a      *)
(* channel command is a series of steps over both, commands run on several *)
(* threads at once, and a saved rule is a transaction of its own.          *)
(***************************************************************************)
EXTENDS Naturals

CONSTANTS
  Channels,
  Rules,      \* (agent, source event) pairs: the catalog seeds a global rule for each
  Projects,
  Clients,    \* blocking threads that run channel commands
  MaxFaults   \* bound: failing storage or keyring, process deaths

ASSUME ConfigurationAssumption == Channels # {} /\ MaxFaults \in Nat

VARIABLES
  exists,    \* channels: whether the row is there
  secret,    \* the keyring: whether the channel's entry is there
  global,    \* global_rules
  patch,     \* project_rule_overrides; an empty patch is no row
  cmd,       \* the channel command each client runs
  replaced,  \* history: channels of which the last command done replaced the credential
  faulted,   \* history: channels a command failed on
  faults

vars == <<exists, secret, global, patch, cmd, replaced, faulted, faults>>
rules == <<global, patch>>

GlobalRule == [on : BOOLEAN, targets : SUBSET Channels]

\* A field of a patch is set or inherited.
RulePatch ==
  {q \in [on : {"inherit", "on", "off"}, own : BOOLEAN, targets : SUBSET Channels] :
     ~q.own => q.targets = {}}
NoPatch == [on |-> "inherit", own |-> FALSE, targets |-> {}]

Operations == {"none", "save", "replace", "delete"}
Stages == {"found", "stored", "tidying"}
Command == [op : Operations, chan : Channels, stage : Stages]
Idle == [op |-> "none", chan |-> CHOOSE c \in Channels : TRUE, stage |-> "found"]

Init ==
  /\ exists = [c \in Channels |-> FALSE]
  /\ secret = [c \in Channels |-> FALSE]
  /\ global \in [Rules -> {[on |-> on, targets |-> {}] : on \in BOOLEAN}]
  /\ patch = [p \in Projects |-> [r \in Rules |-> NoPatch]]
  /\ cmd = [k \in Clients |-> Idle]
  /\ replaced = {} /\ faulted = {}
  /\ faults = 0

(***************************************************************************)
(* Rules                                                                   *)
(***************************************************************************)
\* resolve_rule, as far as it decides whether and where to notify.
Resolved(g, q) ==
  [on |-> IF q.on = "inherit" THEN g.on ELSE q.on = "on",
   targets |-> IF q.own THEN q.targets ELSE g.targets]

\* The rules an event can meet: outside any project, or in one.
Effective ==
  {global[r] : r \in Rules} \cup {Resolved(global[r], patch[p][r]) : p \in Projects, r \in Rules}

Names(rule, c) == rule.on /\ c \in rule.targets

\* A mutant of Targeted: the projects' patches are not looked at.
TargetedGlobally(c) == \E r \in Rules : Names(global[r], c)
\* channel_is_targeted
Targeted(c) == \E rule \in Effective : Names(rule, c)

AllExist(targets) == \A c \in targets : exists[c]

\* ConfigRepository::save_global_rule, a transaction.
PutGlobalRule(r, rule) ==
  /\ AllExist(rule.targets)
  /\ global' = [global EXCEPT ![r] = rule]

SaveGlobalRule(r) ==
  /\ \E rule \in GlobalRule : PutGlobalRule(r, rule)
  /\ UNCHANGED <<exists, secret, patch, cmd, replaced, faulted, faults>>

\* Only targets the patch sets itself are looked up.
PatchTargetsExist(q) == q.own => AllExist(q.targets)

PutPatch(p, r, q) == patch' = [patch EXCEPT ![p][r] = q]

SaveProjectPatch(p, r) ==
  /\ \E q \in RulePatch : PatchTargetsExist(q) /\ PutPatch(p, r, q)
  /\ UNCHANGED <<exists, secret, global, cmd, replaced, faulted, faults>>

PatchFields == {"enabled", "targets"}
Cleared(q, field) ==
  CASE field = "enabled" -> [q EXCEPT !.on = "inherit"]
    [] field = "targets" -> [q EXCEPT !.own = FALSE, !.targets = {}]

\* reset_project_patch_field: nothing is looked up.
ResetPatchField(p, r) ==
  /\ patch[p][r] # NoPatch
  /\ \E field \in PatchFields : PutPatch(p, r, Cleared(patch[p][r], field))
  /\ UNCHANGED <<exists, secret, global, cmd, replaced, faulted, faults>>

(***************************************************************************)
(* Channel commands.  The keyring's entry is named after the channel, so   *)
(* its reference never changes.                                            *)
(***************************************************************************)
At(k, op, stage) == cmd[k].op = op /\ cmd[k].stage = stage
Goes(k, op, c, stage) == cmd' = [cmd EXCEPT ![k] = [op |-> op, chan |-> c, stage |-> stage]]
Ends(k) == cmd' = [cmd EXCEPT ![k] = Idle]
SetSecret(c, present) == secret' = [secret EXCEPT ![c] = present]
SetRow(c, present) == exists' = [exists EXCEPT ![c] = present]

\* Replacing and deleting read the row first; saving takes any id.
Find(k, c) ==
  /\ cmd[k] = Idle /\ exists[c]
  /\ \E op \in {"replace", "delete"} : Goes(k, op, c, "found")
  /\ UNCHANGED <<exists, secret, rules, replaced, faulted, faults>>

StoreNew(k, c) ==
  /\ cmd[k] = Idle
  /\ SetSecret(c, TRUE)
  /\ Goes(k, "save", c, "stored")
  /\ UNCHANGED <<exists, rules, replaced, faulted, faults>>

StoreReplacement(k) ==
  /\ At(k, "replace", "found")
  /\ SetSecret(cmd[k].chan, TRUE)
  /\ Goes(k, "replace", cmd[k].chan, "stored")
  /\ UNCHANGED <<exists, rules, replaced, faulted, faults>>

\* save_channel inserts or updates; a replacement goes on to delete the
\* credential under the reference it found, which is the one it just stored.
SaveRow(k) ==
  LET c == cmd[k].chan
  IN  /\ cmd[k].stage = "stored"
      /\ SetRow(c, TRUE)
      /\ IF cmd[k].op = "replace"
         THEN Goes(k, "replace", c, "tidying") /\ UNCHANGED replaced
         ELSE Ends(k) /\ replaced' = replaced \ {c}
      /\ UNCHANGED <<secret, rules, faulted, faults>>

Fault(c) ==
  /\ faults < MaxFaults
  /\ faults' = faults + 1
  /\ faulted' = faulted \cup {c}

\* A save takes its credential back, a replacement leaves it.
SaveRowFails(k) ==
  /\ cmd[k].stage = "stored"
  /\ Fault(cmd[k].chan)
  /\ IF cmd[k].op = "save" THEN Goes(k, "save", cmd[k].chan, "tidying") ELSE Ends(k)
  /\ UNCHANGED <<exists, secret, rules, replaced>>

\* A mutant of DeleteRow: the credential is left behind.
DeleteRowOnly(k) ==
  /\ At(k, "delete", "found")
  /\ IF exists[cmd[k].chan] /\ ~Targeted(cmd[k].chan)
     THEN SetRow(cmd[k].chan, FALSE) /\ Ends(k)
     ELSE UNCHANGED exists /\ Ends(k)
  /\ UNCHANGED <<secret, rules, replaced, faulted, faults>>

\* A channel that is gone or that a rule in force names is refused.
DeleteRow(k) ==
  LET c == cmd[k].chan
  IN  /\ At(k, "delete", "found")
      /\ IF exists[c] /\ ~Targeted(c)
         THEN SetRow(c, FALSE) /\ Goes(k, "delete", c, "tidying")
         ELSE UNCHANGED exists /\ Ends(k)
      /\ UNCHANGED <<secret, rules, replaced, faulted, faults>>

DeleteSecret(k) ==
  LET c == cmd[k].chan
  IN  /\ cmd[k].stage = "tidying"
      /\ SetSecret(c, FALSE)
      /\ replaced' = IF cmd[k].op = "replace" THEN replaced \cup {c} ELSE replaced \ {c}
      /\ Ends(k)
      /\ UNCHANGED <<exists, rules, faulted, faults>>

\* What the keyring says to a deletion is ignored; or the process dies.
StopsShort(k) ==
  /\ cmd[k] # Idle
  /\ Fault(cmd[k].chan)
  /\ Ends(k)
  /\ UNCHANGED <<exists, secret, rules, replaced>>

Next ==
  \/ \E r \in Rules : SaveGlobalRule(r)
  \/ \E p \in Projects, r \in Rules : SaveProjectPatch(p, r) \/ ResetPatchField(p, r)
  \/ \E k \in Clients, c \in Channels : Find(k, c) \/ StoreNew(k, c)
  \/ \E k \in Clients :
       StoreReplacement(k) \/ SaveRow(k) \/ SaveRowFails(k)
       \/ DeleteRow(k) \/ DeleteSecret(k) \/ StopsShort(k)

Spec == Init /\ [][Next]_vars
-----------------------------------------------------------------------------
(* Properties *)

\* Every variable keeps its type.
TypeOK ==
  /\ exists \in [Channels -> BOOLEAN]
  /\ secret \in [Channels -> BOOLEAN]
  /\ global \in [Rules -> GlobalRule]
  /\ patch \in [Projects -> [Rules -> RulePatch]]
  /\ cmd \in [Clients -> Command]
  /\ replaced \subseteq Channels /\ faulted \subseteq Channels
  /\ faults \in Nat

\* A rule that is switched on, with targets, where it is saved names channels
\* that exist, for as long as it stands: deletion looks at what every global
\* rule and every patch come to together.
ChosenTargetsExist ==
  /\ \A r \in Rules : global[r].on => AllExist(global[r].targets)
  /\ \A p \in Projects, r \in Rules : patch[p][r].on = "on" => AllExist(patch[p][r].targets)

\* No credential is left behind: when no command is at work on a channel and
\* none failed on it, the keyring has an entry only for a channel with a row,
\* however its commands were interleaved.
NoOrphanSecret ==
  \A c \in Channels \ faulted :
    secret[c] /\ (\A k \in Clients : cmd[k] = Idle \/ cmd[k].chan # c) => exists[c]

\* What NoOrphanSecret rests on: a credential without a row is still in the
\* hands of a command that has stored it or will delete it, unless one failed.
AtTheSecret(k, c) == cmd[k].chan = c /\ cmd[k].stage \in {"stored", "tidying"}
SecretsTended ==
  \A c \in Channels \ faulted : secret[c] => exists[c] \/ \E k \in Clients : AtTheSecret(k, c)

IInv == TypeOK /\ ChosenTargetsExist /\ SecretsTended

(***************************************************************************)
(* Statements of the documentation that the code does not keep.            *)
(***************************************************************************)
\* docs/operations.md: after its credential was replaced a channel delivers.
ReplacedCredentialIsThere == \A c \in replaced : secret[c]

\* docs/operations.md: a channel an active rule points to is not deleted.
ActiveTargetsExist == \A rule \in Effective : rule.on => AllExist(rule.targets)
=============================================================================
