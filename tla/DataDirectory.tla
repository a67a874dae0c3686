-------------------------- MODULE DataDirectory ---------------------------
(***************************************************************************)
(* The application's data directory and its two keys. The correlation key  *)
(* is a file in the directory, made by whoever comes first: the            *)
(* application, or a hook helper started by an agent at any moment. The    *)
(* data key is an entry of the operating system's keyring, made by the     *)
(* application or by the uninstaller's command line, which are processes   *)
(* of their own. A purge deletes the directory from a detached process.    *)
(***************************************************************************)
EXTENDS Naturals, FiniteSets

CONSTANTS
  Helpers,             \* hook helpers that may run at once
  App, Cli,            \* the application and the uninstaller's command line
  Keys,                \* random keys, in the order of nothing
  NoKey, EmptyFile,
  MaxFaults            \* bound: failed steps, and processes killed

ASSUME DirectoryAssumption ==
  /\ NoKey \notin Keys /\ EmptyFile \notin Keys /\ NoKey # EmptyFile
  /\ App \notin Helpers /\ Cli \notin Helpers /\ App # Cli

VARIABLES
  at,        \* at[p]: how far process p is
  held,      \* held[p]: the correlation key p has
  cipher,    \* cipher[p]: the data key p has
  there,     \* the directory exists
  keyFile,   \* correlation.key: a key, EmptyFile, or NoKey when there is none
  schema,    \* the database is migrated
  refs,      \* correlation keys that references in the directory were made with
  keyring,   \* the data key in the keyring, or NoKey
  sealed,    \* data keys that stored fields and snapshots are encrypted with
  minted,    \* keys generated
  purge,     \* the detached deletion: none, due, sweeping, done
  faults,
  swept,     \* history: a deletion has begun
  erased     \* history: the keyring entry was removed by hand, or two were made at once

vars == <<at, held, cipher, there, keyFile, schema, refs, keyring, sealed,
             minted, purge, faults, swept, erased>>

Procs == Helpers \cup {App, Cli}
Up == at[App] \in {"load", "mint", "serving", "mute"}

Init ==
  /\ at = [p \in Procs |-> "off"]
  /\ held = [p \in Procs |-> NoKey]
  /\ cipher = [p \in Procs |-> NoKey]
  /\ there = FALSE /\ keyFile = NoKey /\ schema = FALSE /\ refs = {}
  /\ keyring = NoKey /\ sealed = {} /\ minted = {}
  /\ purge = "none"
  /\ faults = 0
  /\ swept = FALSE /\ erased = FALSE

Goes(p, step) == at' = [at EXCEPT ![p] = step]

\* ensure_private_directory: made when it is missing.
MakesDirectory == there' = TRUE

\* ensure_private_file: opened for writing, made empty when it is missing.
OpenedKeyFile == IF keyFile = NoKey THEN EmptyFile ELSE keyFile

\* read_correlation_key: only a file of the right length is a key.
KeyRead == IF keyFile \in Keys THEN keyFile ELSE NoKey

\* Where a process goes on once it has its correlation key, or has failed to
\* get one: a helper files its event without references, the application
\* does not start.
WithKey(p) == IF p = App THEN "load" ELSE "file"
WithoutKey(p) == IF p = App THEN "off" ELSE "file"

(***************************************************************************)
(* Starts.                                                                 *)
(***************************************************************************)
\* An agent's event starts a helper, whatever the application does.
HelperStarts(h) ==
  /\ at[h] = "off"
  /\ Goes(h, "key")
  /\ UNCHANGED <<held, cipher, there, keyFile, schema, refs, keyring, sealed, minted,
                 purge, faults, swept, erased>>

\* The application or the command line starts; the application makes its
\* directories first.
Starts(p) ==
  /\ at[p] = "off"
  /\ Goes(p, "open")
  /\ there' = (there \/ p = App)
  /\ UNCHANGED <<held, cipher, keyFile, schema, refs, keyring, sealed, minted,
                 purge, faults, swept, erased>>

\* Database::open: the directory again, then the migrations in transactions.
Migrates == schema' = TRUE
OpenDatabase(p) ==
  /\ at[p] = "open"
  /\ MakesDirectory
  /\ Migrates
  /\ Goes(p, IF p = App THEN "key" ELSE "load")
  /\ UNCHANGED <<held, cipher, keyFile, refs, keyring, sealed, minted,
                 purge, faults, swept, erased>>

(***************************************************************************)
(* CorrelationKey::load_or_create.                                         *)
(***************************************************************************)
\* The directory is made, then the file is read.
ReadKey(p) ==
  /\ at[p] = "key"
  /\ MakesDirectory
  /\ held' = [held EXCEPT ![p] = KeyRead]
  /\ Goes(p, CASE keyFile \in Keys  -> "harden"
               [] keyFile = NoKey   -> "link"
               [] OTHER             -> WithoutKey(p))
  /\ UNCHANGED <<cipher, keyFile, schema, refs, keyring, sealed, minted,
                 purge, faults, swept, erased>>

\* The permissions of the file just read are set by opening it, which makes it
\* when it is gone.
Harden(p) ==
  /\ at[p] = "harden"
  /\ IF there
     THEN /\ keyFile' = OpenedKeyFile
          /\ Goes(p, WithKey(p))
          /\ UNCHANGED held
     ELSE /\ Goes(p, WithoutKey(p))
          /\ held' = [held EXCEPT ![p] = NoKey]
          /\ UNCHANGED keyFile
  /\ UNCHANGED <<cipher, there, schema, refs, keyring, sealed, minted,
                 purge, faults, swept, erased>>

\* A key of one's own is written to a temporary file and linked to the name:
\* the link fails when the name is taken, or the directory gone.
LinkOver(p) ==   \* a mutant of Link: the temporary file is renamed over the name
  /\ at[p] = "link"
  /\ \E k \in Keys \ minted :
       /\ minted' = minted \cup {k}
       /\ keyFile' = k
       /\ held' = [held EXCEPT ![p] = k]
  /\ Goes(p, WithKey(p))
  /\ UNCHANGED <<cipher, there, schema, refs, keyring, sealed,
                 purge, faults, swept, erased>>
Link(p) ==
  /\ at[p] = "link"
  /\ \E k \in Keys \ minted :
       /\ minted' = minted \cup {k}
       /\ IF there /\ keyFile = NoKey
          THEN /\ keyFile' = k
               /\ held' = [held EXCEPT ![p] = k]
               /\ Goes(p, WithKey(p))
          ELSE Goes(p, "again") /\ UNCHANGED <<keyFile, held>>
  /\ UNCHANGED <<cipher, there, schema, refs, keyring, sealed,
                 purge, faults, swept, erased>>

\* Whoever did not get the name reads the file of whoever did.
ReadAgain(p) ==
  /\ at[p] = "again"
  /\ held' = [held EXCEPT ![p] = KeyRead]
  /\ Goes(p, IF KeyRead # NoKey THEN WithKey(p) ELSE WithoutKey(p))
  /\ UNCHANGED <<cipher, there, keyFile, schema, refs, keyring, sealed, minted,
                 purge, faults, swept, erased>>

KeyFails(p) ==
  /\ at[p] \in {"key", "harden", "link"}
  /\ faults < MaxFaults
  /\ faults' = faults + 1
  /\ held' = [held EXCEPT ![p] = NoKey]
  /\ Goes(p, IF at[p] = "link" THEN "again" ELSE WithoutKey(p))
  /\ UNCHANGED <<cipher, there, keyFile, schema, refs, keyring, sealed, minted,
                 purge, swept, erased>>

\* The helper stores its event, in the database when it is migrated and in the
\* spool otherwise; either makes the directory.
HelperFiles(h) ==
  /\ at[h] = "file"
  /\ MakesDirectory
  /\ refs' = refs \cup ({held[h]} \ {NoKey})
  /\ Goes(h, "off")
  /\ held' = [held EXCEPT ![h] = NoKey]
  /\ UNCHANGED <<cipher, keyFile, schema, keyring, sealed, minted,
                 purge, faults, swept, erased>>

(***************************************************************************)
(* FieldCipher::load_or_create. The lock around it is of one process.      *)
(***************************************************************************)
Loaded(p, k) ==
  /\ cipher' = [cipher EXCEPT ![p] = k]
  /\ Goes(p, "serving")

\* A mutant of LoadDataKey: a keyring that does not answer is taken for empty.
LoadDataKeyAnyway(p) ==
  /\ at[p] = "load"
  /\ \/ keyring # NoKey /\ Loaded(p, keyring) /\ UNCHANGED faults
     \/ keyring = NoKey /\ Goes(p, "mint") /\ UNCHANGED <<cipher, faults>>
     \/ faults < MaxFaults /\ faults' = faults + 1 /\ Goes(p, "mint") /\ UNCHANGED cipher
  /\ UNCHANGED <<held, there, keyFile, schema, refs, keyring, sealed, minted,
                 purge, swept, erased>>

\* The keyring answers, or says there is no such entry.
LoadDataKey(p) ==
  /\ at[p] = "load"
  /\ \/ keyring # NoKey /\ Loaded(p, keyring) /\ UNCHANGED faults
     \/ keyring = NoKey /\ Goes(p, "mint") /\ UNCHANGED <<cipher, faults>>
  /\ UNCHANGED <<held, there, keyFile, schema, refs, keyring, sealed, minted,
                 purge, swept, erased>>

\* The keyring does not answer, or does not take the new key: the application
\* goes on without encrypting, receiving or sending.
DataKeyFails(p) ==
  /\ at[p] \in {"load", "mint"}
  /\ faults < MaxFaults
  /\ faults' = faults + 1
  /\ Goes(p, IF p = App THEN "mute" ELSE "off")
  /\ UNCHANGED <<held, cipher, there, keyFile, schema, refs, keyring, sealed, minted,
                 purge, swept, erased>>

StoreDataKey(p) ==
  /\ at[p] = "mint"
  /\ \E k \in Keys \ minted :
       /\ minted' = minted \cup {k}
       /\ keyring' = k
       /\ Loaded(p, k)
  /\ erased' = (erased \/ \E q \in {App, Cli} \ {p} : at[q] = "mint")
  /\ UNCHANGED <<held, there, keyFile, schema, refs, sealed,
                 purge, faults, swept>>

\* The application stores an event: references under one key, fields under the
\* other. The command line stores an encrypted snapshot and is done.
Seals(p) == sealed' = sealed \cup {cipher[p]}
Store(p) ==
  /\ at[p] = "serving"
  /\ Seals(p)
  /\ refs' = refs \cup ({held[p]} \ {NoKey})
  /\ IF p = Cli THEN Goes(p, "off") /\ cipher' = [cipher EXCEPT ![p] = NoKey]
     ELSE UNCHANGED <<at, cipher>>
  /\ UNCHANGED <<held, there, keyFile, schema, keyring, minted,
                 purge, faults, swept, erased>>

\* The user removes the keyring's entries of this service.
EraseKeyring ==
  /\ keyring # NoKey
  /\ faults < MaxFaults
  /\ faults' = faults + 1
  /\ keyring' = NoKey
  /\ erased' = TRUE
  /\ UNCHANGED <<at, held, cipher, there, keyFile, schema, refs, sealed, minted,
                 purge, swept>>

(***************************************************************************)
(* The end of the application, and the purge.                              *)
(***************************************************************************)
Ended(p) ==
  /\ Goes(p, "off")
  /\ held' = [held EXCEPT ![p] = NoKey]
  /\ cipher' = [cipher EXCEPT ![p] = NoKey]

\* purge_local_data: the deletion is scheduled three seconds ahead, and the
\* application begins to stop, which may take up to ten.
RequestPurge ==
  /\ Up /\ purge = "none"
  /\ purge' = "due"
  /\ Goes(App, "draining")
  /\ UNCHANGED <<held, cipher, there, keyFile, schema, refs, keyring, sealed, minted,
                 faults, swept, erased>>

Quit ==
  /\ Up
  /\ Goes(App, "draining")
  /\ UNCHANGED <<held, cipher, there, keyFile, schema, refs, keyring, sealed, minted,
                 purge, faults, swept, erased>>

\* The application has drained; the command line had nothing to uninstall.
Exits(p) ==
  /\ at[p] = IF p = App THEN "draining" ELSE "serving"
  /\ Ended(p)
  /\ UNCHANGED <<there, keyFile, schema, refs, keyring, sealed, minted,
                 purge, faults, swept, erased>>

\* A process is killed, or the application's start fails.
Killed(p) ==
  /\ at[p] # "off"
  /\ faults < MaxFaults
  /\ faults' = faults + 1
  /\ Ended(p)
  /\ UNCHANGED <<there, keyFile, schema, refs, keyring, sealed, minted,
                 purge, swept, erased>>

SweepBegins ==
  /\ purge = "due"
  /\ purge' = "sweeping"
  /\ swept' = TRUE
  /\ UNCHANGED <<at, held, cipher, there, keyFile, schema, refs, keyring, sealed, minted,
                 faults, erased>>

\* rm -rf removes the entries one by one ...
SweepKey ==
  /\ purge = "sweeping" /\ keyFile # NoKey
  /\ keyFile' = NoKey
  /\ UNCHANGED <<at, held, cipher, there, schema, refs, keyring, sealed, minted,
                 purge, faults, swept, erased>>

SweepData ==
  /\ purge = "sweeping" /\ (schema \/ refs # {} \/ sealed # {})
  /\ schema' = FALSE /\ refs' = {} /\ sealed' = {}
  /\ UNCHANGED <<at, held, cipher, there, keyFile, keyring, minted,
                 purge, faults, swept, erased>>

\* ... and then the directory, if nothing has come into it meanwhile.
DirectoryEmpty == keyFile = NoKey /\ ~schema /\ refs = {} /\ sealed = {}
SweepEnds ==
  /\ purge = "sweeping"
  /\ there' = (there /\ ~DirectoryEmpty)
  /\ purge' = "done"
  /\ UNCHANGED <<at, held, cipher, keyFile, schema, refs, keyring, sealed, minted,
                 faults, swept, erased>>

Next ==
  \/ \E h \in Helpers : HelperStarts(h) \/ HelperFiles(h)
  \/ \E p \in {App, Cli} :
       Starts(p) \/ OpenDatabase(p) \/ LoadDataKey(p) \/ DataKeyFails(p)
       \/ StoreDataKey(p) \/ Store(p) \/ Exits(p)
  \/ \E p \in Helpers \cup {App} :
       ReadKey(p) \/ Harden(p) \/ Link(p) \/ ReadAgain(p) \/ KeyFails(p)
  \/ \E p \in Procs : Killed(p)
  \/ EraseKeyring
  \/ RequestPurge \/ Quit
  \/ SweepBegins \/ SweepKey \/ SweepData \/ SweepEnds

Spec == Init /\ [][Next]_vars

TypeOK ==
  /\ at \in [Procs -> {"off", "open", "key", "harden", "link", "again", "file", "load",
                       "mint", "serving", "mute", "draining"}]
  /\ held \in [Procs -> Keys \cup {NoKey}] /\ cipher \in [Procs -> Keys \cup {NoKey}]
  /\ keyFile \in Keys \cup {NoKey, EmptyFile} /\ keyring \in Keys \cup {NoKey}
  /\ there \in BOOLEAN /\ schema \in BOOLEAN /\ swept \in BOOLEAN /\ erased \in BOOLEAN
  /\ refs \subseteq Keys /\ sealed \subseteq Keys /\ minted \subseteq Keys
  /\ purge \in {"none", "due", "sweeping", "done"}

\* Whoever comes first, and whoever fails on the way, there is one correlation
\* key until the directory is purged: every process has the file's, and every
\* stored reference was made with it, so that references of one session agree.
OneCorrelationKey ==
  swept \/ (/\ \A p \in Procs : held[p] \in {NoKey, keyFile}
            /\ refs \subseteq {keyFile})

\* What is stored encrypted can be decrypted after the next start: its key is
\* the keyring's, unless the user removed the entry or the application and the
\* command line made one each at the same moment.
SealedStaysReadable == erased \/ sealed \subseteq {keyring}

\* What commands/settings.rs says of the purge: the deletion runs after this
\* process has released its files.
SweptAfterExit == purge = "sweeping" => at[App] = "off"

\* The file of the correlation key is whole whenever it is there: it is linked
\* into place when it is written (crypto.rs, publish_correlation_key_with).
KeyFileWhole == keyFile # EmptyFile

(***************************************************************************)
(* The inductive invariant.                                                *)
(***************************************************************************)
\* Who encrypts has a key to encrypt with.
ServingHasKey == \A p \in {App, Cli} : at[p] = "serving" => cipher[p] # NoKey

\* Only a deletion that has begun takes the directory's files away.
SweepIsKnown == purge \in {"sweeping", "done"} => swept

\* Every data key at hand is the keyring's, and who makes one found none there.
OneDataKey ==
  erased \/ (/\ sealed \subseteq {keyring}
             /\ \A p \in Procs : cipher[p] \in {NoKey, keyring}
             /\ \A p \in {App, Cli} : at[p] = "mint" => keyring = NoKey)

IInv == TypeOK /\ ServingHasKey /\ SweepIsKnown /\ OneDataKey /\ OneCorrelationKey

=============================================================================
