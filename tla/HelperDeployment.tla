------------------------- MODULE HelperDeployment -------------------------
(***************************************************************************)
(* The copy of the hook helper at its stable path. ensure_installed runs   *)
(* at the start of the application and for every command that installs,    *)
(* repairs or upgrades hooks, on threads of their own: it compares, checks *)
(* the version recorded beside the copy, renames a new copy over the old,  *)
(* hashes what it finds there and records the version, each a step of its  *)
(* own. The package in the application may change between two starts.      *)
(***************************************************************************)
EXTENDS Naturals

CONSTANTS
  Deployers,          \* threads that may deploy at once
  HelperVersions      \* versions of the helper, numbered as semver orders them

NoCopy == 0
VersionsNumbered == HelperVersions \subseteq Nat \ {NoCopy}

VARIABLES
  package,      \* version of the helper in the application's resources
  copy,         \* the version at the stable path (NoCopy: no file, or not a helper)
  sidecar,      \* the version recorded beside it (NoCopy: no readable record)
  deploy,       \* deploy[t]: the step thread t is at
  highest,      \* history: the highest version published since the last purge
  unrecorded    \* history: a version was published and not recorded since

deployVars == <<package, copy, sidecar, deploy, highest, unrecorded>>

DeployInit ==
  /\ package \in HelperVersions
  /\ copy = NoCopy /\ sidecar = NoCopy
  /\ deploy = [t \in Deployers |-> "idle"]
  /\ highest = NoCopy /\ unrecorded = FALSE

Steps(t, step) == deploy' = [deploy EXCEPT ![t] = step]

\* ensure_installed: a copy that is the package's is left alone, whatever is
\* recorded beside it.
CompareCopy(t) ==
  /\ deploy[t] = "idle"
  /\ copy # package
  /\ Steps(t, "gate")
  /\ UNCHANGED <<package, copy, sidecar, highest, unrecorded>>

\* install_with: a package older than the recorded version is refused.
RollsBack == package < sidecar
Gate(t) ==
  /\ deploy[t] = "gate"
  /\ Steps(t, IF RollsBack THEN "idle" ELSE "publish")
  /\ UNCHANGED <<package, copy, sidecar, highest, unrecorded>>

Publish(t) ==
  /\ deploy[t] = "publish"
  /\ copy' = package
  /\ highest' = IF package > highest THEN package ELSE highest
  /\ Steps(t, "rehash")
  /\ UNCHANGED <<package, sidecar, unrecorded>>

\* What is found at the stable path must be what was written.
Rehash(t) ==
  /\ deploy[t] = "rehash"
  /\ Steps(t, IF copy = package THEN "record" ELSE "idle")
  /\ unrecorded' = (unrecorded \/ copy # package)
  /\ UNCHANGED <<package, copy, sidecar, highest>>

Record(t) ==
  /\ deploy[t] = "record"
  /\ sidecar' = package
  /\ highest' = IF unrecorded THEN package ELSE highest
  /\ unrecorded' = FALSE
  /\ Steps(t, "idle")
  /\ UNCHANGED <<package, copy>>

Unfinished == \E t \in Deployers : deploy[t] \in {"rehash", "record"}

\* A step fails: the package does not match its manifest, or the file system
\* refuses. Whatever was renamed stays.
DeployFails(t) ==
  /\ deploy[t] # "idle"
  /\ unrecorded' = (unrecorded \/ deploy[t] \in {"rehash", "record"})
  /\ Steps(t, "idle")
  /\ UNCHANGED <<package, copy, sidecar, highest>>

DeployStops ==
  /\ unrecorded' = (unrecorded \/ Unfinished)
  /\ deploy' = [t \in Deployers |-> "idle"]
  /\ UNCHANGED <<package, copy, sidecar, highest>>

\* Somebody else replaces or removes the copy.
Tampered ==
  /\ copy # NoCopy /\ copy' = NoCopy
  /\ UNCHANGED <<package, sidecar, deploy, highest, unrecorded>>

\* Between two starts the application is updated or put back to an older version.
PackageChanges ==
  /\ \A t \in Deployers : deploy[t] = "idle"
  /\ package' \in HelperVersions \ {package}
  /\ UNCHANGED <<copy, sidecar, deploy, highest, unrecorded>>

\* The purge takes the copy and what is recorded with it.
SweepBin ==
  /\ copy' = NoCopy /\ sidecar' = NoCopy
  /\ highest' = NoCopy /\ unrecorded' = Unfinished
  /\ UNCHANGED <<package, deploy>>

DeployStep(t) ==
  CompareCopy(t) \/ Gate(t) \/ Publish(t) \/ Rehash(t) \/ Record(t) \/ DeployFails(t)

DeployNext ==
  \/ \E t \in Deployers : DeployStep(t)
  \/ DeployStops \/ Tampered \/ PackageChanges \/ SweepBin

DeploySpec == DeployInit /\ [][DeployNext]_deployVars

DeployTypeOK ==
  /\ package \in HelperVersions
  /\ copy \in HelperVersions \cup {NoCopy} /\ sidecar \in HelperVersions \cup {NoCopy}
  /\ deploy \in [Deployers -> {"idle", "gate", "publish", "rehash", "record"}]
  /\ highest \in HelperVersions \cup {NoCopy} /\ unrecorded \in BOOLEAN

\* Two threads that deploy at once, a copy that was damaged or removed, a stop
\* between the rename and the record: an older helper is never put in the place
\* of a newer one, unless the newer one's version could not be recorded.
NeverRolledBack ==
  [][copy' # copy /\ copy' # NoCopy => copy' >= highest \/ unrecorded]_deployVars

(***************************************************************************)
(* The inductive invariant: what was published is recorded, or its         *)
(* publisher is still between the rename and the record; a thread past the *)
(* gate carries nothing older.                                             *)
(***************************************************************************)
RecordedOrUnderWay ==
  ~unrecorded /\ highest # NoCopy => sidecar = highest \/ (Unfinished /\ highest = package)
PastTheGate ==
  ~unrecorded => \A t \in Deployers :
    /\ deploy[t] = "publish" => package >= highest
    /\ deploy[t] \in {"rehash", "record"} => highest = package
DeployInv == DeployTypeOK /\ RecordedOrUnderWay /\ PastTheGate
=============================================================================
