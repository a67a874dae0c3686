------------------------- MODULE CommandThreads ---------------------------
(***************************************************************************)
(* The threads the commands of the window and the tray run on. Every       *)
(* command is moved to a thread of the blocking pool, so several are under *)
(* way at once; no lock is held across one, only SQLite orders their       *)
(* transactions. A step of a command may fail: storage, the file system,   *)
(* or the operating system refuses it, or the thread panics.               *)
(***************************************************************************)
EXTENDS Naturals

CONSTANTS
  Threads,       \* commands that may be under way at once
  MaxCommands,   \* bound: commands begun
  MaxFaults      \* bound: steps that fail

ASSUME ThreadsAssumption == MaxCommands \in Nat /\ MaxFaults \in Nat

VARIABLES
  job,      \* job[t]: what thread t is doing, with what it has read so far
  begun,    \* commands begun
  faults    \* steps that failed

threadVars == <<job, begun, faults>>

Free == [step |-> "free"]

\* A command begins on a free thread with its first step still to be done.
Begins(t, work) ==
  /\ job[t] = Free
  /\ begun < MaxCommands
  /\ begun' = begun + 1
  /\ job' = [job EXCEPT ![t] = work]
  /\ UNCHANGED faults

Continues(t, work) ==
  /\ job' = [job EXCEPT ![t] = work]
  /\ UNCHANGED <<begun, faults>>

Ends(t) == Continues(t, Free)

Faulty ==
  /\ faults < MaxFaults
  /\ faults' = faults + 1
  /\ UNCHANGED begun

\* A step fails: the command returns its error and goes no further.
Aborts(t) ==
  /\ Faulty
  /\ job' = [job EXCEPT ![t] = Free]

\* The process stops: nothing of a command under way survives.
AllEnd ==
  /\ Faulty
  /\ job' = [t \in Threads |-> Free]

ThreadsInit ==
  /\ job = [t \in Threads |-> Free]
  /\ begun = 0
  /\ faults = 0
=============================================================================
