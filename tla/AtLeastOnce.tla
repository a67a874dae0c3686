---------------------------- MODULE AtLeastOnce ----------------------------
(***************************************************************************)
(* What the delivery queue promises, without leases, attempts, channels or *)
(* a clock: a notification that was accepted stays open until it succeeds, *)
(* fails, expires or is removed; the platform receives copies only while   *)
(* it is open (or was removed under a request already out); and it is      *)
(* called a success only when a copy did arrive.                           *)
(***************************************************************************)
EXTENDS Naturals

CONSTANT Notifications

VARIABLES
  phase,  \* where each notification is in its life
  copies  \* how many times the platform has accepted it

Phases == {"none", "open", "succeeded", "failed", "expired", "removed"}

Init ==
  /\ phase = [n \in Notifications |-> "none"]
  /\ copies = [n \in Notifications |-> 0]

Take(n) ==
  /\ phase[n] = "none"
  /\ phase' = [phase EXCEPT ![n] = "open"]
  /\ UNCHANGED copies

Receive(S) ==
  /\ \A n \in S : phase[n] \in {"open", "removed"}
  /\ copies' = [n \in Notifications |-> IF n \in S THEN copies[n] + 1 ELSE copies[n]]
  /\ UNCHANGED phase

\* A step may conclude several notifications, each in its own way.
Concluded(n, p) ==
  /\ phase[n] = "open"
  /\ p \in {"succeeded", "failed", "expired"}
  /\ p = "succeeded" => copies[n] > 0

Conclude ==
  /\ phase' \in [Notifications -> Phases]
  /\ \A n \in Notifications : phase'[n] = phase[n] \/ Concluded(n, phase'[n])
  /\ UNCHANGED copies

Reopen(n) ==
  /\ phase[n] = "failed"
  /\ phase' = [phase EXCEPT ![n] = "open"]
  /\ UNCHANGED copies

Remove(S) ==
  /\ \A n \in S : phase[n] # "none"
  /\ phase' = [n \in Notifications |-> IF n \in S THEN "removed" ELSE phase[n]]
  /\ UNCHANGED copies

Next ==
  \/ \E n \in Notifications : Take(n) \/ Reopen(n)
  \/ \E S \in SUBSET Notifications : Receive(S) \/ Remove(S)
  \/ Conclude

Spec == Init /\ [][Next]_<<phase, copies>>
=============================================================================
