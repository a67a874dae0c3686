------------------------- MODULE MCDeliveryGroup ---------------------------
(* An aggregate bucket of two jobs on one channel, a job on another, and one *)
(* global permit.                                                            *)
EXTENDS DeliveryWorker

CONSTANTS j1, j2, j3, c1, c2, b1, none

MCChannelOf == [j \in Jobs |-> IF j = j3 THEN c2 ELSE c1]
MCBucketOf == [j \in Jobs |-> IF j = j3 THEN none ELSE b1]
MCReleaseOf == [b \in Buckets |-> 1]
\* What j2 says is cut inside a character, behind the text of j1 between two.
MCCutsCharacter == {{j2}}
MCSenderOf == [c \in Channels |-> [kind |-> "DingTalk", signed |-> FALSE]]

\* A refused credential, for which every member of a bucket strikes.
MCAnswers ==
  {[fate |-> "Answered", status |-> 200, code |-> c, retryAfter |-> 0] : c \in {"ok", "token"}}
=============================================================================
