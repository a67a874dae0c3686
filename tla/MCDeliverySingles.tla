------------------------- MODULE MCDeliverySingles -------------------------
(* Two single jobs that share a channel: leases, retries, deadlines, pauses. *)
EXTENDS DeliveryWorker, TLC

CONSTANTS j1, j2, c1, none

MCChannelOf == [j \in Jobs |-> c1]
MCBucketOf == [j \in Jobs |-> NoBucket]
MCReleaseOf == [b \in Buckets |-> 0]

Reply(fate, code) == [fate |-> fate, status |-> 200, code |-> code, retryAfter |-> 0]
MCSenderOf == [c \in Channels |-> [kind |-> "WeCom", signed |-> FALSE]]

JobSymmetry == Permutations(Jobs)

\* A message taken, an answer that does not come, markdown that is rejected, a
\* refused signature.
MCAnswers ==
  {Reply("TimedOut", "ok")} \cup {Reply("Answered", c) : c \in {"ok", "rejected", "signature"}}
=============================================================================
