---------------------- MODULE MCNotificationPolicy -------------------------
(* Two events of a rule whose versions try each condition, in days of three *)
(* instants that begin on a Sunday.                                         *)
EXTENDS NotificationPolicy, TLC

CONSTANTS e1, e2, c1

Plain == [enabled |-> TRUE, permission |-> FALSE, targets |-> Channels, ttl |-> 3,
          cooldown |-> 0, window |-> 3, cap |-> 2, mode |-> Immediate,
          quiet |-> Never, behavior |-> "suppress"]

Hours(start, end, day) == [start |-> start, end |-> end, days |-> {day}, bypassInfo |-> FALSE]

\* Quiet within a day, over midnight, all day; on Sundays or on Mondays.
QuietRules ==
  {[Plain EXCEPT !.quiet = hours, !.behavior = "defer"] :
     hours \in {Hours(0, 2, 7), Hours(2, 1, 7), Hours(1, 1, 7)}}
LimitRules ==
  {[Plain EXCEPT !.cooldown = 2, !.quiet = Hours(2, 1, 1)],
   [Plain EXCEPT !.cap = 1],
   [Plain EXCEPT !.enabled = FALSE]}
BucketRules ==
  {[Plain EXCEPT !.mode = 2],
   [Plain EXCEPT !.mode = 2, !.permission = TRUE, !.quiet = [Hours(1, 1, 7) EXCEPT !.bypassInfo = TRUE]]}
MCRules == QuietRules \cup LimitRules \cup BucketRules

\* Bounds: e1 is the first to occur; a behaviour has an edit or a fault.
FirstComesE1 == plan[e2].stage # "none" => plan[e1].stage # "none"
OneTrouble == spent.edits + spent.faults <= 1
=============================================================================
