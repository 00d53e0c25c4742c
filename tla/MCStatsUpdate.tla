---------------------------- MODULE MCStatsUpdate ----------------------------
(* A small instance of StatsUpdate for TLC. *)
EXTENDS StatsUpdate

(* Chart 1 is computed from chart 2, and each is in a group of its own. *)
DependsOnInstance   == <<{1, 2}, {2}>>
MembersInstance     == [g \in Groups |-> IF g = "g1" THEN {1} ELSE {2}]
TopStatusInstance   == [blockscout |-> 0, user_ops |-> 1]
RequirementInstance ==
    <<[blockscout |-> 0, user_ops |-> 0], [blockscout |-> 0, user_ops |-> 1]>>

(* Recompute both from a date, now; the second from a date, on schedule;    *)
(* bring the first up to date.                                              *)
ReupdatesInstance ==
    {[charts |-> {1, 2}, from |-> TRUE, later |-> FALSE],
     [charts |-> {2}, from |-> TRUE, later |-> TRUE],
     [charts |-> {1}, from |-> FALSE, later |-> FALSE]}
=============================================================================
