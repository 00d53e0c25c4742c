---------------------------- MODULE MCTacSystem ----------------------------
(* A small instance of TacSystem for TLC: one operation, which the realtime *)
(* thread or an interval brings, as the clock runs before the start.        *)
EXTENDS TacSystem

CONSTANT o1

TsInstance == [o \in Ops |-> 4]

LifeInstance == [o \in Ops |-> <<"PENDING", "ROLLBACK">>]
=============================================================================
