--------------------------- MODULE MCTacIntervals ---------------------------
(* Small instances of TacIntervals for TLC. *)
EXTENDS TacIntervals

CONSTANTS o1, o2, o3

(* o1 lies in the history, o2 inside the realtime lag, o3 in the future.    *)
TsInstance == [o \in Ops |-> IF o = o1 THEN 2 ELSE IF o = o2 THEN 4 ELSE 6]
=============================================================================
