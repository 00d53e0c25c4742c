--------------------------- MODULE MCTacOperations ---------------------------
(* Small instances of TacOperations for TLC. *)
EXTENDS TacOperations

CONSTANTS o1, o2

TsInstance == [o \in Ops |-> IF o = o1 THEN 1 ELSE 2]

(* o1 passes through an UNKNOWN answer on its way, o2 through known ones. *)
LifeMixed ==
    [o \in Ops |-> IF o = o1 THEN <<"PENDING", "UNKNOWN", "TON-TAC">>
                             ELSE <<"PENDING", "ROLLBACK">>]

(* o1 is answered as UNKNOWN before its type is known. *)
LifeWithUnknown ==
    [o \in Ops |-> IF o = o1 THEN <<"UNKNOWN", "TON-TAC">> ELSE <<"TAC-TON">>]
=============================================================================
