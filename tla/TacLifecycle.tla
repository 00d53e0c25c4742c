---------------------------- MODULE TacLifecycle ----------------------------
(* What the operation table promises to the readers of the TAC API: the     *)
(* stages shown for an operation only move forward, and once an operation   *)
(* is settled they never change again.                                      *)
EXTENDS Naturals

CONSTANTS Ops, Latest   \* Latest[o]: the last version of o's lifecycle data

VARIABLES shown,        \* shown[o]: version of the stored stages, 0 for none
          settled       \* settled[o]: the operation will not be looked at again

Init == shown = [o \in Ops |-> 0] /\ settled = [o \in Ops |-> FALSE]

Show(o) ==
    /\ ~settled[o]
    /\ \E v \in shown[o]..Latest[o] :
         /\ v > 0
         /\ shown' = [shown EXCEPT ![o] = v]
         /\ settled' \in {settled, [settled EXCEPT ![o] = TRUE]}

Next == \E o \in Ops : Show(o)

vars == <<shown, settled>>

Spec == Init /\ [][Next]_vars
=============================================================================
