------------------------------ MODULE JobPool ------------------------------
(* What the indexer of the DA services (da-indexer-logic/src/indexer.rs)    *)
(* promises of its jobs, whatever the chain: its streams hand work in, and  *)
(* work once handed in leaves the indexer only when it is saved, or when    *)
(* the indexer itself ends.  Nothing else is saved, and nothing is unsaved. *)
CONSTANT Items      \* heights or batches

VARIABLES up,       \* there is an indexer
          held,     \* items in its streams, its pool or failed_jobs
          saved     \* items in the database

vars == <<up, held, saved>>

Init == up = FALSE /\ held = {} /\ saved = {}

Begin == ~up /\ up' = TRUE /\ UNCHANGED <<held, saved>>

(* What is held is forgotten. *)
End == up /\ up' = FALSE /\ held' = {} /\ UNCHANGED saved

(* A stream hands in more work. *)
Offer ==
    /\ up
    /\ held \subseteq held' /\ held' \subseteq Items
    /\ UNCHANGED <<up, saved>>

(* An item that was handed in twice may be held still. *)
Save(i) ==
    /\ up
    /\ saved' = saved \cup {i}
    /\ held' \in {held, held \ {i}}
    /\ UNCHANGED up

Next ==
    \/ Begin \/ End \/ Offer
    \/ \E i \in held : Save(i)

Spec == Init /\ [][Next]_vars
=============================================================================
