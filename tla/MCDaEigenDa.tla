---------------------------- MODULE MCDaEigenDa ----------------------------
(* Small instances of DaEigenDa for TLC. *)
EXTENDS DaEigenDa

(* A chain with a stretch longer than one get_logs request reaches, and a    *)
(* dense one with two batches in a block.                                    *)
ChainsInstance == {[b \in Batches |-> <<1, 3, 4>>[b + 1]], [b \in Batches |-> <<2, 2, 3>>[b + 1]]}
=============================================================================
