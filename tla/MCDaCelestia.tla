---------------------------- MODULE MCDaCelestia ----------------------------
(* Small instances of DaCelestia for TLC. *)
EXTENDS DaCelestia, TLC

(* The slots of the pool are interchangeable. *)
SlotSymmetry == Permutations(Slots)
=============================================================================
