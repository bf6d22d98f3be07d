------------------------ MODULE MCServiceTransaction ------------------------
(* Small instances of ServiceTransaction for TLC. *)
EXTENDS ServiceTransaction, TLC

(* Writes are interchangeable. *)
WriteSymmetry == Permutations(Writes)
=============================================================================
