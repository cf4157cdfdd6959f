---------------------------- MODULE MCDropTable ----------------------------
(* DropTable with interchangeable topics and slots.                         *)
EXTENDS DropTable, TLC

Symmetry == Permutations(Topics) \cup Permutations(Calls)
=============================================================================
