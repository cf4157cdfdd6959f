---------------------------- MODULE MCDropState ----------------------------
(* DropState with interchangeable hashes, names and peers: it orders none. *)
EXTENDS DropState, TLC

Symmetry == Permutations(Hashes) \cup Permutations(Names)
            \cup Permutations(Peers)
=============================================================================
