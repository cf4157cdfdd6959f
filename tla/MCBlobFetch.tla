---------------------------- MODULE MCBlobFetch ----------------------------
(* BlobFetch with hashes 1, 2, ... : blob 2 is two units long.              *)
EXTENDS BlobFetch, TLC

SizeOf == [h \in Hashes |-> IF h = 2 THEN 2 ELSE 1]
Symmetry == Permutations(Tasks) \cup Permutations(Handlers)
=============================================================================
