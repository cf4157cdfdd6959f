-------------------------------- MODULE Vec --------------------------------
(* What Rust's Vec offers that Sequences does not. *)
EXTENDS Naturals, Sequences

\* Vec::retain: the entries of q that are in S, in their order.
retain(q, S) ==
  LET keep[i \in 0..Len(q)] ==
        IF i = 0 THEN <<>>
        ELSE IF q[i] \in S THEN Append(keep[i - 1], q[i]) ELSE keep[i - 1]
  IN  keep[Len(q)]
=============================================================================
