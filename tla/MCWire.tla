------------------------------- MODULE MCWire -------------------------------
(* Wire with bodies on either side of each limit. *)
EXTENDS Wire, TLC

CONSTANTS ExtLens, d1, d2

offer(clean, entries, value) ==
  [k |-> "offer", name |-> MAX_NAME_LEN, clean |-> clean, entries |-> entries,
   key |-> MAX_METADATA_KEY_LEN, value |-> value]

\* The largest offer within the limits, one with a bad name, one with an
\* entry too many and one with more metadata than fits in a frame.
SomeBodies ==
  {offer(TRUE, MAX_METADATA_ENTRIES, MAX_METADATA_VALUE_LEN), offer(FALSE, 0, 0),
   offer(TRUE, MAX_METADATA_ENTRIES + 1, 1), offer(TRUE, MAX_METADATA_ENTRIES, 5000)}
    \cup {[k |-> "ext", len |-> n] : n \in ExtLens}

NameOf == d1 :> 20 @@ d2 :> MAX_DISPLAY_NAME_LEN + 1
SameAddr == [p \in Peers |-> [url |-> 60, v4 |-> 2, v6 |-> 2]]

\* The addresses of this instance fit in its tickets.
ASSUME InstanceFits == AddressesFit

Symmetry == Permutations(Peers \ Receivers)
=============================================================================
