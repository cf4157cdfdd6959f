---------------------------- MODULE NewestClaims ----------------------------
(***************************************************************************)
(* What the provider index promises, with none of its machinery: every     *)
(* replica holds at most one claim per author, replaces it only by a claim *)
(* that its author stamped no earlier, and otherwise only ever forgets.    *)
(* ProviderGossip implements it.                                           *)
(***************************************************************************)
EXTENDS Integers

CONSTANTS
  Replicas, Peers,
  ClaimValues,  \* records with fields ts, frame and withdrawn
  NoClaim

VARIABLE view   \* view[r][p]: what r believes p last said about the blob

Init == view = [r \in Replicas |-> [p \in Peers |-> NoClaim]]

\* Claim d may take the place of c.
Supersedes(d, c) ==
  c # NoClaim => d.ts > c.ts \/ (d.ts = c.ts /\ d.frame >= c.frame)

\* Replica r hears a claim of author p, and may forget any authors with it.
Hear(r, p) ==
  /\ \/ view'[r][p] = NoClaim
     \/ view'[r][p] \in ClaimValues /\ Supersedes(view'[r][p], view[r][p])
  /\ \A q \in Peers \ {p} : view'[r][q] \in {view[r][q], NoClaim}
  /\ \A s \in Replicas \ {r} : view'[s] = view[s]

Next == \E r \in Replicas, p \in Peers : Hear(r, p)

Spec == Init /\ [][Next]_view
=============================================================================
