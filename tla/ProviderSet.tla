---------------------------- MODULE ProviderSet ----------------------------
(***************************************************************************)
(* The set of peers known to serve one blob (crates/iroh-drop/src/         *)
(* provider.rs): a bounded table of self-asserted claims, each ordered by  *)
(* its author's own clock, with withdrawals kept as tombstones.            *)
(*                                                                         *)
(* This module holds the operations as pure operators on a set             *)
(*    s = [original |-> peer or None, providers |-> peer -> ProviderInfo]  *)
(* where s.providers is a function whose domain is the peers on record.    *)
(* Peers and frame ids are naturals: the code compares the bytes of both.  *)
(***************************************************************************)
EXTENDS Integers, FiniteSets

CONSTANTS
  MAX_PROVIDERS_PER_BLOB,  \* provider.rs:16, 64 in the code
  None                     \* Option::None for `original`

ASSUME CapAssumption == MAX_PROVIDERS_PER_BLOB \in Nat \ {0}
ASSUME NoneAssumption == None \notin Nat

ProviderInfo ==
  [failures : Nat, announced : BOOLEAN, announced_at_ms : Nat,
   last_frame_id : Nat, withdrawn : BOOLEAN]

\* ProviderInfo::default()
DefaultInfo ==
  [failures |-> 0, announced |-> FALSE, announced_at_ms |-> 0,
   last_frame_id |-> 0, withdrawn |-> FALSE]

\* ProviderSet::default()
EmptySet == [original |-> None, providers |-> [p \in {} |-> DefaultInfo]]

Known(s) == DOMAIN s.providers

\* providers.entry(id).or_default(): the info on record, or a fresh one.
EntryOf(s, id) == IF id \in Known(s) THEN s.providers[id] ELSE DefaultInfo

WithEntry(s, id, info) ==
  [s EXCEPT !.providers =
     [p \in Known(s) \cup {id} |-> IF p = id THEN info ELSE s.providers[p]]]

\* Forget the peers in ids, tombstones included.
Without(s, ids) ==
  [original  |-> IF s.original \in ids THEN None ELSE s.original,
   providers |-> [p \in Known(s) \ ids |-> s.providers[p]]]

---------------------------------------------------------------------------
\* (announced_at_ms, frame_id) pairs, compared lexicographically.
Before(ts1, id1, ts2, id2) == ts1 < ts2 \/ (ts1 = ts2 /\ id1 < id2)

\* The order enforce_cap sorts by: a is dropped before b.
DroppedBefore(s, a, b) ==
  LET x == s.providers[a]
      y == s.providers[b]
  IN  \/ x.withdrawn /\ ~y.withdrawn
      \/ /\ x.withdrawn = y.withdrawn
         /\ \/ x.failures > y.failures
            \/ /\ x.failures = y.failures
               /\ Before(x.announced_at_ms, a, y.announced_at_ms, b)

\* The peers enforce_cap removes: the excess, taken in DroppedBefore order.
Excess(s) ==
  {id \in Known(s) :
     Cardinality({x \in Known(s) : DroppedBefore(s, x, id)})
       < Cardinality(Known(s)) - MAX_PROVIDERS_PER_BLOB}

enforce_cap(s) ==
  IF Cardinality(Known(s)) <= MAX_PROVIDERS_PER_BLOB
  THEN s ELSE Without(s, Excess(s))

---------------------------------------------------------------------------
\* ProviderSet::add.  No cap is enforced here.
add(s, id, isOriginal) ==
  WithEntry([s EXCEPT !.original =
               IF isOriginal /\ s.original = None THEN id ELSE s.original],
            id, EntryOf(s, id))

\* Mutants of Stale: ties left to arrival order, tombstones not consulted,
\* frame ids compared instead of clocks.
Stale_no_tie(s, id, ts, frame) == ts < EntryOf(s, id).announced_at_ms
Stale_live_only(s, id, ts, frame) ==
  /\ ~EntryOf(s, id).withdrawn
  /\ Before(ts, frame, EntryOf(s, id).announced_at_ms, EntryOf(s, id).last_frame_id)
Stale_by_id(s, id, ts, frame) == frame < EntryOf(s, id).last_frame_id

\* The early return of ProviderSet::record: an assertion older than the one
\* on record is stale.
Stale(s, id, ts, frame) ==
  Before(ts, frame, EntryOf(s, id).announced_at_ms, EntryOf(s, id).last_frame_id)

\* ProviderSet::record past the staleness test: overwrite the claim, clear
\* `original` on a withdrawal, then enforce the cap.
Apply(s, id, ts, frame, w) ==
  LET info == [EntryOf(s, id) EXCEPT !.announced = TRUE,
                 !.announced_at_ms = ts, !.last_frame_id = frame,
                 !.withdrawn = w]
      orig == IF w /\ s.original = id THEN None ELSE s.original
  IN  enforce_cap(WithEntry([s EXCEPT !.original = orig], id, info))

\* Mutant of record: the last assertion delivered wins.
record_last_wins(s, id, ts, frame, w) == Apply(s, id, ts, frame, w)

\* The entry is created even when the assertion turns out stale; a fresh
\* entry is stamped (0, 0), which nothing precedes.
record(s, id, ts, frame, w) ==
  IF Stale(s, id, ts, frame)
  THEN WithEntry(s, id, EntryOf(s, id))
  ELSE Apply(s, id, ts, frame, w)

mark_failure(s, id) ==
  WithEntry(s, id, [EntryOf(s, id) EXCEPT !.failures = @ + 1])

\* Mutant of mark_success: one failure is forgiven instead of all.
mark_success_one(s, id) ==
  IF id \in Known(s) THEN WithEntry(s, id, [EntryOf(s, id) EXCEPT !.failures = @ - 1])
  ELSE s

mark_success(s, id) ==
  IF id \in Known(s) THEN WithEntry(s, id, [EntryOf(s, id) EXCEPT !.failures = 0])
  ELSE s

---------------------------------------------------------------------------
\* ProviderSet::iter / len: the live providers.
Live(s) == {p \in Known(s) : ~s.providers[p].withdrawn}

\* Mutant of TriedBefore: the original offerer has no preference.
TriedBefore_no_original(s, a, b) ==
  \/ s.providers[a].failures < s.providers[b].failures
  \/ s.providers[a].failures = s.providers[b].failures /\ a < b

\* The comparison of ProviderSet::ordered: a is tried before b.
TriedBefore(s, a, b) ==
  LET x == s.providers[a]
      y == s.providers[b]
  IN  \/ x.failures < y.failures
      \/ /\ x.failures = y.failures
         /\ \/ s.original = a /\ s.original # b
            \/ (s.original = a) = (s.original = b) /\ a < b

\* ProviderSet::ordered_excluding(self) as a rank: the first candidate.
FirstTried(s, self) ==
  CHOOSE p \in Live(s) \ {self} :
    \A q \in Live(s) \ {self} : q # p => TriedBefore(s, p, q)
=============================================================================
