----------------------------- MODULE DropState -----------------------------
(***************************************************************************)
(* The bounded tables of one session (crates/iroh-drop/src/state.rs): the  *)
(* offer index with its least-recently-seen queue and per-author quota,    *)
(* the hashes that have a ProviderSet, and the peers remembered.  Every    *)
(* method runs under the session's state lock, so it is one step.          *)
(***************************************************************************)
EXTENDS Integers, FiniteSets, Sequences, SequencesExt

CONSTANTS
  Hashes, Peers, Names,
  MAX_OFFERS,             \* 4096 in the code
  MAX_OFFERS_PER_AUTHOR,  \* 512
  MAX_ALIASES_PER_OFFER,  \* 16
  MAX_KNOWN_PEERS         \* 1024

ASSUME CapsAssumption ==
  /\ MAX_OFFERS \in Nat \ {0} /\ MAX_OFFERS_PER_AUTHOR \in Nat \ {0}
  /\ MAX_ALIASES_PER_OFFER \in Nat \ {0} /\ MAX_KNOWN_PEERS \in Nat \ {0}

VARIABLES
  offers,             \* hash -> OfferRecord, for the hashes in the table
  offer_order,        \* those hashes, least recently seen first
  offers_per_author,  \* author -> its offers in the table (0 when absent)
  providers,          \* the hashes that have a ProviderSet
  known_peers,
  peer_order,         \* peers in insertion order, for eviction
  flush               \* history: see OneAuthorCannotFlush

vars == <<offers, offer_order, offers_per_author, providers, known_peers,
          peer_order, flush>>
offerVars == <<offers, offer_order, offers_per_author, providers, flush>>
peerVars == <<known_peers, peer_order>>

OfferRecord == [first_seen_from : Peers, aliases : SUBSET Names]

Init ==
  /\ offers = [h \in {} |-> {}]
  /\ offer_order = <<>>
  /\ offers_per_author = [p \in Peers |-> 0]
  /\ providers = {}
  /\ known_peers = {} /\ peer_order = <<>>
  /\ flush \in [author : Peers, lost : {{}}]

Table == DOMAIN offers
OffersBy(p) == {h \in Table : offers[h].first_seen_from = p}

---------------------------------------------------------------------------
\* note_peer: remember a peer, forgetting the oldest beyond MAX_KNOWN_PEERS.
note_peer(p) ==
  LET order == Append(peer_order, p)
      excess == Len(order) - MAX_KNOWN_PEERS
  IN  IF p \in known_peers THEN UNCHANGED peerVars
      ELSE IF excess <= 0
      THEN peer_order' = order /\ known_peers' = known_peers \cup {p}
      ELSE /\ peer_order' = SubSeq(order, excess + 1, Len(order))
           /\ known_peers' = (known_peers \cup {p}) \ {order[i] : i \in 1..excess}

\* touch_offer: move the hash to the back of the eviction queue.
Touched(h) == Append(RemoveFirst(offer_order, h), h)

author_has_quota(p) == offers_per_author[p] < MAX_OFFERS_PER_AUTHOR

\* The known-hash arm of record_offer_inner: keep a new name as an alias.
MergeAlias(h, n) ==
  /\ offers' = IF Cardinality(offers[h].aliases) < MAX_ALIASES_PER_OFFER
               THEN [offers EXCEPT ![h].aliases = @ \cup {n}] ELSE offers
  /\ offer_order' = Touched(h)
  /\ providers' = providers \cup {h}
  /\ UNCHANGED <<offers_per_author, flush>>

\* enforce_offer_cap, called with hash h just inserted: the hashes it pops off
\* the front of the queue, and those of them that author q had offered.
Excess(h) == Cardinality(Table \cup {h}) - MAX_OFFERS
Evicted(h) == {Touched(h)[i] : i \in 1..Excess(h)}
EvictedOf(q, h) == {g \in Evicted(h) \ {h} : offers[g].first_seen_from = q}

\* Mutants of QuotaAfter: an insertion not counted, an eviction not released,
\* an eviction credited to the author who caused it.
QuotaAfter_uncounted(p, h) ==
  [q \in Peers |-> offers_per_author[q] - Cardinality(EvictedOf(q, h))]
QuotaAfter_unreleased(p, h) == [offers_per_author EXCEPT ![p] = @ + 1]
QuotaAfter_misreleased(p, h) ==
  [offers_per_author EXCEPT ![p] = @ + 1 - Cardinality(Evicted(h))]

\* The insertion is charged to its author, each eviction released to its own.
QuotaAfter(p, h) ==
  [q \in Peers |-> offers_per_author[q] + (IF q = p THEN 1 ELSE 0)
                     - Cardinality(EvictedOf(q, h))]

ProvidersAfter(h) == (providers \cup {h}) \ Evicted(h)

\* The new-hash arm: insert, count, then enforce_offer_cap, which evicts the
\* least recently seen offers with their ProviderSets.
InsertOffer(p, h, n) ==
  LET record == [first_seen_from |-> p, aliases |-> {n}]
      lost == UNION {EvictedOf(q, h) : q \in Peers \ {p}}
  IN  /\ offers' = [g \in (Table \cup {h}) \ Evicted(h) |->
                      IF g = h THEN record ELSE offers[g]]
      /\ offer_order' = IF Excess(h) <= 0 THEN Touched(h)
                        ELSE SubSeq(Touched(h), Excess(h) + 1, Len(Touched(h)))
      /\ offers_per_author' = QuotaAfter(p, h)
      /\ providers' = ProvidersAfter(h)
      /\ flush' = [author |-> p,
                   lost |-> (IF flush.author = p THEN flush.lost ELSE {}) \cup lost]

record_offer_inner(p, h, n) ==
  \/ h \in Table /\ MergeAlias(h, n)
  \/ h \notin Table /\ author_has_quota(p) /\ InsertOffer(p, h, n)
  \/ h \notin Table /\ ~author_has_quota(p) /\ UNCHANGED offerVars

---------------------------------------------------------------------------
\* handle_offer and finish_import: an accepted offer of author p.
record_offer_bounded(p, h, n) == note_peer(p) /\ record_offer_inner(p, h, n)

\* restore_history: the author of a frame from disk is not a connected peer.
record_restored(p, h, n) == record_offer_inner(p, h, n) /\ UNCHANGED peerVars

\* record_provider and withdraw_provider: the claim is kept whether or not
\* the blob was ever offered (its content is ProviderSet's business).
record_provider(h) ==
  /\ providers' = providers \cup {h}
  /\ UNCHANGED <<offers, offer_order, offers_per_author, flush, peerVars>>

\* handle_message: the delivering neighbour is noted, whatever the message.
NoteDeliverer(p) == note_peer(p) /\ UNCHANGED offerVars

\* TransportEvent::NeighborUp inserts into known_peers directly.
NeighborUp(p) ==
  /\ known_peers' = known_peers \cup {p}
  /\ UNCHANGED <<offerVars, peer_order>>

Next ==
  \/ \E p \in Peers, h \in Hashes, n \in Names :
       record_offer_bounded(p, h, n) \/ record_restored(p, h, n)
  \/ \E h \in Hashes : record_provider(h)
  \/ \E p \in Peers : NoteDeliverer(p) \/ NeighborUp(p)

Spec == Init /\ [][Next]_vars

---------------------------------------------------------------------------
TypeOK ==
  /\ Table \subseteq Hashes
  /\ offers \in [Table -> OfferRecord]
  /\ offer_order \in Seq(Hashes)
  /\ offers_per_author \in [Peers -> Nat]
  /\ providers \subseteq Hashes
  /\ known_peers \subseteq Peers
  /\ peer_order \in Seq(Peers)
  /\ flush \in [author : Peers, lost : SUBSET Hashes]

\* The eviction queue lists every offer in the table exactly once.
OrderListsTable ==
  /\ \A i, j \in 1..Len(offer_order) : offer_order[i] = offer_order[j] => i = j
  /\ {offer_order[i] : i \in 1..Len(offer_order)} = Table

\* The quota counter of every author is the number of its offers in the
\* table: it never drifts across inserts, refusals and evictions of other
\* authors' offers (saturating_sub would hide a drift).
QuotaCountsTable ==
  \A p \in Peers : offers_per_author[p] = Cardinality(OffersBy(p))

\* The table stays within its cap, no author exceeds its share and no offer
\* collects more than its share of names.
TableBounded ==
  /\ Cardinality(Table) <= MAX_OFFERS
  /\ \A p \in Peers : Cardinality(OffersBy(p)) <= MAX_OFFERS_PER_AUTHOR
  /\ \A h \in Table : Cardinality(offers[h].aliases) <= MAX_ALIASES_PER_OFFER

\* Every offer in the table has a ProviderSet for a fetch to start from.
OffersHaveProviders == Table \subseteq providers

\* The insertion queue holds distinct remembered peers, at most the cap.
PeerQueue ==
  /\ \A i, j \in 1..Len(peer_order) : peer_order[i] = peer_order[j] => i = j
  /\ {peer_order[i] : i \in 1..Len(peer_order)} \subseteq known_peers
  /\ Len(peer_order) <= MAX_KNOWN_PEERS

\* The six tables of a session describe one another through any sequence of
\* inserts, refusals, refreshes, evictions and restores: the counters and
\* queues that eviction trusts never drift from what is in the table.
TablesAgree ==
  OrderListsTable /\ QuotaCountsTable /\ TableBounded /\ OffersHaveProviders /\ PeerQueue

\* "Stops one peer from evicting everyone else's offers by announcing
\* thousands of its own" (state.rs:41): while only one author inserts, the
\* offers of others it pushes out never exceed its quota.
OneAuthorCannotFlush ==
  Cardinality(flush.lost) <= MAX_OFFERS_PER_AUTHOR
=============================================================================
