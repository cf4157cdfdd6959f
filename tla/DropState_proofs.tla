-------------------------- MODULE DropState_proofs --------------------------
(***************************************************************************)
(* Proofs about DropState for any hashes, peers and names and any caps:    *)
(* the session's tables describe one another, and one author cannot flush  *)
(* the offers of the others.                                               *)
(***************************************************************************)
EXTENDS DropState, SequenceTheorems, FiniteSetTheorems, WellFoundedInduction,
        NaturalsInduction, TLAPS

Elems(s) == {s[i] : i \in 1..Len(s)}
Distinct(s) == \A i, j \in 1..Len(s) : s[i] = s[j] => i = j

\* The offer tables: TypeOK's and TablesAgree's parts about them; they hold
\* finitely many entries; and what the author of the last insertion pushed
\* out of others' offers is paid for by offers of its own.
OfferInv ==
  /\ Table \subseteq Hashes /\ offers \in [Table -> OfferRecord]
  /\ offer_order \in Seq(Hashes) /\ offers_per_author \in [Peers -> Nat]
  /\ providers \subseteq Hashes /\ flush \in [author : Peers, lost : SUBSET Hashes]
  /\ OrderListsTable /\ QuotaCountsTable /\ TableBounded /\ OffersHaveProviders
  /\ \A h \in Table : IsFiniteSet(offers[h].aliases)
  /\ IsFiniteSet(flush.lost)
  /\ Cardinality(flush.lost) <= offers_per_author[flush.author]

PeerInv == known_peers \subseteq Peers /\ peer_order \in Seq(Peers) /\ PeerQueue

---------------------------------------------------------------------------
\* The least of some natural numbers.
LEMMA LeastOfSome ==
  ASSUME NEW S, S \subseteq Nat, S # {}
  PROVE  Min(S) \in S
<1> DEFINE R == OpToRel(<, Nat)
<1>1. PICK x \in S : \A y \in S : ~(<<y, x>> \in R)
  BY WFMin, NatLessThanWellFounded
<1>0. \A y \in S : ~(y < x)
  BY <1>1 DEF OpToRel
<1>2. \A y \in S : x <= y
  BY <1>0
<1> HIDE DEF R
<1>3. \E m \in S : \A y \in S : m =< y
  BY <1>2
<1> QED BY <1>3, Zenon DEF Min

\* A sequence without repetitions is as long as its elements are many.
LEMMA DistinctLength ==
  ASSUME NEW S, NEW s \in Seq(S), Distinct(s)
  PROVE  IsFiniteSet(Elems(s)) /\ Cardinality(Elems(s)) = Len(s)
<1> DEFINE n == Len(s)
<1>1. n \in Nat /\ DOMAIN s = 1..n /\ s \in [1..n -> Elems(s)]
  BY DEF Elems
<1>2. s \in Injection(1..n, Elems(s))
  BY <1>1 DEF Distinct, Injection, IsInjective
<1>3. s \in Surjection(1..n, Elems(s))
  BY <1>1 DEF Elems, Surjection
<1>4. ExistsBijection(1..n, Elems(s))
  BY <1>2, <1>3 DEF ExistsBijection, Bijection
<1>5. Cardinality(Elems(s)) = n
  BY <1>1, <1>4, FS_CountingElements
<1>6. IsFiniteSet(Elems(s))
  BY <1>1, <1>4, FS_NatBijection
<1> QED BY <1>5, <1>6

\* A sequence without its first k elements.
LEMMA DropLemma ==
  ASSUME NEW S, NEW s \in Seq(S), NEW k \in 0..Len(s)
  PROVE  LET t == SubSeq(s, k + 1, Len(s))
         IN  /\ t \in Seq(S) /\ Len(t) = Len(s) - k
             /\ \A i \in 1..(Len(s) - k) : t[i] = s[k + i]
<1>1. PICK n \in Nat : n = Len(s)
  OBVIOUS
<1>2. PICK m \in Int : m = k + 1 /\ k = m - 1
  BY <1>1
<1>3. \A i \in m..n : s[i] \in S
  BY <1>1, <1>2
<1>4. PICK t : t = SubSeq(s, m, n)
  OBVIOUS
<1>5. /\ t \in Seq(S) /\ Len(t) = IF m <= n THEN n - m + 1 ELSE 0
      /\ \A i \in 1..(n - m + 1) : t[i] = s[m + i - 1]
  BY <1>3, <1>4, SubSeqProperties
<1>6. Len(t) = n - k
  BY <1>1, <1>2, <1>5
<1>7. \A i \in 1..(n - k) : t[i] = s[k + i]
  BY <1>1, <1>2, <1>5
<1> QED BY <1>1, <1>2, <1>4, <1>5, <1>6, <1>7

\* RemoveFirst takes e out of a sequence without repetitions.
LEMMA RemoveFirstLemma ==
  ASSUME NEW S, NEW s \in Seq(S), Distinct(s), NEW e
  PROVE  LET t == RemoveFirst(s, e)
         IN  t \in Seq(S) /\ Distinct(t) /\ Elems(t) = Elems(s) \ {e}
<1> DEFINE I == {i \in 1..Len(s) : s[i] = e}
<1>0. Len(s) \in Nat /\ DOMAIN s = 1..Len(s)
  OBVIOUS
<1>1. CASE I = {}
  <2>1. RemoveFirst(s, e) = s
    BY <1>1 DEF RemoveFirst
  <2> QED BY <1>1, <2>1 DEF Elems
<1>2. CASE I # {}
  <2>0. I \subseteq Nat
    BY <1>0
  <2> HIDE DEF I
  <2>1. Min(I) \in I
    BY <2>0, <1>2, LeastOfSome
  <2> USE DEF I
  <2>2. PICK m \in 1..Len(s) : s[m] = e /\ m = Min(I)
    BY <2>1
  <2>3. \E i \in 1..Len(s) : s[i] = e
    BY <2>2
  <2>4. SelectInSeq(s, LAMBDA v : v = e) = m
    BY <1>2, <2>2 DEF SelectInSeq
  <2>5. RemoveFirst(s, e) = RemoveAt(s, m)
    BY <2>3, <2>4 DEF RemoveFirst
  <2> DEFINE a == SubSeq(s, 1, m - 1)
             b == SubSeq(s, m + 1, Len(s))
             t == a \o b
  <2>6. /\ a \in Seq(S) /\ Len(a) = m - 1 /\ \A i \in 1..(m - 1) : a[i] = s[i]
    BY <1>0
  <2>7. b \in Seq(S) /\ Len(b) = Len(s) - m /\ \A i \in 1..(Len(s) - m) : b[i] = s[m + i]
    <3>1. m \in 0..Len(s)
      BY <1>0
    <3> QED BY <3>1, DropLemma
  <2> HIDE DEF a, b
  <2>8. /\ t \in Seq(S) /\ Len(t) = Len(s) - 1
        /\ \A i \in 1..(Len(s) - 1) : t[i] = IF i < m THEN s[i] ELSE s[i + 1]
    <3>1. PICK n \in Nat : n = Len(s) /\ m \in 1..n
      BY <1>0
    <3>2. Len(a) + Len(b) = n - 1
      BY <2>6, <2>7, <3>1
    <3>3. /\ t \in Seq(S) /\ Len(t) = n - 1
          /\ \A i \in 1..(n - 1) : t[i] = IF i <= Len(a) THEN a[i] ELSE b[i - Len(a)]
      <4> HIDE DEF t
      <4>1. /\ t \in Seq(S) /\ Len(t) = Len(a) + Len(b)
            /\ \A i \in 1..(Len(a) + Len(b)) : t[i] = IF i <= Len(a) THEN a[i] ELSE b[i - Len(a)]
        BY <2>6, <2>7, ConcatProperties DEF t
      <4> QED BY <3>2, <4>1
    <3> HIDE DEF t
    <3>4. ASSUME NEW i \in 1..(n - 1) PROVE t[i] = IF i < m THEN s[i] ELSE s[i + 1]
      <4>1. CASE i < m
        <5>1. i <= Len(a) /\ i \in 1..(m - 1)
          BY <2>6, <3>1, <4>1
        <5> QED BY <2>6, <3>3, <4>1, <5>1
      <4>2. CASE ~(i < m)
        <5>1. PICK j \in 1..(n - m) : j = i - (m - 1)
          BY <3>1, <4>2
        <5>2. ~(i <= Len(a)) /\ i - Len(a) = j /\ m + j = i + 1
          BY <2>6, <3>1, <4>2, <5>1
        <5>3. t[i] = b[j] /\ b[j] = s[m + j]
          BY <2>7, <3>1, <3>3, <5>1, <5>2
        <5> QED BY <4>2, <5>2, <5>3
      <4> QED BY <4>1, <4>2
    <3> QED BY <3>1, <3>3, <3>4
  <2>9. RemoveFirst(s, e) = t
    BY <2>5 DEF RemoveAt, a, b
  <2> HIDE DEF t
  <2>10. Distinct(t)
    <3> SUFFICES ASSUME NEW i \in 1..Len(t), NEW j \in 1..Len(t), t[i] = t[j]
                 PROVE  i = j
      BY DEF Distinct
    <3> DEFINE k(x) == IF x < m THEN x ELSE x + 1
    <3>1. PICK n \in Nat : n = Len(s) /\ m \in 1..n
      BY <1>0
    <3>2. i \in 1..(n - 1) /\ j \in 1..(n - 1)
      BY <2>8, <3>1
    <3>3. t[i] = s[k(i)] /\ t[j] = s[k(j)]
      BY <2>8, <3>1, <3>2
    <3>4. k(i) \in 1..n /\ k(j) \in 1..n /\ (k(i) = k(j) => i = j)
      BY <3>1, <3>2
    <3> HIDE DEF k
    <3>5. k(i) = k(j)
      BY <3>1, <3>3, <3>4 DEF Distinct
    <3> QED BY <3>4, <3>5
  <2>11. Elems(t) = Elems(s) \ {e}
    <3>1. ASSUME NEW x \in Elems(t) PROVE x \in Elems(s) \ {e}
      <4>1. PICK i \in 1..(Len(s) - 1) : x = t[i]
        BY <2>8 DEF Elems
      <4>2. i < m \/ i >= m
        BY <1>0, <4>1
      <4>3. PICK j \in 1..Len(s) : x = s[j] /\ j # m
        BY <1>0, <2>8, <4>1, <4>2
      <4> QED BY <2>2, <4>3 DEF Elems, Distinct
    <3>2. ASSUME NEW x \in Elems(s) \ {e} PROVE x \in Elems(t)
      <4>1. PICK j \in 1..Len(s) : x = s[j]
        BY DEF Elems
      <4>2. j # m
        BY <2>2, <3>2, <4>1
      <4>3. CASE j < m
        BY <1>0, <2>8, <4>1, <4>3 DEF Elems
      <4>4. CASE j > m
        <5>1. j - 1 \in 1..(Len(s) - 1) /\ ~(j - 1 < m) /\ (j - 1) + 1 = j
          BY <1>0, <4>4
        <5>2. t[j - 1] = s[j]
          BY <2>8, <5>1
        <5> QED BY <2>8, <4>1, <5>1, <5>2 DEF Elems
      <4> QED BY <1>0, <4>2, <4>3, <4>4
    <3> QED BY <3>1, <3>2
  <2> QED BY <2>8, <2>9, <2>10, <2>11
<1> QED BY <1>1, <1>2

\* Something new at the back of such a sequence.
LEMMA AppendLemma ==
  ASSUME NEW S, NEW s \in Seq(S), Distinct(s), NEW e \in S, e \notin Elems(s)
  PROVE  LET t == Append(s, e)
         IN  /\ t \in Seq(S) /\ Distinct(t) /\ Elems(t) = Elems(s) \cup {e}
             /\ Len(t) = Len(s) + 1 /\ t[Len(t)] = e
<1> DEFINE t == Append(s, e)
<1>1. /\ Len(s) \in Nat /\ t \in Seq(S) /\ Len(t) = Len(s) + 1
      /\ t[Len(s) + 1] = e /\ \A i \in 1..Len(s) : t[i] = s[i]
  OBVIOUS
<1> HIDE DEF t
<1>2. Distinct(t)
  BY <1>1 DEF Distinct, Elems
<1>3. Elems(t) = Elems(s) \cup {e}
  BY <1>1 DEF Elems
<1> QED BY <1>1, <1>2, <1>3 DEF t

\* Such a sequence without its front.
LEMMA PopLemma ==
  ASSUME NEW S, NEW s \in Seq(S), Distinct(s), Len(s) > 0
  PROVE  LET t == SubSeq(s, 2, Len(s))
         IN  /\ t \in Seq(S) /\ Distinct(t) /\ Elems(t) = Elems(s) \ {s[1]}
             /\ Len(t) = Len(s) - 1
<1> DEFINE t == SubSeq(s, 2, Len(s))
<1>1. /\ Len(s) \in Nat /\ t \in Seq(S) /\ Len(t) = Len(s) - 1
      /\ \A i \in 1..(Len(s) - 1) : t[i] = s[i + 1]
  <2>1. 1 \in 0..Len(s) /\ 1 + 1 = 2 /\ Len(s) \in Nat
    OBVIOUS
  <2>2. t \in Seq(S) /\ Len(t) = Len(s) - 1 /\ \A i \in 1..(Len(s) - 1) : t[i] = s[1 + i]
    BY <2>1, DropLemma
  <2> QED BY <2>1, <2>2
<1> HIDE DEF t
<1>2. Distinct(t)
  BY <1>1 DEF Distinct
<1>3. ASSUME NEW x \in Elems(t) PROVE x \in Elems(s) \ {s[1]}
  <2>1. PICK i \in 1..(Len(s) - 1) : x = s[i + 1]
    BY <1>1 DEF Elems
  <2>2. i + 1 \in 1..Len(s) /\ i + 1 # 1 /\ 1 \in 1..Len(s)
    BY <1>1
  <2> QED BY <2>1, <2>2 DEF Elems, Distinct
<1>4. ASSUME NEW x \in Elems(s) \ {s[1]} PROVE x \in Elems(t)
  <2>1. PICK j \in 1..Len(s) : x = s[j]
    BY DEF Elems
  <2>2. j # 1
    BY <1>4, <2>1
  <2>3. j - 1 \in 1..(Len(s) - 1) /\ (j - 1) + 1 = j
    BY <1>1, <2>2
  <2>4. t[j - 1] = s[j]
    BY <1>1, <2>3
  <2> QED BY <1>1, <2>1, <2>3, <2>4 DEF Elems
<1> QED BY <1>1, <1>2, <1>3, <1>4 DEF t

---------------------------------------------------------------------------
\* note_peer keeps the queue of remembered peers.
LEMMA NotePeerKeeps ==
  ASSUME PeerInv, NEW p \in Peers, note_peer(p)
  PROVE  PeerInv'
<1> DEFINE order == Append(peer_order, p)
<1>0. /\ peer_order \in Seq(Peers) /\ Distinct(peer_order)
      /\ Elems(peer_order) \subseteq known_peers /\ Len(peer_order) <= MAX_KNOWN_PEERS
      /\ known_peers \subseteq Peers /\ Len(peer_order) \in Nat
      /\ MAX_KNOWN_PEERS \in Nat /\ MAX_KNOWN_PEERS # 0
  BY CapsAssumption DEF PeerInv, PeerQueue, Distinct, Elems
<1>1. SUFFICES ASSUME peer_order' \in Seq(Peers), Distinct(peer_order'),
                      Elems(peer_order') \subseteq known_peers',
                      Len(peer_order') <= MAX_KNOWN_PEERS, known_peers' \subseteq Peers
               PROVE  PeerInv'
  <2>1. CASE p \in known_peers
    <3>1. peer_order' = peer_order /\ known_peers' = known_peers
      BY <2>1 DEF note_peer, peerVars
    <3> QED BY <1>0, <3>1
  <2>2. CASE p \notin known_peers
    <3>1. PICK t : t = order
      OBVIOUS
    <3>2. /\ t \in Seq(Peers) /\ Distinct(t) /\ Elems(t) = Elems(peer_order) \cup {p}
          /\ Len(t) = Len(peer_order) + 1 /\ t[Len(t)] = p
      BY <1>0, <2>2, <3>1, AppendLemma
    <3>3. PICK x \in Int : x = Len(t) - MAX_KNOWN_PEERS
      BY <1>0, <3>2
    <3>4. /\ x <= 0 => peer_order' = t /\ known_peers' = known_peers \cup {p}
          /\ ~(x <= 0) => /\ peer_order' = SubSeq(t, x + 1, Len(t))
                          /\ known_peers' = (known_peers \cup {p}) \ {t[i] : i \in 1..x}
      BY <2>2, <3>1, <3>3 DEF note_peer
    <3>5. CASE x <= 0
      BY <1>0, <3>2, <3>3, <3>4, <3>5
    <3>6. CASE ~(x <= 0)
      <4>1. x = 1 /\ Len(t) = MAX_KNOWN_PEERS + 1 /\ Len(t) > 1
        BY <1>0, <3>2, <3>3, <3>6
      <4>2. t[1] # p
        BY <3>2, <4>1 DEF Distinct
      <4>3. {t[i] : i \in 1..x} = {t[1]}
        BY <4>1
      <4>4. peer_order' = SubSeq(t, 2, Len(t)) /\ known_peers' = (known_peers \cup {p}) \ {t[1]}
        BY <3>4, <3>6, <4>1, <4>3
      <4>5. /\ peer_order' \in Seq(Peers) /\ Distinct(peer_order')
            /\ Elems(peer_order') = Elems(t) \ {t[1]} /\ Len(peer_order') = Len(t) - 1
        BY <3>2, <4>1, <4>4, PopLemma
      <4>6. Elems(peer_order') \subseteq known_peers'
        BY <1>0, <3>2, <4>4, <4>5
      <4>7. Len(peer_order') <= MAX_KNOWN_PEERS
        BY <1>0, <4>1, <4>5
      <4> QED BY <1>0, <4>4, <4>5, <4>6, <4>7
    <3> QED BY <3>5, <3>6
  <2> QED BY <2>1, <2>2
<1> QED BY <1>1 DEF PeerInv, PeerQueue, Distinct, Elems

\* touch_offer: the queue lists the table and h, h last.
LEMMA TouchedLemma ==
  ASSUME OfferInv, NEW h \in Hashes
  PROVE  /\ Touched(h) \in Seq(Hashes) /\ Distinct(Touched(h))
         /\ Elems(Touched(h)) = Table \cup {h} /\ Touched(h)[Len(Touched(h))] = h
         /\ IsFiniteSet(Table) /\ IsFiniteSet(Table \cup {h})
         /\ Len(Touched(h)) = Cardinality(Table \cup {h})
<1>1. offer_order \in Seq(Hashes) /\ Distinct(offer_order) /\ Elems(offer_order) = Table
  BY DEF OfferInv, OrderListsTable, Distinct, Elems
<1>2. PICK r : r = RemoveFirst(offer_order, h)
  OBVIOUS
<1>3. r \in Seq(Hashes) /\ Distinct(r) /\ Elems(r) = Table \ {h}
  BY <1>1, <1>2, RemoveFirstLemma
<1>4. PICK t : t = Append(r, h)
  OBVIOUS
<1>5. /\ t \in Seq(Hashes) /\ Distinct(t) /\ Elems(t) = Elems(r) \cup {h}
      /\ t[Len(t)] = h
  <2>1. h \notin Elems(r)
    BY <1>3
  <2> QED BY <1>3, <1>4, <2>1, AppendLemma
<1>6. Touched(h) = t
  BY <1>2, <1>4 DEF Touched
<1>7. IsFiniteSet(Elems(t)) /\ Cardinality(Elems(t)) = Len(t)
  BY <1>5, DistinctLength
<1>8. IsFiniteSet(Table)
  BY <1>1, DistinctLength
<1>9. Elems(t) = Table \cup {h}
  BY <1>3, <1>5
<1> QED BY <1>5, <1>6, <1>7, <1>8, <1>9

\* The known-hash arm: a name more, and the hash moves to the back.
LEMMA MergeKeeps ==
  ASSUME OfferInv, NEW h \in Table, NEW n \in Names, MergeAlias(h, n)
  PROVE  OfferInv'
<1> DEFINE rec == offers[h]
           more == [first_seen_from |-> rec.first_seen_from, aliases |-> rec.aliases \cup {n}]
<1>0. /\ h \in Hashes /\ offers \in [Table -> OfferRecord] /\ MAX_ALIASES_PER_OFFER \in Nat
      /\ \A g \in Table : /\ IsFiniteSet(offers[g].aliases)
                          /\ Cardinality(offers[g].aliases) <= MAX_ALIASES_PER_OFFER
  BY CapsAssumption DEF OfferInv, TableBounded
<1>1. rec \in OfferRecord
  BY <1>0
<1>2. rec = [first_seen_from |-> rec.first_seen_from, aliases |-> rec.aliases]
  BY <1>1 DEF OfferRecord
<1>3. [rec EXCEPT !.aliases = rec.aliases \cup {n}] = more
  BY <1>2
<1>4. more \in OfferRecord
  BY <1>1 DEF OfferRecord
<1>5. \/ offers' = offers
      \/ /\ offers' = [offers EXCEPT ![h] = more]
         /\ Cardinality(rec.aliases) < MAX_ALIASES_PER_OFFER
  <2>1. CASE Cardinality(rec.aliases) < MAX_ALIASES_PER_OFFER
    <3>1. offers' = [offers EXCEPT ![h].aliases = @ \cup {n}]
      BY <2>1 DEF MergeAlias
    <3>2. offers' = [offers EXCEPT ![h] = [rec EXCEPT !.aliases = rec.aliases \cup {n}]]
      BY <3>1
    <3> QED BY <1>3, <2>1, <3>2
  <2>2. CASE ~(Cardinality(rec.aliases) < MAX_ALIASES_PER_OFFER)
    BY <2>2 DEF MergeAlias
  <2> QED BY <2>1, <2>2
<1>6. Table' = Table /\ offers' \in [Table -> OfferRecord]
  BY <1>0, <1>4, <1>5 DEF Table
<1>7. \A g \in Table : offers'[g].first_seen_from = offers[g].first_seen_from
  BY <1>0, <1>5
<1>8. ASSUME NEW g \in Table
      PROVE  /\ IsFiniteSet(offers'[g].aliases)
             /\ Cardinality(offers'[g].aliases) <= MAX_ALIASES_PER_OFFER
  <2>1. CASE offers' = offers
    BY <1>0, <2>1
  <2>2. CASE g # h /\ offers' = [offers EXCEPT ![h] = more]
    BY <1>0, <2>2
  <2>3. CASE /\ g = h /\ offers' = [offers EXCEPT ![h] = more]
             /\ Cardinality(rec.aliases) < MAX_ALIASES_PER_OFFER
    <3>1. PICK a : a = rec.aliases
      OBVIOUS
    <3>2. IsFiniteSet(a) /\ Cardinality(a) \in Nat /\ Cardinality(a) < MAX_ALIASES_PER_OFFER
      BY <1>0, <2>3, <3>1, FS_CardinalityType
    <3>3. /\ IsFiniteSet(a \cup {n})
          /\ Cardinality(a \cup {n}) = Cardinality(a) \/ Cardinality(a \cup {n}) = Cardinality(a) + 1
      BY <3>2, FS_AddElement
    <3>4. offers'[g].aliases = a \cup {n}
      BY <1>0, <2>3, <3>1
    <3> QED BY <1>0, <3>2, <3>3, <3>4
  <2> QED BY <1>5, <2>1, <2>2, <2>3
<1>9. \A p : OffersBy(p)' = OffersBy(p)
  BY <1>6, <1>7 DEF OffersBy
<1>10. /\ offer_order' \in Seq(Hashes) /\ Distinct(offer_order') /\ Elems(offer_order') = Table
  <2>1. Table \cup {h} = Table
    OBVIOUS
  <2> QED BY <1>0, <2>1, TouchedLemma DEF MergeAlias
<1>11. /\ providers' = providers \cup {h} /\ offers_per_author' = offers_per_author
       /\ flush' = flush
  BY DEF MergeAlias
<1>12. OrderListsTable'
  BY <1>6, <1>10 DEF OrderListsTable, Distinct, Elems
<1>13. QuotaCountsTable'
  BY <1>9, <1>11 DEF OfferInv, QuotaCountsTable
<1>14. TableBounded'
  BY <1>6, <1>8, <1>9 DEF OfferInv, TableBounded
<1>15. OffersHaveProviders' /\ providers' \subseteq Hashes
  BY <1>0, <1>6, <1>11 DEF OfferInv, OffersHaveProviders
<1> QED BY <1>6, <1>8, <1>10, <1>11, <1>12, <1>13, <1>14, <1>15 DEF OfferInv

\* enforce_offer_cap pops nothing, or the front of the queue, which is an
\* older offer: the table never exceeds its cap by more than the new one.
LEMMA EvictionCases ==
  ASSUME OfferInv, NEW h \in Hashes, h \notin Table
  PROVE  \/ /\ Excess(h) <= 0 /\ Evicted(h) = {}
            /\ Cardinality(Table \cup {h}) <= MAX_OFFERS
         \/ /\ Excess(h) = 1
            /\ \E g \in Table : g = Touched(h)[1] /\ Evicted(h) = {g} /\ g # h
            /\ Cardinality(Table \cup {h}) = MAX_OFFERS + 1
            /\ Len(Touched(h)) > 1
<1>1. PICK t : t = Touched(h)
  OBVIOUS
<1>2. /\ t \in Seq(Hashes) /\ Distinct(t) /\ Elems(t) = Table \cup {h} /\ t[Len(t)] = h
      /\ IsFiniteSet(Table) /\ Len(t) = Cardinality(Table \cup {h})
  BY <1>1, TouchedLemma
<1>3. PICK c \in Nat : c = Cardinality(Table) /\ c <= MAX_OFFERS
  BY <1>2, FS_CardinalityType DEF OfferInv, TableBounded
<1>4. Cardinality(Table \cup {h}) = c + 1
  BY <1>2, <1>3, FS_AddElement
<1>5. MAX_OFFERS \in Nat /\ MAX_OFFERS # 0
  BY CapsAssumption
<1>6. PICK x \in Int : x = Excess(h) /\ x = c + 1 - MAX_OFFERS
  BY <1>3, <1>4, <1>5 DEF Excess
<1>7. Evicted(h) = {t[i] : i \in 1..x}
  BY <1>1, <1>6 DEF Evicted
<1>8. CASE x <= 0
  <2>1. 1..x = {}
    BY <1>8
  <2> QED BY <1>3, <1>4, <1>5, <1>6, <1>7, <1>8, <2>1
<1>9. CASE ~(x <= 0)
  <2>1. x = 1 /\ c = MAX_OFFERS /\ c + 1 > 1
    BY <1>3, <1>5, <1>6, <1>9
  <2>2. Evicted(h) = {t[1]}
    <3>1. 1..x = {1}
      BY <2>1
    <3> QED BY <1>7, <3>1
  <2>3. Len(t) > 1 /\ Len(t) \in Nat
    BY <1>2, <1>3, <1>4, <2>1
  <2>4. t[1] # h /\ t[1] \in Elems(t)
    <3>1. PICK k \in Nat : k = Len(t) /\ k > 1
      BY <2>3
    <3>2. 1 \in 1..k /\ k \in 1..k /\ 1 # k
      BY <3>1
    <3> QED BY <1>2, <3>1, <3>2 DEF Distinct, Elems
  <2>5. t[1] \in Table
    BY <1>2, <2>4
  <2> QED BY <1>1, <1>4, <1>6, <2>1, <2>2, <2>3, <2>4, <2>5
<1> QED BY <1>8, <1>9

\* How the offers of one author change: the new one is added, the evicted
\* one taken away, and QuotaAfter counts just that.
LEMMA QuotaLemma ==
  ASSUME OfferInv, NEW p \in Peers, NEW h \in Hashes, NEW n \in Names, h \notin Table,
         InsertOffer(p, h, n), NEW q \in Peers
  PROVE  /\ OffersBy(q)' = (OffersBy(q) \cup (IF q = p THEN {h} ELSE {})) \ EvictedOf(q, h)
         /\ Cardinality(EvictedOf(q, h)) \in 0..1
         /\ EvictedOf(q, h) = {} => Cardinality(EvictedOf(q, h)) = 0
         /\ offers_per_author'[q] = offers_per_author[q] + (IF q = p THEN 1 ELSE 0)
                                      - Cardinality(EvictedOf(q, h))
         /\ offers_per_author'[q] = Cardinality(OffersBy(q)')
         /\ offers_per_author'[q] \in Nat
<1> DEFINE record == [first_seen_from |-> p, aliases |-> {n}]
           new == IF q = p THEN {h} ELSE {}
<1>1. PICK E : E = Evicted(h)
  OBVIOUS
<1>2. E = {} \/ \E g \in Table : E = {g}
  BY <1>1, EvictionCases
<1>3. /\ offers' = [g \in (Table \cup {h}) \ E |-> IF g = h THEN record ELSE offers[g]]
      /\ offers_per_author' = QuotaAfter(p, h)
  BY <1>1 DEF InsertOffer
<1>4. Table' = (Table \cup {h}) \ E
  BY <1>3 DEF Table
<1>5. PICK B : B = OffersBy(q) /\ B = {g \in Table : offers[g].first_seen_from = q}
  BY DEF OffersBy
<1>6. PICK V : V = EvictedOf(q, h) /\ V = E \cap B
  BY <1>1, <1>2, <1>5 DEF EvictedOf
<1>7. OffersBy(q)' = (B \cup new) \ V
  <2>1. OffersBy(q)' = {g \in (Table \cup {h}) \ E : offers'[g].first_seen_from = q}
    BY <1>4 DEF OffersBy
  <2>2. \A g \in (Table \cup {h}) \ E :
          offers'[g].first_seen_from = IF g = h THEN p ELSE offers[g].first_seen_from
    BY <1>3
  <2> QED BY <1>2, <1>5, <1>6, <2>1, <2>2
<1>8. IsFiniteSet(B)
  BY <1>5, TouchedLemma, FS_Subset
<1>9. PICK b \in Nat : b = Cardinality(B) /\ offers_per_author[q] = b
  BY <1>5, <1>8, FS_CardinalityType DEF OfferInv, QuotaCountsTable
<1>10. offers_per_author'[q] = b + (IF q = p THEN 1 ELSE 0) - Cardinality(V)
  BY <1>3, <1>6, <1>9 DEF QuotaAfter
<1>11. PICK C : C = B \cup new
  OBVIOUS
<1>12. IsFiniteSet(C) /\ Cardinality(C) = b + (IF q = p THEN 1 ELSE 0) /\ V \subseteq C
  <2>1. h \notin B
    BY <1>5
  <2>2. CASE q = p
    BY <1>6, <1>8, <1>9, <1>11, <2>1, <2>2, FS_AddElement
  <2>3. CASE q # p
    BY <1>6, <1>8, <1>9, <1>11, <2>3
  <2> QED BY <2>2, <2>3
<1>13. PICK c \in Nat : c = Cardinality(C) /\ c = b + (IF q = p THEN 1 ELSE 0)
  BY <1>12, FS_CardinalityType
<1>14. V = {} \/ \E g \in C : V = {g}
  BY <1>2, <1>6, <1>12
<1> DEFINE Goal == /\ Cardinality(V) \in 0..1 /\ (V = {} => Cardinality(V) = 0)
                   /\ offers_per_author'[q] = Cardinality(OffersBy(q)')
                   /\ offers_per_author'[q] \in Nat
<1>15. ASSUME V = {} PROVE Goal
  <2>1. Cardinality(V) = 0 /\ C \ V = C
    BY <1>15, FS_EmptySet
  <2>2. OffersBy(q)' = C
    BY <1>7, <1>11, <2>1
  <2>3. offers_per_author'[q] = c
    BY <1>10, <1>13, <2>1
  <2>4. 0 \in 0..1
    OBVIOUS
  <2> QED BY <1>13, <2>1, <2>2, <2>3, <2>4
<1>16. ASSUME NEW g \in C, V = {g}
       PROVE  /\ Cardinality(V) = 1 /\ Cardinality(C \ V) = c - 1 /\ c - 1 \in Nat /\ V # {}
  <2>1. Cardinality(V) = 1
    BY <1>16, FS_Singleton
  <2>2. IsFiniteSet(C \ {g}) /\ Cardinality(C \ {g}) = c - 1
    BY <1>12, <1>13, <1>16, FS_RemoveElement
  <2>3. Cardinality(C \ {g}) \in Nat
    BY <2>2, FS_CardinalityType
  <2> QED BY <1>16, <2>1, <2>2, <2>3
<1>17. ASSUME V # {} PROVE Goal
  <2>1. /\ Cardinality(V) = 1 /\ Cardinality(C \ V) = c - 1 /\ c - 1 \in Nat
    BY <1>14, <1>16, <1>17
  <2>2. OffersBy(q)' = C \ V
    BY <1>7, <1>11
  <2>3. offers_per_author'[q] = c - 1
    BY <1>10, <1>13, <2>1
  <2>4. 1 \in 0..1
    OBVIOUS
  <2> QED BY <1>17, <2>1, <2>2, <2>3, <2>4
<1>18. Goal
  BY <1>15, <1>17
<1> HIDE DEF Goal
<1>19. OffersBy(q)' = (OffersBy(q) \cup (IF q = p THEN {h} ELSE {})) \ EvictedOf(q, h)
  BY <1>5, <1>6, <1>7
<1>20. offers_per_author'[q] = offers_per_author[q] + (IF q = p THEN 1 ELSE 0)
                                 - Cardinality(EvictedOf(q, h))
  BY <1>6, <1>9, <1>10
<1> QED BY <1>6, <1>18, <1>19, <1>20 DEF Goal

\* The new-hash arm: insert, count, evict at most one.
LEMMA InsertKeeps ==
  ASSUME OfferInv, NEW p \in Peers, NEW h \in Hashes, NEW n \in Names, h \notin Table,
         author_has_quota(p), InsertOffer(p, h, n)
  PROVE  OfferInv'
<1> DEFINE record == [first_seen_from |-> p, aliases |-> {n}]
           lost == UNION {EvictedOf(q, h) : q \in Peers \ {p}}
<1>0. /\ Table \subseteq Hashes /\ offers \in [Table -> OfferRecord]
      /\ offers_per_author \in [Peers -> Nat] /\ providers \subseteq Hashes
      /\ flush \in [author : Peers, lost : SUBSET Hashes] /\ Table \subseteq providers
      /\ \A g \in Table : /\ IsFiniteSet(offers[g].aliases)
                          /\ Cardinality(offers[g].aliases) <= MAX_ALIASES_PER_OFFER
      /\ IsFiniteSet(flush.lost) /\ Cardinality(flush.lost) <= offers_per_author[flush.author]
  BY DEF OfferInv, TableBounded, OffersHaveProviders
<1>1. PICK E : E = Evicted(h)
  OBVIOUS
<1>2. PICK T2 : T2 = (Table \cup {h}) \ E
  OBVIOUS
<1>3. E = {} \/ \E g \in Table : E = {g}
  BY <1>1, EvictionCases
<1>4. /\ offers' = [g \in T2 |-> IF g = h THEN record ELSE offers[g]]
      /\ offers_per_author' = QuotaAfter(p, h) /\ providers' = (providers \cup {h}) \ E
      /\ flush' = [author |-> p, lost |-> (IF flush.author = p THEN flush.lost ELSE {}) \cup lost]
  BY <1>1, <1>2 DEF InsertOffer, ProvidersAfter
<1>5. record \in OfferRecord
  BY DEF OfferRecord
<1>6. Table' = T2 /\ T2 \subseteq Hashes /\ offers' \in [T2 -> OfferRecord]
  BY <1>0, <1>2, <1>4, <1>5 DEF Table
<1>7. OffersHaveProviders' /\ providers' \subseteq Hashes
  BY <1>0, <1>2, <1>4, <1>6 DEF OffersHaveProviders
<1>8. ASSUME NEW g \in T2
      PROVE  /\ IsFiniteSet(offers'[g].aliases)
             /\ Cardinality(offers'[g].aliases) <= MAX_ALIASES_PER_OFFER
  <2>1. CASE g = h
    <3>1. offers'[g].aliases = {n}
      BY <1>4, <2>1
    <3>2. IsFiniteSet({n}) /\ Cardinality({n}) = 1
      BY FS_Singleton
    <3> QED BY <3>1, <3>2, CapsAssumption
  <2>2. CASE g # h
    <3>1. offers'[g] = offers[g] /\ g \in Table
      BY <1>2, <1>4, <2>2
    <3> QED BY <1>0, <3>1
  <2> QED BY <2>1, <2>2
<1>9. /\ offer_order' \in Seq(Hashes) /\ Distinct(offer_order') /\ Elems(offer_order') = T2
      /\ IsFiniteSet(T2) /\ Cardinality(T2) <= MAX_OFFERS
  <2>1. PICK t : t = Touched(h)
    OBVIOUS
  <2>2. /\ t \in Seq(Hashes) /\ Distinct(t) /\ Elems(t) = Table \cup {h}
        /\ IsFiniteSet(Table \cup {h}) /\ Len(t) = Cardinality(Table \cup {h})
    BY <2>1, TouchedLemma
  <2>3. PICK x : x = Excess(h)
    OBVIOUS
  <2>4. /\ x <= 0 => offer_order' = t
        /\ ~(x <= 0) => offer_order' = SubSeq(t, x + 1, Len(t))
    BY <2>1, <2>3 DEF InsertOffer
  <2>5. CASE x <= 0 /\ E = {} /\ Cardinality(Table \cup {h}) <= MAX_OFFERS
    <3>1. T2 = Table \cup {h}
      BY <1>2, <2>5
    <3> QED BY <2>2, <2>4, <2>5, <3>1
  <2>6. CASE /\ x = 1 /\ E = {t[1]} /\ Cardinality(Table \cup {h}) = MAX_OFFERS + 1
             /\ Len(t) > 1
    <3>1. offer_order' = SubSeq(t, 2, Len(t))
      BY <2>4, <2>6
    <3>2. /\ offer_order' \in Seq(Hashes) /\ Distinct(offer_order')
          /\ Elems(offer_order') = Elems(t) \ {t[1]} /\ Len(offer_order') = Len(t) - 1
      <4>1. Len(t) > 0
        BY <2>2, <2>6
      <4> QED BY <2>2, <3>1, <4>1, PopLemma
    <3>3. Elems(offer_order') = T2
      BY <1>2, <2>2, <2>6, <3>2
    <3>4. IsFiniteSet(T2) /\ Cardinality(T2) = Len(t) - 1
      BY <3>2, <3>3, DistinctLength
    <3>5. PICK k \in Nat : k = MAX_OFFERS /\ Len(t) = k + 1
      BY <2>2, <2>6, CapsAssumption
    <3>6. Cardinality(T2) = k
      BY <3>4, <3>5
    <3> QED BY <3>2, <3>3, <3>4, <3>5, <3>6
  <2> QED BY <1>1, <2>1, <2>3, <2>5, <2>6, EvictionCases
<1>10. OrderListsTable'
  BY <1>6, <1>9 DEF OrderListsTable, Distinct, Elems
<1>11. offers_per_author' \in [Peers -> Nat]
  <2>1. \A q \in Peers : offers_per_author'[q] \in Nat
    BY QuotaLemma
  <2> QED BY <1>4, <2>1 DEF QuotaAfter
<1>12. QuotaCountsTable'
  BY QuotaLemma DEF QuotaCountsTable
<1>13. ASSUME NEW q \in Peers
       PROVE  /\ Cardinality(EvictedOf(q, h)) \in 0..1
              /\ Cardinality(OffersBy(q)') <= MAX_OFFERS_PER_AUTHOR
  <2>1. /\ offers_per_author[q] \in Nat /\ offers_per_author[q] <= MAX_OFFERS_PER_AUTHOR
        /\ q = p => offers_per_author[q] < MAX_OFFERS_PER_AUTHOR
        /\ MAX_OFFERS_PER_AUTHOR \in Nat
    BY CapsAssumption DEF OfferInv, QuotaCountsTable, TableBounded, author_has_quota
  <2>2. PICK v \in 0..1 : v = Cardinality(EvictedOf(q, h))
    BY QuotaLemma
  <2>3. Cardinality(OffersBy(q)') = offers_per_author[q] + (IF q = p THEN 1 ELSE 0) - v
    BY <2>2, QuotaLemma
  <2> QED BY <2>1, <2>2, <2>3
<1>14. TableBounded'
  BY <1>6, <1>8, <1>9, <1>13 DEF TableBounded
<1>15. flush'.author = p /\ flush' \in [author : Peers, lost : SUBSET Hashes]
  <2>1. lost \subseteq Hashes
    BY <1>0, <1>1, <1>3 DEF EvictedOf
  <2> HIDE DEF lost
  <2> QED BY <1>0, <1>4, <2>1
<1>16. IsFiniteSet(flush'.lost) /\ Cardinality(flush'.lost) <= offers_per_author'[p]
  <2>1. PICK L : L = lost
    OBVIOUS
  <2>2. PICK base : base = IF flush.author = p THEN flush.lost ELSE {}
    OBVIOUS
  <2>3. flush'.lost = base \cup L
    BY <1>4, <2>1, <2>2
  <2>4. PICK o \in Nat : o = offers_per_author[p]
    BY <1>0
  <2>5. IsFiniteSet(base) /\ Cardinality(base) \in Nat /\ Cardinality(base) <= o
    <3>1. CASE flush.author = p
      BY <1>0, <2>2, <2>4, <3>1, FS_CardinalityType
    <3>2. CASE flush.author # p
      BY <2>2, <2>4, <3>2, FS_EmptySet
    <3> QED BY <3>1, <3>2
  <2>6. PICK v \in 0..1 : v = Cardinality(EvictedOf(p, h))
    BY QuotaLemma
  <2>7. offers_per_author'[p] = o + 1 - v /\ (EvictedOf(p, h) = {} => v = 0)
    BY <2>4, <2>6, QuotaLemma
  <2>8. L = {} \/ (EvictedOf(p, h) = {} /\ \E g : L = {g})
    <3>1. \A q \in Peers \ {p} : EvictedOf(q, h) = {g \in E \ {h} : offers[g].first_seen_from = q}
      BY <1>1 DEF EvictedOf
    <3>2. EvictedOf(p, h) = {g \in E \ {h} : offers[g].first_seen_from = p}
      BY <1>1 DEF EvictedOf
    <3>3. L = UNION {{g \in E \ {h} : offers[g].first_seen_from = q} : q \in Peers \ {p}}
      BY <2>1, <3>1
    <3>4. ASSUME NEW g \in Table, E = {g}
          PROVE  L = {} \/ (EvictedOf(p, h) = {} /\ L = {g})
      <4>1. CASE offers[g].first_seen_from = p
        BY <3>3, <3>4, <4>1
      <4>2. CASE offers[g].first_seen_from # p
        <5>1. EvictedOf(p, h) = {} /\ g # h
          BY <3>2, <3>4, <4>2
        <5>2. offers[g].first_seen_from \in Peers
          BY <1>0 DEF OfferRecord
        <5> QED BY <3>3, <3>4, <4>2, <5>1, <5>2
      <4> QED BY <4>1, <4>2
    <3>5. CASE E = {}
      BY <3>3, <3>5
    <3> QED BY <1>3, <3>4, <3>5
  <2>9. CASE L = {}
    <3>1. base \cup L = base
      BY <2>9
    <3>2. PICK d \in Nat : d = Cardinality(base) /\ d <= o
      BY <2>5
    <3>3. d <= o + 1 - v
      BY <3>2
    <3> QED BY <2>3, <2>5, <2>7, <3>1, <3>2, <3>3
  <2>10. ASSUME NEW g, L = {g}, EvictedOf(p, h) = {}
         PROVE  IsFiniteSet(base \cup L) /\ Cardinality(base \cup L) <= o + 1
    <3>1. /\ IsFiniteSet(base \cup {g})
          /\ Cardinality(base \cup {g}) = Cardinality(base)
               \/ Cardinality(base \cup {g}) = Cardinality(base) + 1
      BY <2>5, FS_AddElement
    <3>2. PICK d \in Nat : d = Cardinality(base) /\ d <= o
      BY <2>5
    <3>3. Cardinality(base \cup {g}) <= o + 1
      BY <3>1, <3>2
    <3> QED BY <2>10, <3>1, <3>3
  <2>11. CASE L # {}
    <3>1. IsFiniteSet(base \cup L) /\ Cardinality(base \cup L) <= o + 1 /\ v = 0
      BY <2>7, <2>8, <2>10, <2>11
    <3>2. o + 1 - v = o + 1
      BY <3>1
    <3> QED BY <2>3, <2>7, <3>1, <3>2
  <2> QED BY <2>9, <2>11
<1> QED
  BY <1>6, <1>7, <1>8, <1>9, <1>10, <1>11, <1>12, <1>14, <1>15, <1>16 DEF OfferInv

---------------------------------------------------------------------------
StateInv == OfferInv /\ PeerInv

\* An empty session's tables agree.
LEMMA InitState == Init => StateInv
<1> SUFFICES ASSUME Init PROVE StateInv
  OBVIOUS
<1>1. /\ Table = {} /\ offer_order = <<>> /\ providers = {} /\ known_peers = {}
      /\ peer_order = <<>> /\ offers_per_author = [p \in Peers |-> 0]
      /\ flush \in [author : Peers, lost : {{}}]
  BY DEF Init, Table
<1>2. offers \in [Table -> OfferRecord]
  BY <1>1 DEF Init
<1>3. \A p : OffersBy(p) = {}
  BY <1>1 DEF OffersBy
<1>4. OrderListsTable
  BY <1>1 DEF OrderListsTable
<1>5. QuotaCountsTable
  BY <1>1, <1>3, FS_EmptySet DEF QuotaCountsTable
<1>6. TableBounded
  <2>1. Cardinality({}) = 0 /\ 0 <= MAX_OFFERS /\ 0 <= MAX_OFFERS_PER_AUTHOR
    BY FS_EmptySet, CapsAssumption
  <2> QED BY <1>1, <1>3, <2>1 DEF TableBounded
<1>7. PeerInv
  BY <1>1, CapsAssumption DEF PeerInv, PeerQueue
<1>8. flush \in [author : Peers, lost : SUBSET Hashes] /\ flush.lost = {}
  BY <1>1
<1>9. IsFiniteSet(flush.lost) /\ Cardinality(flush.lost) <= offers_per_author[flush.author]
  BY <1>1, <1>8, FS_EmptySet
<1> QED BY <1>1, <1>2, <1>4, <1>5, <1>6, <1>7, <1>8, <1>9
        DEF StateInv, OfferInv, OffersHaveProviders

\* record_offer_inner, in each of its three arms.
LEMMA RecordKeeps ==
  ASSUME OfferInv, NEW p \in Peers, NEW h \in Hashes, NEW n \in Names,
         record_offer_inner(p, h, n)
  PROVE  OfferInv'
<1>1. CASE h \in Table /\ MergeAlias(h, n)
  BY <1>1, MergeKeeps
<1>2. CASE h \notin Table /\ author_has_quota(p) /\ InsertOffer(p, h, n)
  BY <1>2, InsertKeeps
<1>3. CASE UNCHANGED offerVars
  BY <1>3 DEF offerVars, OfferInv, Table, OffersBy, OrderListsTable, QuotaCountsTable,
              TableBounded, OffersHaveProviders
<1> QED BY <1>1, <1>2, <1>3 DEF record_offer_inner

\* The invariant holds throughout a session.
THEOREM StateInvariance == Spec => []StateInv
<1>1. ASSUME StateInv, [Next]_vars PROVE StateInv'
  <2> USE <1>1 DEF StateInv
  <2>1. ASSUME UNCHANGED offerVars PROVE OfferInv'
    BY <2>1 DEF offerVars, OfferInv, Table, OffersBy, OrderListsTable, QuotaCountsTable,
                TableBounded, OffersHaveProviders
  <2>2. ASSUME UNCHANGED peerVars PROVE PeerInv'
    BY <2>2 DEF peerVars, PeerInv, PeerQueue
  <2>3. ASSUME NEW p \in Peers, NEW h \in Hashes, NEW n \in Names,
               record_offer_bounded(p, h, n) \/ record_restored(p, h, n)
        PROVE  StateInv'
    BY <2>2, <2>3, NotePeerKeeps, RecordKeeps DEF record_offer_bounded, record_restored
  <2>4. ASSUME NEW h \in Hashes, record_provider(h) PROVE StateInv'
    <3>1. PeerInv'
      BY <2>2, <2>4 DEF record_provider
    <3>2. /\ UNCHANGED <<offers, offer_order, offers_per_author, flush>>
          /\ providers' = providers \cup {h}
      BY <2>4 DEF record_provider
    <3>3. OfferInv'
      BY <3>2 DEF OfferInv, Table, OffersBy, OrderListsTable, QuotaCountsTable, TableBounded,
                  OffersHaveProviders
    <3> QED BY <3>1, <3>3
  <2>5. ASSUME NEW p \in Peers, NoteDeliverer(p) PROVE StateInv'
    BY <2>1, <2>5, NotePeerKeeps DEF NoteDeliverer
  <2>6. ASSUME NEW p \in Peers, NeighborUp(p) PROVE StateInv'
    <3>1. PeerInv'
      BY <2>6 DEF NeighborUp, PeerInv, PeerQueue
    <3> QED BY <2>1, <2>6, <3>1 DEF NeighborUp
  <2>7. CASE UNCHANGED vars
    BY <2>1, <2>2, <2>7 DEF vars, offerVars, peerVars
  <2> QED
    BY <2>3, <2>4, <2>5, <2>6, <2>7 DEF Next
<1> QED
  BY <1>1, InitState, PTL DEF Spec

\* The tables hold what they are declared to hold.
THEOREM StateTypes == Spec => []TypeOK
<1>1. StateInv => TypeOK
  BY DEF StateInv, OfferInv, PeerInv, TypeOK
<1> QED BY <1>1, StateInvariance, PTL

\* The queue, the quota counters, the provider index and the offer table of a
\* session describe one another after any sequence of offers, restores,
\* claims and evictions, whatever the caps and the number of authors: the
\* counters that enforce_offer_cap and author_has_quota trust never drift.
THEOREM TablesAlwaysAgree == Spec => []TablesAgree
<1>1. StateInv => TablesAgree
  BY DEF StateInv, OfferInv, PeerInv, TablesAgree
<1> QED BY <1>1, StateInvariance, PTL

\* One author pushes out at most MAX_OFFERS_PER_AUTHOR offers of the others,
\* however many it announces: each one is paid for with an offer of its own
\* in the table, and its quota bounds those.
THEOREM NoAuthorFlushes == Spec => []OneAuthorCannotFlush
<1>1. StateInv => OneAuthorCannotFlush
  <2> SUFFICES ASSUME StateInv PROVE OneAuthorCannotFlush
    OBVIOUS
  <2>1. flush.author \in Peers /\ IsFiniteSet(flush.lost)
    BY DEF StateInv, OfferInv
  <2>2. /\ offers_per_author[flush.author] \in Nat
        /\ offers_per_author[flush.author] <= MAX_OFFERS_PER_AUTHOR
        /\ Cardinality(flush.lost) <= offers_per_author[flush.author]
    BY <2>1 DEF StateInv, OfferInv, QuotaCountsTable, TableBounded
  <2>3. Cardinality(flush.lost) \in Nat /\ MAX_OFFERS_PER_AUTHOR \in Nat
    BY <2>1, FS_CardinalityType, CapsAssumption
  <2> QED BY <2>2, <2>3 DEF OneAuthorCannotFlush
<1> QED BY <1>1, StateInvariance, PTL
=============================================================================
