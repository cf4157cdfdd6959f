----------------------- MODULE ProviderGossip_proofs -----------------------
(***************************************************************************)
(* Proofs about ProviderGossip for every set of peers, any number of       *)
(* claims and any cap.  The operators of ProviderSet are characterised     *)
(* first; the invariance proof then never unfolds them.  The refinement of *)
(* NewestClaims and the order of attempts follow from TypeOK.              *)
(***************************************************************************)
EXTENDS ProviderGossip, NaturalsInduction, WellFoundedInduction, TLAPS

\* What WithEntry does to the table: one entry set, the others kept.
LEMMA WithEntryLemma ==
  ASSUME NEW s, IsProviderSet(s), NEW id \in Peers, NEW info \in ProviderInfo
  PROVE  LET t == WithEntry(s, id, info)
         IN  /\ IsProviderSet(t)
             /\ Known(t) = Known(s) \cup {id}
             /\ EntryOf(t, id) = info
             /\ \A p \in Peers \ {id} : EntryOf(t, p) = EntryOf(s, p)
<1> DEFINE f == [p \in Known(s) \cup {id} |-> IF p = id THEN info ELSE s.providers[p]]
           t == WithEntry(s, id, info)
<1>1. t = [original |-> s.original, providers |-> f]
  BY DEF WithEntry, IsProviderSet, Known
<1>2. t.providers = f /\ t.original = s.original
  BY <1>1
<1>3. DOMAIN f = Known(s) \cup {id}
  OBVIOUS
<1>4. f \in [Known(s) \cup {id} -> ProviderInfo]
  BY DEF IsProviderSet
<1>5. Known(t) = Known(s) \cup {id}
  BY <1>2, <1>3 DEF Known
<1>6. IsProviderSet(t)
  BY <1>1, <1>2, <1>4, <1>5 DEF IsProviderSet
<1> QED
  BY <1>2, <1>5, <1>6 DEF EntryOf

\* EntryOf always returns a well-formed info.
LEMMA EntryType ==
  ASSUME NEW s, IsProviderSet(s), NEW id \in Peers
  PROVE  /\ EntryOf(s, id) \in ProviderInfo
         /\ id \notin Known(s) => EntryOf(s, id) = DefaultInfo
BY DEF EntryOf, IsProviderSet, ProviderInfo, DefaultInfo, Known

\* enforce_cap only removes entries.
LEMMA EnforceCapLemma ==
  ASSUME NEW s, IsProviderSet(s)
  PROVE  LET t == enforce_cap(s)
         IN  /\ IsProviderSet(t)
             /\ Known(t) \subseteq Known(s)
             /\ \A p \in Known(t) : EntryOf(t, p) = EntryOf(s, p)
<1>1. CASE enforce_cap(s) = s
  BY <1>1
<1>2. CASE enforce_cap(s) = Without(s, Excess(s))
  <2> DEFINE t == Without(s, Excess(s))
             f == [p \in Known(s) \ Excess(s) |-> s.providers[p]]
  <2>1. /\ t = [original |-> t.original, providers |-> t.providers]
        /\ t.providers = f
        /\ t.original \in {None, s.original}
    BY DEF Without
  <2>2. Known(t) = Known(s) \ Excess(s)
    BY <2>1 DEF Known
  <2>3. f \in [Known(s) \ Excess(s) -> ProviderInfo]
    BY DEF IsProviderSet
  <2>4. IsProviderSet(t)
    BY <2>1, <2>2, <2>3 DEF IsProviderSet
  <2>5. \A p \in Known(t) : EntryOf(t, p) = EntryOf(s, p)
    BY <2>1, <2>2 DEF EntryOf
  <2> QED
    BY <1>2, <2>2, <2>4, <2>5
<1> QED
  BY <1>1, <1>2 DEF enforce_cap

\* Changing `original` keeps the set well formed and its entries as they are.
LEMMA OriginalLemma ==
  ASSUME NEW s, IsProviderSet(s), NEW o \in Peers \cup {None}
  PROVE  LET t == [s EXCEPT !.original = o]
         IN  /\ IsProviderSet(t)
             /\ Known(t) = Known(s)
             /\ t.original = o
             /\ \A p : EntryOf(t, p) = EntryOf(s, p)
BY DEF IsProviderSet, Known, EntryOf

\* add and mark_* leave every claim on record as it was.
SameClaim(e1, e2) ==
  /\ e1.announced = e2.announced
  /\ e1.announced_at_ms = e2.announced_at_ms
  /\ e1.last_frame_id = e2.last_frame_id
  /\ e1.withdrawn = e2.withdrawn

LEMMA AddLemma ==
  ASSUME NEW s, IsProviderSet(s), NEW id \in Peers, NEW o \in BOOLEAN
  PROVE  /\ IsProviderSet(add(s, id, o))
         /\ Known(s) \subseteq Known(add(s, id, o))
         /\ \A p \in Peers : EntryOf(add(s, id, o), p) = EntryOf(s, p)
<1> DEFINE g == IF o /\ s.original = None THEN id ELSE s.original
           u == [s EXCEPT !.original = g]
<1>1. g \in Peers \cup {None}
  BY DEF IsProviderSet
<1>2. IsProviderSet(u) /\ Known(u) = Known(s) /\ \A p : EntryOf(u, p) = EntryOf(s, p)
  BY <1>1, OriginalLemma
<1>3. EntryOf(s, id) \in ProviderInfo
  BY EntryType
<1>4. add(s, id, o) = WithEntry(u, id, EntryOf(s, id))
  BY DEF add
<1> HIDE DEF u
<1> QED
  BY <1>2, <1>3, <1>4, WithEntryLemma

LEMMA MarkLemma ==
  ASSUME NEW s, IsProviderSet(s), NEW id \in Peers,
         NEW t \in {mark_failure(s, id), mark_success(s, id)}
  PROVE  /\ IsProviderSet(t)
         /\ Known(s) \subseteq Known(t)
         /\ \A p \in Peers : SameClaim(EntryOf(t, p), EntryOf(s, p))
<1> DEFINE e == EntryOf(s, id)
           inc == [e EXCEPT !.failures = @ + 1]
           rst == [e EXCEPT !.failures = 0]
<1>1. e \in ProviderInfo
  BY EntryType
<1>2. /\ inc \in ProviderInfo /\ SameClaim(inc, e)
      /\ rst \in ProviderInfo /\ SameClaim(rst, e)
  BY <1>1 DEF ProviderInfo, SameClaim
<1>3. \A p \in Peers : SameClaim(EntryOf(s, p), EntryOf(s, p))
  BY DEF SameClaim
<1>4. t \in {WithEntry(s, id, inc), WithEntry(s, id, rst), s}
  BY DEF mark_failure, mark_success
<1> HIDE DEF e, inc, rst
<1>5. CASE t = WithEntry(s, id, inc)
  BY <1>2, <1>3, <1>5, WithEntryLemma DEF e
<1>6. CASE t = WithEntry(s, id, rst)
  BY <1>2, <1>3, <1>6, WithEntryLemma DEF e
<1>7. CASE t = s
  BY <1>3, <1>7
<1> QED
  BY <1>4, <1>5, <1>6, <1>7

\* The outcome of ProviderSet::record: the named entry keeps its claim if the
\* new one is stale and takes it otherwise; other entries are kept or dropped.
LEMMA RecordLemma ==
  ASSUME NEW s, IsProviderSet(s), NEW id \in Peers,
         NEW ts \in Nat, NEW frame \in Nat, NEW w \in BOOLEAN
  PROVE  LET t == record(s, id, ts, frame, w)
             e == EntryOf(t, id)
         IN  /\ IsProviderSet(t)
             /\ Known(t) \subseteq Known(s) \cup {id}
             /\ \A p \in Known(t) \ {id} : EntryOf(t, p) = EntryOf(s, p)
             /\ id \in Known(t) =>
                  IF Stale(s, id, ts, frame) THEN e = EntryOf(s, id)
                  ELSE /\ e.announced /\ e.announced_at_ms = ts
                       /\ e.last_frame_id = frame /\ e.withdrawn = w
<1> DEFINE old  == EntryOf(s, id)
           info == [old EXCEPT !.announced = TRUE, !.announced_at_ms = ts,
                      !.last_frame_id = frame, !.withdrawn = w]
           o == IF w /\ s.original = id THEN None ELSE s.original
           u == [s EXCEPT !.original = o]
           v == WithEntry(u, id, info)
           t == record(s, id, ts, frame, w)
<1>1. old \in ProviderInfo
  BY EntryType
<1>2. /\ info \in ProviderInfo
      /\ info.announced /\ info.announced_at_ms = ts
      /\ info.last_frame_id = frame /\ info.withdrawn = w
  BY <1>1 DEF ProviderInfo
<1>3. o \in Peers \cup {None}
  BY DEF IsProviderSet
<1>4. IsProviderSet(u) /\ Known(u) = Known(s) /\ \A p : EntryOf(u, p) = EntryOf(s, p)
  BY <1>3, OriginalLemma
<1>5. CASE Stale(s, id, ts, frame)
  <2>1. t = WithEntry(s, id, old)
    BY <1>5 DEF record
  <2> HIDE DEF old, t
  <2> QED
    BY <1>1, <1>5, <2>1, WithEntryLemma DEF old, t, IsProviderSet
<1>6. CASE ~Stale(s, id, ts, frame)
  <2>1. t = enforce_cap(v)
    BY <1>6 DEF record, Apply
  <2> HIDE DEF u, info
  <2>2. /\ IsProviderSet(v) /\ Known(v) = Known(s) \cup {id}
        /\ EntryOf(v, id) = info
        /\ \A p \in Peers \ {id} : EntryOf(v, p) = EntryOf(s, p)
    BY <1>2, <1>4, WithEntryLemma
  <2> HIDE DEF v, t
  <2>3. /\ IsProviderSet(t) /\ Known(t) \subseteq Known(v)
        /\ \A p \in Known(t) : EntryOf(t, p) = EntryOf(v, p)
    BY <2>1, <2>2, EnforceCapLemma
  <2>4. Known(s) \subseteq Peers
    BY DEF IsProviderSet
  <2> QED
    BY <1>2, <1>6, <2>2, <2>3, <2>4 DEF t
<1> QED
  BY <1>5, <1>6

---------------------------------------------------------------------------
\* The inductive invariant.  RecordInv strengthens RecordIsNewestHeard: an
\* author never heard has an unstamped entry, and an author heard has a
\* newest claim, which is the one on record.
HistoryInv ==
  /\ \A m, n \in published : m.frame = n.frame => m = n
  /\ \A r \in Replicas : heard[r] \subseteq published
  /\ \A p \in Authors : latest[p] # NoClaim =>
       latest[p] \in published /\ latest[p].author = p

RecordInv ==
  \A r \in Replicas : \A p \in Peers \ dropped[r] :
    /\ HeardOf(r, p) = {} => SameClaim(EntryOf(index[r], p), DefaultInfo)
    /\ HeardOf(r, p) # {} =>
         \E m \in HeardOf(r, p) :
           /\ SaysOnRecord(r, p, m)
           /\ \A n \in HeardOf(r, p) : ~ClaimBefore(m, n)

IInv == TypeOK /\ HistoryInv /\ RecordInv

\* A claim is a record of naturals; NoClaim is none of them.
LEMMA ClaimType ==
  ASSUME NEW m \in Claims
  PROVE  /\ m.author \in Peers /\ m.ts \in Nat /\ m.frame \in Nat
         /\ m.withdrawn \in BOOLEAN
<1>1. m.author \in Authors /\ m.ts \in 1..MaxClock /\ m.frame \in FrameIds
  BY DEF Claims
<1>2. m.withdrawn \in BOOLEAN
  BY DEF Claims
<1>3. m.author \in Peers
  BY <1>1, PeersAssumption
<1>4. m.ts \in Nat /\ m.frame \in Nat
  BY <1>1, BoundsAssumption DEF FrameIds
<1> QED
  BY <1>2, <1>3, <1>4, Zenon

LEMMA InitIInv == Init => IInv
<1> SUFFICES ASSUME Init PROVE IInv
  OBVIOUS
<1>1. IsProviderSet(EmptySet) /\ \A p : EntryOf(EmptySet, p) = DefaultInfo
  BY DEF EmptySet, IsProviderSet, Known, EntryOf
<1>2. TypeOK
  BY <1>1 DEF Init, TypeOK
<1>3. HistoryInv
  BY DEF Init, HistoryInv
<1>4. RecordInv
  BY <1>1 DEF Init, RecordInv, HeardOf, SameClaim
<1> QED
  BY <1>2, <1>3, <1>4 DEF IInv

\* Publish adds one claim of its author with a frame id of its own.
LEMMA PublishLemma ==
  ASSUME TypeOK, NEW p \in Authors, NEW ts \in 1..MaxClock, NEW f \in FrameIds,
         NEW w \in BOOLEAN, Publish(p, ts, f, w)
  PROVE  \E m \in Claims :
           /\ m.author = p /\ m.frame = f
           /\ published' = published \cup {m}
           /\ latest' = [latest EXCEPT ![p] = m]
           /\ published' \subseteq Claims
           /\ latest' \in [Authors -> Claims \cup {NoClaim}]
<1> DEFINE m == [author |-> p, ts |-> ts, frame |-> f, withdrawn |-> w]
<1>1. m \in Claims /\ m.author = p /\ m.frame = f
  BY DEF Claims
<1>2. published' = published \cup {m} /\ latest' = [latest EXCEPT ![p] = m]
  BY DEF Publish
<1> HIDE DEF m
<1>3. published' \subseteq Claims
  BY <1>1, <1>2 DEF TypeOK
<1>4. latest' \in [Authors -> Claims \cup {NoClaim}]
  BY <1>1, <1>2 DEF TypeOK
<1> QED
  BY <1>1, <1>2, <1>3, <1>4

\* Each action keeps every variable in its type.
LEMMA TypeStep == TypeOK /\ [Next]_vars => TypeOK'
<1> SUFFICES ASSUME TypeOK, [Next]_vars PROVE TypeOK'
  OBVIOUS
<1>1. ASSUME NEW p \in Authors, NEW ts \in 1..MaxClock, NEW f \in FrameIds,
             mark_complete(p, ts, f)
      PROVE  TypeOK'
  <2>1. p \in Peers
    BY PeersAssumption
  <2>2. \A r \in Replicas : \A b \in BOOLEAN : IsProviderSet(add(index[r], p, b))
    BY <2>1, AddLemma DEF TypeOK
  <2>3. published' \subseteq Claims /\ latest' \in [Authors -> Claims \cup {NoClaim}]
    BY <1>1, PublishLemma DEF mark_complete
  <2>4. PICK b \in BOOLEAN :
          /\ b => p \in Replicas \ offered
          /\ index' = IF p \in Replicas
                      THEN [index EXCEPT ![p] = add(index[p], p, b)] ELSE index
          /\ offered' = IF b THEN offered \cup {p} ELSE offered
    BY <1>1 DEF mark_complete
  <2>6. DOMAIN index' = Replicas /\ \A r \in Replicas : IsProviderSet(index'[r])
    BY <2>2, <2>4 DEF TypeOK
  <2>7. offered' \subseteq Replicas
    BY <2>4 DEF TypeOK
  <2> QED
    BY <1>1, <2>3, <2>6, <2>7 DEF mark_complete, TypeOK
<1>2. ASSUME NEW p \in Authors, NEW ts \in 1..MaxClock, NEW f \in FrameIds,
             announce_withdrawal(p, ts, f) \/ handle_request(p, ts, f)
      PROVE  TypeOK'
  <2>1. published' \subseteq Claims /\ latest' \in [Authors -> Claims \cup {NoClaim}]
    BY <1>2, PublishLemma DEF announce_withdrawal, handle_request
  <2> QED
    BY <1>2, <2>1 DEF announce_withdrawal, handle_request, TypeOK
<1>3. ASSUME NEW r \in Replicas, NEW m \in published, HearClaim(r, m)
      PROVE  TypeOK'
  <2> DEFINE s == record(index[r], m.author, m.ts, m.frame, m.withdrawn)
  <2>1. m \in Claims /\ m.author \in Peers
    BY ClaimType DEF TypeOK
  <2>2. IsProviderSet(s)
    BY <2>1, ClaimType, RecordLemma DEF TypeOK
  <2>3. Known(index[r]) \subseteq Peers
    BY DEF TypeOK, IsProviderSet
  <2> HIDE DEF s
  <2> QED
    BY <1>3, <2>1, <2>2, <2>3 DEF HearClaim, TypeOK, s
<1>4. ASSUME NEW r \in Replicas, NEW p \in Authors, HearOffer(r, p)
      PROVE  TypeOK'
  <2>1. IsProviderSet(add(index[r], p, TRUE))
    BY PeersAssumption, AddLemma DEF TypeOK
  <2> QED
    BY <1>4, <2>1 DEF HearOffer, TypeOK
<1>5. ASSUME NEW r \in Replicas, EvictOffer(r)
      PROVE  TypeOK'
  <2>1. IsProviderSet(EmptySet)
    BY DEF EmptySet, IsProviderSet, Known
  <2>2. Known(index[r]) \subseteq Peers
    BY DEF TypeOK, IsProviderSet
  <2> QED
    BY <1>5, <2>1, <2>2 DEF EvictOffer, TypeOK
<1>6. ASSUME NEW r \in Fetchers, StartDownload(r)
      PROVE  TypeOK'
  <2>1. r \in Replicas /\ Live(index[r]) \subseteq Peers
    BY PeersAssumption DEF TypeOK, IsProviderSet, Live
  <2> QED
    BY <1>6, <2>1 DEF StartDownload, TypeOK
<1>7. ASSUME NEW r \in Fetchers, NEW p \in trying[r],
             ProviderFailed(r, p) \/ ProviderSucceeded(r, p)
      PROVE  TypeOK'
  <2>1. r \in Replicas /\ p \in Peers
    BY PeersAssumption DEF TypeOK
  <2>2. /\ IsProviderSet(mark_failure(index[r], p))
        /\ IsProviderSet(mark_success(index[r], p))
    BY <2>1, MarkLemma DEF TypeOK
  <2> QED
    BY <1>7, <2>1, <2>2 DEF ProviderFailed, ProviderSucceeded, TypeOK
<1>8. CASE UNCHANGED vars
  BY <1>8 DEF vars, TypeOK
<1> QED
  BY <1>1, <1>2, <1>3, <1>4, <1>5, <1>6, <1>7, <1>8 DEF Next

\* Frame ids stay unique, replicas hear only what was published, and
\* `latest` is the author's own claim.
LEMMA HistoryStep == TypeOK /\ HistoryInv /\ [Next]_vars => HistoryInv'
<1> SUFFICES ASSUME TypeOK, HistoryInv, [Next]_vars PROVE HistoryInv'
  OBVIOUS
<1>1. ASSUME NEW p \in Authors, NEW ts \in 1..MaxClock, NEW f \in FrameIds,
             NEW w \in BOOLEAN, Publish(p, ts, f, w), UNCHANGED heard
      PROVE  HistoryInv'
  <2>1. PICK m \in Claims :
          /\ m.author = p /\ m.frame = f
          /\ published' = published \cup {m}
          /\ latest' = [latest EXCEPT ![p] = m]
    BY <1>1, PublishLemma
  <2>2. \A n \in published : n.frame # f
    BY <1>1 DEF Publish, FreshFrame
  <2>3. \A n1, n2 \in published' : n1.frame = n2.frame => n1 = n2
    BY <2>1, <2>2 DEF HistoryInv
  <2>4. \A q \in Authors : latest'[q] # NoClaim =>
          latest'[q] \in published' /\ latest'[q].author = q
    BY <2>1 DEF HistoryInv, TypeOK
  <2>5. \A r \in Replicas : heard'[r] \subseteq published'
    BY <1>1, <2>1 DEF HistoryInv
  <2> QED
    BY <2>3, <2>4, <2>5 DEF HistoryInv
<1>2. ASSUME NEW r \in Replicas, NEW m \in published, HearClaim(r, m)
      PROVE  HistoryInv'
  BY <1>2 DEF HearClaim, HistoryInv, TypeOK
<1>3. CASE UNCHANGED <<published, latest, heard>>
  BY <1>3 DEF HistoryInv
<1>4. ASSUME NEW p \in Authors, NEW ts \in 1..MaxClock, NEW f \in FrameIds,
             \/ mark_complete(p, ts, f)
             \/ announce_withdrawal(p, ts, f)
             \/ handle_request(p, ts, f)
      PROVE  HistoryInv'
  BY <1>1, <1>4 DEF mark_complete, announce_withdrawal, handle_request
<1> QED
  BY <1>2, <1>3, <1>4
     DEF Next, HearOffer, EvictOffer, StartDownload, ProviderFailed,
         ProviderSucceeded, vars

\* A step that leaves every claim on record, heard and dropped as they were
\* leaves RecordInv as it was.
LEMMA RecordFrame ==
  ASSUME RecordInv, UNCHANGED heard,
         \A r \in Replicas : dropped[r] \subseteq dropped'[r],
         \A r \in Replicas : \A p \in Peers \ dropped'[r] :
           SameClaim(EntryOf(index'[r], p), EntryOf(index[r], p))
  PROVE  RecordInv'
<1> SUFFICES ASSUME NEW r \in Replicas, NEW p \in Peers, p \notin dropped'[r]
             PROVE  /\ HeardOf(r, p)' = {} => SameClaim(EntryOf(index'[r], p), DefaultInfo)
                    /\ HeardOf(r, p)' # {} =>
                         \E m \in HeardOf(r, p)' :
                           /\ SaysOnRecord(r, p, m)'
                           /\ \A n \in HeardOf(r, p)' : ~ClaimBefore(m, n)
  BY DEF RecordInv
<1>1. HeardOf(r, p)' = HeardOf(r, p)
  BY DEF HeardOf
<1>2. SameClaim(EntryOf(index'[r], p), EntryOf(index[r], p)) /\ p \notin dropped[r]
  OBVIOUS
<1>3. \A m : SaysOnRecord(r, p, m) => SaysOnRecord(r, p, m)'
  BY <1>2 DEF SaysOnRecord, SameClaim
<1>4. SameClaim(EntryOf(index[r], p), DefaultInfo)
        => SameClaim(EntryOf(index'[r], p), DefaultInfo)
  BY <1>2 DEF SameClaim
<1> QED
  BY <1>1, <1>2, <1>3, <1>4 DEF RecordInv

\* Stamps are totally ordered.
LEMMA BeforeOrder ==
  ASSUME NEW t1 \in Nat, NEW f1 \in Nat, NEW t2 \in Nat, NEW f2 \in Nat,
         NEW t3 \in Nat, NEW f3 \in Nat
  PROVE  /\ ~Before(t1, f1, t1, f1)
         /\ ~Before(t1, f1, 0, 0)
         /\ Before(t1, f1, t2, f2) => ~Before(t2, f2, t1, f1)
         /\ ~Before(t1, f1, t2, f2) /\ ~Before(t2, f2, t3, f3) => ~Before(t1, f1, t3, f3)
         /\ ~Before(t1, f1, t2, f2) /\ ~Before(t2, f2, t1, f1) => t1 = t2 /\ f1 = f2
BY DEF Before

\* The heart of the argument: hearing one more claim keeps the newest one
\* heard on record.
LEMMA HearStep ==
  ASSUME TypeOK, HistoryInv, RecordInv,
         NEW r \in Replicas, NEW m \in published, HearClaim(r, m)
  PROVE  RecordInv'
<1> DEFINE a == m.author
           s == record(index[r], a, m.ts, m.frame, m.withdrawn)
<1>1. m \in Claims /\ a \in Peers /\ m.ts \in Nat /\ m.frame \in Nat
  BY ClaimType DEF TypeOK
<1>2. IsProviderSet(index[r]) /\ m.withdrawn \in BOOLEAN
  BY <1>1, ClaimType DEF TypeOK
<1>3. /\ IsProviderSet(s)
      /\ Known(s) \subseteq Known(index[r]) \cup {a}
      /\ \A p \in Known(s) \ {a} : EntryOf(s, p) = EntryOf(index[r], p)
      /\ a \in Known(s) =>
           IF Stale(index[r], a, m.ts, m.frame) THEN EntryOf(s, a) = EntryOf(index[r], a)
           ELSE /\ EntryOf(s, a).announced
                /\ EntryOf(s, a).announced_at_ms = m.ts
                /\ EntryOf(s, a).last_frame_id = m.frame
                /\ EntryOf(s, a).withdrawn = m.withdrawn
  BY <1>1, <1>2, RecordLemma
<1>4. /\ index' = [index EXCEPT ![r] = s]
      /\ heard' = [heard EXCEPT ![r] = @ \cup {m}]
      /\ dropped' = [dropped EXCEPT ![r] = @ \cup ((Known(index[r]) \cup {a}) \ Known(s))]
  BY DEF HearClaim
<1> HIDE DEF s
<1>5. /\ index'[r] = s
      /\ heard'[r] = heard[r] \cup {m}
      /\ dropped'[r] = dropped[r] \cup ((Known(index[r]) \cup {a}) \ Known(s))
      /\ \A q \in Replicas \ {r} :
           index'[q] = index[q] /\ heard'[q] = heard[q] /\ dropped'[q] = dropped[q]
  BY <1>4 DEF TypeOK
<1> SUFFICES ASSUME NEW q \in Replicas, NEW p \in Peers, p \notin dropped'[q]
             PROVE  /\ HeardOf(q, p)' = {} => SameClaim(EntryOf(index'[q], p), DefaultInfo)
                    /\ HeardOf(q, p)' # {} =>
                         \E n \in HeardOf(q, p)' :
                           /\ SaysOnRecord(q, p, n)'
                           /\ \A k \in HeardOf(q, p)' : ~ClaimBefore(n, k)
  BY DEF RecordInv
<1>6. CASE q # r
  <2>1. HeardOf(q, p)' = HeardOf(q, p) /\ index'[q] = index[q] /\ p \notin dropped[q]
    BY <1>5, <1>6 DEF HeardOf
  <2> QED
    BY <2>1 DEF RecordInv, SaysOnRecord
<1>7. CASE q = r /\ p # a
  <2>1. HeardOf(r, p)' = HeardOf(r, p) /\ p \notin dropped[r]
    BY <1>5, <1>7 DEF HeardOf
  <2>2. EntryOf(s, p) = EntryOf(index[r], p)
    BY <1>2, <1>3, <1>5, <1>7 DEF EntryOf
  <2> QED
    BY <1>5, <1>7, <2>1, <2>2 DEF RecordInv, SaysOnRecord
<1>8. CASE q = r /\ p = a
  <2>1. HeardOf(r, a)' = HeardOf(r, a) \cup {m} /\ m \in HeardOf(r, a)'
    BY <1>5 DEF HeardOf
  <2>2. a \in Known(s) /\ a \notin dropped[r]
    BY <1>5, <1>8
  <2>3. \A n \in HeardOf(r, a) : n.ts \in Nat /\ n.frame \in Nat
    BY ClaimType DEF HeardOf, TypeOK
  <2>4. CASE Stale(index[r], a, m.ts, m.frame)
    <3>1. HeardOf(r, a) # {}
      <4> SUFFICES ASSUME HeardOf(r, a) = {} PROVE FALSE
        OBVIOUS
      <4>1. SameClaim(EntryOf(index[r], a), DefaultInfo)
        BY <1>1, <2>2 DEF RecordInv
      <4> QED
        BY <1>1, <2>4, <4>1, BeforeOrder DEF Stale, SameClaim, DefaultInfo
    <3>2. PICK n \in HeardOf(r, a) :
            /\ SaysOnRecord(r, a, n)
            /\ \A k \in HeardOf(r, a) : ~ClaimBefore(n, k)
      BY <1>1, <2>2, <3>1 DEF RecordInv
    <3>3. Before(m.ts, m.frame, n.ts, n.frame)
      BY <2>4, <3>2 DEF Stale, SaysOnRecord
    <3>4. ~ClaimBefore(n, m)
      BY <1>1, <2>3, <3>3, BeforeOrder DEF ClaimBefore
    <3>5. SaysOnRecord(r, a, n)'
      BY <1>3, <1>5, <2>2, <2>4, <3>2 DEF SaysOnRecord
    <3> QED
      BY <1>8, <2>1, <3>2, <3>4, <3>5
  <2>5. CASE ~Stale(index[r], a, m.ts, m.frame)
    <3>1. SaysOnRecord(r, a, m)'
      BY <1>3, <1>5, <2>2, <2>5 DEF SaysOnRecord
    <3>2. ~ClaimBefore(m, m)
      BY <1>1, BeforeOrder DEF ClaimBefore
    <3>3. ASSUME NEW k \in HeardOf(r, a) PROVE ~ClaimBefore(m, k)
      <4>1. PICK n \in HeardOf(r, a) :
              /\ SaysOnRecord(r, a, n)
              /\ \A x \in HeardOf(r, a) : ~ClaimBefore(n, x)
        BY <1>1, <2>2 DEF RecordInv
      <4>2. ~Before(m.ts, m.frame, n.ts, n.frame)
        BY <2>5, <4>1 DEF Stale, SaysOnRecord
      <4>3. /\ m.ts \in Nat /\ m.frame \in Nat /\ n.ts \in Nat /\ n.frame \in Nat
            /\ k.ts \in Nat /\ k.frame \in Nat
        BY <1>1, <2>3
      <4>4. ~Before(n.ts, n.frame, k.ts, k.frame)
        BY <4>1 DEF ClaimBefore
      <4>5. ~Before(m.ts, m.frame, k.ts, k.frame)
        BY <4>2, <4>3, <4>4 DEF Before
      <4> QED
        BY <4>5 DEF ClaimBefore
    <3> QED
      BY <1>8, <2>1, <3>1, <3>2, <3>3
  <2> QED
    BY <2>4, <2>5
<1> QED
  BY <1>6, <1>7, <1>8

LEMMA RecordStep == TypeOK /\ HistoryInv /\ RecordInv /\ [Next]_vars => RecordInv'
<1> SUFFICES ASSUME TypeOK, HistoryInv, RecordInv, [Next]_vars PROVE RecordInv'
  OBVIOUS
<1> USE DEF TypeOK
<1>0. \A e : SameClaim(e, e)
  BY DEF SameClaim
<1>1. ASSUME NEW p \in Authors, NEW ts \in 1..MaxClock, NEW f \in FrameIds,
             mark_complete(p, ts, f)
      PROVE  RecordInv'
  <2>1. \A r \in Replicas : \A q \in Peers : EntryOf(index'[r], q) = EntryOf(index[r], q)
    <3>1. p \in Peers /\ \A r \in Replicas : IsProviderSet(index[r])
      BY PeersAssumption
    <3>2. \A r \in Replicas : \A q \in Peers : \A b \in BOOLEAN :
            EntryOf(add(index[r], p, b), q) = EntryOf(index[r], q)
      BY <3>1, AddLemma
    <3>3. \E b \in BOOLEAN :
            index' = IF p \in Replicas
                     THEN [index EXCEPT ![p] = add(index[p], p, b)] ELSE index
      BY <1>1 DEF mark_complete
    <3> QED
      BY <3>2, <3>3
  <2> QED
    BY <1>0, <1>1, <2>1, RecordFrame DEF mark_complete
<1>2. ASSUME NEW r \in Replicas, NEW m \in published, HearClaim(r, m)
      PROVE  RecordInv'
  BY <1>2, HearStep
<1>3. ASSUME NEW r \in Replicas, NEW p \in Authors, HearOffer(r, p)
      PROVE  RecordInv'
  <2>1. \A k \in Replicas : \A q \in Peers : EntryOf(index'[k], q) = EntryOf(index[k], q)
    <3>1. p \in Peers /\ IsProviderSet(index[r])
      BY PeersAssumption
    <3>2. \A q \in Peers : EntryOf(add(index[r], p, TRUE), q) = EntryOf(index[r], q)
      BY <3>1, AddLemma
    <3> QED
      BY <1>3, <3>2 DEF HearOffer
  <2> QED
    BY <1>0, <1>3, <2>1, RecordFrame DEF HearOffer
<1>4. ASSUME NEW r \in Replicas, EvictOffer(r)
      PROVE  RecordInv'
  <2>1. \A p \in Peers \ dropped'[r] :
          EntryOf(index'[r], p) = DefaultInfo /\ EntryOf(index[r], p) = DefaultInfo
    <3>1. index'[r] = EmptySet /\ dropped'[r] = dropped[r] \cup Known(index[r])
      BY <1>4 DEF EvictOffer
    <3>2. \A p : EntryOf(EmptySet, p) = DefaultInfo
      BY DEF EntryOf, EmptySet, Known
    <3> QED
      BY <3>1, <3>2 DEF EntryOf
  <2>2. \A k \in Replicas \ {r} : index'[k] = index[k]
    BY <1>4 DEF EvictOffer, TypeOK
  <2>3. heard' = heard /\ \A k \in Replicas : dropped[k] \subseteq dropped'[k]
    BY <1>4 DEF EvictOffer
  <2> QED
    BY <1>0, <2>1, <2>2, <2>3, RecordFrame
<1>5. ASSUME NEW r \in Fetchers, NEW p \in trying[r],
             ProviderFailed(r, p) \/ ProviderSucceeded(r, p)
      PROVE  RecordInv'
  <2>1. r \in Replicas /\ p \in Peers
    BY PeersAssumption
  <2>2. index' \in {[index EXCEPT ![r] = mark_failure(index[r], p)],
                    [index EXCEPT ![r] = mark_success(index[r], p)], index}
    BY <1>5 DEF ProviderFailed, ProviderSucceeded
  <2>3. \A k \in Replicas : \A q \in Peers :
          SameClaim(EntryOf(index'[k], q), EntryOf(index[k], q))
    <3>1. \A q \in Peers :
            /\ SameClaim(EntryOf(mark_failure(index[r], p), q), EntryOf(index[r], q))
            /\ SameClaim(EntryOf(mark_success(index[r], p), q), EntryOf(index[r], q))
      BY <2>1, MarkLemma
    <3>2. \A k \in Replicas \ {r} : index'[k] = index[k]
      BY <2>2
    <3>3. index'[r] \in {mark_failure(index[r], p), mark_success(index[r], p), index[r]}
      BY <2>1, <2>2
    <3> QED
      BY <1>0, <3>1, <3>2, <3>3
  <2> QED
    BY <1>5, <2>3, RecordFrame DEF ProviderFailed, ProviderSucceeded
<1>6. CASE UNCHANGED <<index, heard, dropped>>
  BY <1>0, <1>6, RecordFrame
<1> QED
  BY <1>1, <1>2, <1>3, <1>4, <1>5, <1>6
     DEF Next, announce_withdrawal, handle_request, StartDownload, vars

---------------------------------------------------------------------------
\* Every reachable state satisfies the inductive invariant.
THEOREM Invariance == Spec => []IInv
<1>1. Init => IInv
  BY InitIInv
<1>2. IInv /\ [Next]_vars => IInv'
  BY TypeStep, HistoryStep, RecordStep DEF IInv
<1> QED
  BY <1>1, <1>2, PTL DEF Spec

\* Every variable keeps its type; in particular each replica's index stays a
\* well-formed table over known peers.
THEOREM TypeCorrect == Spec => []TypeOK
<1>1. IInv => TypeOK
  BY DEF IInv
<1> QED
  BY <1>1, Invariance, PTL

\* A claim no heard claim of its author comes after is the one on record.
LEMMA NewestOnRecord ==
  ASSUME IInv, NEW r \in Replicas, NEW p \in Peers, p \notin dropped[r],
         NEW m \in HeardOf(r, p), \A n \in HeardOf(r, p) : ~ClaimBefore(m, n)
  PROVE  SaysOnRecord(r, p, m)
<1>1. PICK n \in HeardOf(r, p) :
        SaysOnRecord(r, p, n) /\ \A k \in HeardOf(r, p) : ~ClaimBefore(n, k)
  BY DEF IInv, RecordInv
<1>2. m \in published /\ n \in published /\ m \in Claims /\ n \in Claims
  BY DEF IInv, HistoryInv, TypeOK, HeardOf
<1>3. /\ m.ts \in Nat /\ m.frame \in Nat /\ n.ts \in Nat /\ n.frame \in Nat
  BY <1>2, ClaimType
<1>4. m.frame = n.frame
  BY <1>1, <1>3 DEF ClaimBefore, Before
<1>5. m = n
  BY <1>2, <1>4 DEF IInv, HistoryInv
<1> QED
  BY <1>1, <1>5

\* The record of an author is its newest claim among those delivered, however
\* they were ordered, delayed and repeated (ProviderSet::record).
THEOREM RecordIsNewest == Spec => []RecordIsNewestHeard
<1>1. IInv => RecordIsNewestHeard
  BY NewestOnRecord DEF RecordIsNewestHeard
<1> QED
  BY <1>1, Invariance, PTL

\* An announced entry is in the table.
LEMMA SaysIsKnown ==
  ASSUME NEW r, NEW p, NEW m, SaysOnRecord(r, p, m)
  PROVE  p \in Known(index[r]) /\ index[r].providers[p].withdrawn = m.withdrawn
BY DEF SaysOnRecord, EntryOf, DefaultInfo

\* Replicas that were handed the same claims of an author agree on whether it
\* serves the blob.
THEOREM ReplicasConverge == Spec => []Convergence
<1>1. ASSUME IInv, NEW r1 \in Replicas, NEW r2 \in Replicas, NEW p \in Peers,
             p \notin dropped[r1], p \notin dropped[r2],
             HeardOf(r1, p) = HeardOf(r2, p), HeardOf(r1, p) # {}
      PROVE  p \in Live(index[r1]) <=> p \in Live(index[r2])
  <2>1. PICK m \in HeardOf(r1, p) :
          SaysOnRecord(r1, p, m) /\ \A n \in HeardOf(r1, p) : ~ClaimBefore(m, n)
    BY <1>1 DEF IInv, RecordInv
  <2>2. SaysOnRecord(r2, p, m)
    BY <1>1, <2>1, NewestOnRecord
  <2> QED
    BY <2>1, <2>2, SaysIsKnown DEF Live
<1>2. IInv => Convergence
  BY <1>1 DEF Convergence
<1> QED
  BY <1>2, Invariance, PTL

\* A withdrawal stamped later than its author's other claims is final on every
\* replica that heard it and did not drop the entry.
THEOREM WithdrawalIsFinal == Spec => []WithdrawalSticksUnlessDropped
<1>1. ASSUME IInv, NEW r \in Replicas, NEW p \in Authors, p \notin dropped[r],
             latest[p] # NoClaim, latest[p].withdrawn, latest[p] \in heard[r],
             \A m \in published : m.author = p /\ m # latest[p] => m.ts < latest[p].ts
      PROVE  p \notin Live(index[r])
  <2>1. p \in Peers /\ latest[p] \in HeardOf(r, p)
    BY <1>1, PeersAssumption DEF IInv, HistoryInv, HeardOf
  <2>2. ASSUME NEW n \in HeardOf(r, p) PROVE ~ClaimBefore(latest[p], n)
    <3>1. n \in published /\ n \in Claims /\ n.author = p /\ latest[p] \in Claims
      BY <1>1 DEF IInv, HistoryInv, TypeOK, HeardOf
    <3>2. /\ n.ts \in Nat /\ n.frame \in Nat
          /\ latest[p].ts \in Nat /\ latest[p].frame \in Nat
      BY <3>1, ClaimType
    <3>3. n = latest[p] \/ n.ts < latest[p].ts
      BY <1>1, <3>1
    <3> QED
      BY <3>2, <3>3 DEF ClaimBefore, Before
  <2>3. SaysOnRecord(r, p, latest[p])
    BY <1>1, <2>1, <2>2, NewestOnRecord
  <2> QED
    BY <1>1, <2>3, SaysIsKnown DEF Live
<1>2. IInv => WithdrawalSticksUnlessDropped
  BY <1>1 DEF WithdrawalSticksUnlessDropped
<1> QED
  BY <1>2, Invariance, PTL
---------------------------------------------------------------------------
\* The refinement of NewestClaims.  View is the abstract state.
View == [r \in Replicas |-> [p \in Peers |-> ClaimOnRecord(r, p)]]

\* A step that leaves every claim on record as it was does not move the view.
LEMMA ViewFrame ==
  ASSUME \A r \in Replicas : \A p \in Peers :
           SameClaim(EntryOf(index'[r], p), EntryOf(index[r], p))
  PROVE  View' = View
<1>1. \A r \in Replicas : \A p \in Peers : ClaimOnRecord(r, p)' = ClaimOnRecord(r, p)
  BY DEF ClaimOnRecord, SameClaim
<1> QED
  BY <1>1 DEF View

\* A claim that is not stale supersedes the one on record.
LEMMA FreshSupersedes ==
  ASSUME TypeOK, NEW r \in Replicas, NEW m \in Claims,
         ~Stale(index[r], m.author, m.ts, m.frame), NEW d,
         d = [ts |-> m.ts, frame |-> m.frame, withdrawn |-> m.withdrawn]
  PROVE  /\ d \in [ts : 1..MaxClock, frame : FrameIds, withdrawn : BOOLEAN]
         /\ Abstract!Supersedes(d, ClaimOnRecord(r, m.author))
<1> DEFINE e == EntryOf(index[r], m.author)
           c == ClaimOnRecord(r, m.author)
<1>1. m.ts \in 1..MaxClock /\ m.frame \in FrameIds /\ m.withdrawn \in BOOLEAN
  BY DEF Claims
<1>2. /\ m.author \in Peers /\ m.ts \in Nat /\ m.frame \in Nat
  BY ClaimType
<1>3. e.announced_at_ms \in Nat /\ e.last_frame_id \in Nat
  BY <1>2, EntryType DEF TypeOK, ProviderInfo
<1>4. ~Before(m.ts, m.frame, e.announced_at_ms, e.last_frame_id)
  BY DEF Stale
<1>5. c # NoClaim => c.ts = e.announced_at_ms /\ c.frame = e.last_frame_id
  BY DEF ClaimOnRecord
<1>6. d.ts = m.ts /\ d.frame = m.frame
  OBVIOUS
<1> HIDE DEF e, c
<1>7. c # NoClaim => d.ts > c.ts \/ (d.ts = c.ts /\ d.frame >= c.frame)
  BY <1>2, <1>3, <1>4, <1>5, <1>6 DEF Before
<1>8. Abstract!Supersedes(d, c)
  BY <1>7 DEF Abstract!Supersedes
<1> QED
  BY <1>1, <1>8 DEF c

\* Hearing a claim is a step of NewestClaims or leaves the view as it was.
LEMMA HearRefines ==
  ASSUME TypeOK, NEW r \in Replicas, NEW m \in published, HearClaim(r, m)
  PROVE  View' = View \/ Abstract!Next
<1> DEFINE p == m.author
           s == index[r]
           t == record(s, p, m.ts, m.frame, m.withdrawn)
           d == [ts |-> m.ts, frame |-> m.frame, withdrawn |-> m.withdrawn]
<1>1. m \in Claims /\ p \in Peers
  BY ClaimType DEF TypeOK
<1>2. /\ m.ts \in Nat /\ m.frame \in Nat /\ m.withdrawn \in BOOLEAN
      /\ IsProviderSet(s)
  BY <1>1, ClaimType DEF TypeOK
<1>3. index'[r] = t /\ \A k \in Replicas \ {r} : index'[k] = index[k]
  BY DEF HearClaim, TypeOK
<1>4. /\ IsProviderSet(t)
      /\ \A q \in Known(t) \ {p} : EntryOf(t, q) = EntryOf(s, q)
      /\ p \in Known(t) =>
           IF Stale(s, p, m.ts, m.frame) THEN EntryOf(t, p) = EntryOf(s, p)
           ELSE /\ EntryOf(t, p).announced /\ EntryOf(t, p).announced_at_ms = m.ts
                /\ EntryOf(t, p).last_frame_id = m.frame
                /\ EntryOf(t, p).withdrawn = m.withdrawn
  BY <1>1, <1>2, RecordLemma
<1>5. \A q : q \notin Known(t) => ~EntryOf(t, q).announced
  BY DEF EntryOf, DefaultInfo
<1>6. CASE Stale(s, p, m.ts, m.frame)
  <2>1. t = WithEntry(s, p, EntryOf(s, p))
    BY <1>6 DEF record
  <2>2. \A q \in Peers : EntryOf(t, q) = EntryOf(s, q)
    <3>1. EntryOf(s, p) \in ProviderInfo
      BY <1>1, <1>2, EntryType
    <3> HIDE DEF s, t, p
    <3> QED
      BY <1>1, <1>2, <2>1, <3>1, WithEntryLemma
  <2>3. \A k \in Replicas : \A q \in Peers :
          SameClaim(EntryOf(index'[k], q), EntryOf(index[k], q))
    <3> HIDE DEF t
    <3> QED
      BY <1>3, <2>2 DEF SameClaim
  <2> QED
    BY <2>3, ViewFrame
<1>7. CASE ~Stale(s, p, m.ts, m.frame)
  <2>1. /\ d \in [ts : 1..MaxClock, frame : FrameIds, withdrawn : BOOLEAN]
        /\ Abstract!Supersedes(d, ClaimOnRecord(r, p))
    BY <1>1, <1>7, FreshSupersedes
  <2>2. ClaimOnRecord(r, p)' \in {NoClaim, d}
    <3> HIDE DEF t, s
    <3>1. EntryOf(index'[r], p) = EntryOf(t, p)
      BY <1>3
    <3> QED
      BY <1>4, <1>5, <1>7, <3>1 DEF ClaimOnRecord
  <2>3. \A q \in Peers \ {p} : ClaimOnRecord(r, q)' \in {ClaimOnRecord(r, q), NoClaim}
    <3> HIDE DEF t
    <3> QED
      BY <1>3, <1>4, <1>5 DEF ClaimOnRecord
  <2>4. \A k \in Replicas \ {r} : \A q \in Peers : ClaimOnRecord(k, q)' = ClaimOnRecord(k, q)
    BY <1>3 DEF ClaimOnRecord
  <2>5. Abstract!Hear(r, p)
    BY <1>1, <2>1, <2>2, <2>3, <2>4 DEF Abstract!Hear
  <2> QED
    BY <1>1, <2>5 DEF Abstract!Next
<1> QED
  BY <1>6, <1>7
\* Evicting the offer forgets every claim of the replica at once.
LEMMA EvictRefines ==
  ASSUME TypeOK, NEW r \in Replicas, EvictOffer(r)
  PROVE  View' = View \/ Abstract!Next
<1>1. index'[r] = EmptySet /\ \A k \in Replicas \ {r} : index'[k] = index[k]
  BY DEF EvictOffer, TypeOK
<1>2. \A q \in Peers : ClaimOnRecord(r, q)' = NoClaim
  <2>1. \A q : ~EntryOf(EmptySet, q).announced
    BY DEF EntryOf, EmptySet, DefaultInfo, Known
  <2> QED
    BY <1>1, <2>1 DEF ClaimOnRecord
<1>3. \A k \in Replicas \ {r} : \A q \in Peers : ClaimOnRecord(k, q)' = ClaimOnRecord(k, q)
  BY <1>1 DEF ClaimOnRecord
<1>4. CASE Peers = {}
  BY <1>4 DEF View
<1>5. ASSUME NEW p \in Peers PROVE Abstract!Hear(r, p)
  BY <1>2, <1>3 DEF Abstract!Hear
<1> QED
  BY <1>4, <1>5 DEF Abstract!Next

\* add and the failure counts leave every claim on record as it was.
LEMMA BookkeepingRefines ==
  ASSUME TypeOK, NEW r \in Replicas, NEW p \in Peers, NEW t,
         \/ \E b \in BOOLEAN : t = add(index[r], p, b)
         \/ t \in {mark_failure(index[r], p), mark_success(index[r], p)},
         index' = [index EXCEPT ![r] = t]
  PROVE  View' = View
<1>1. IsProviderSet(index[r])
  BY DEF TypeOK
<1>2. \A q \in Peers : SameClaim(EntryOf(t, q), EntryOf(index[r], q))
  <2>1. CASE \E b \in BOOLEAN : t = add(index[r], p, b)
    <3>1. \A q \in Peers : EntryOf(t, q) = EntryOf(index[r], q)
      BY <1>1, <2>1, AddLemma
    <3> QED
      BY <3>1 DEF SameClaim
  <2>2. CASE t \in {mark_failure(index[r], p), mark_success(index[r], p)}
    BY <1>1, <2>2, MarkLemma
  <2> QED
    BY <2>1, <2>2
<1>3. index'[r] = t /\ \A k \in Replicas \ {r} : index'[k] = index[k]
  BY DEF TypeOK
<1>4. \A k \in Replicas : \A q \in Peers :
        SameClaim(EntryOf(index'[k], q), EntryOf(index[k], q))
  BY <1>2, <1>3 DEF SameClaim
<1> QED
  BY <1>4, ViewFrame

\* Every step of the gossip is a step of NewestClaims or a stutter.
LEMMA StepRefines == TypeOK /\ [Next]_vars => View' = View \/ Abstract!Next
<1> SUFFICES ASSUME TypeOK, [Next]_vars PROVE View' = View \/ Abstract!Next
  OBVIOUS
<1>1. CASE UNCHANGED index
  BY <1>1, ViewFrame DEF SameClaim
<1>2. ASSUME NEW p \in Authors, NEW ts \in 1..MaxClock, NEW f \in FrameIds,
             mark_complete(p, ts, f)
      PROVE  View' = View
  <2>1. PICK b \in BOOLEAN :
          index' = IF p \in Replicas
                   THEN [index EXCEPT ![p] = add(index[p], p, b)] ELSE index
    BY <1>2 DEF mark_complete
  <2>2. CASE p \in Replicas
    BY <2>1, <2>2, BookkeepingRefines, PeersAssumption
  <2>3. CASE p \notin Replicas
    BY <2>1, <2>3, ViewFrame DEF SameClaim
  <2> QED
    BY <2>2, <2>3
<1>3. ASSUME NEW r \in Replicas, NEW p \in Authors, HearOffer(r, p)
      PROVE  View' = View
  BY <1>3, BookkeepingRefines, PeersAssumption DEF HearOffer
<1>4. ASSUME NEW r \in Fetchers, NEW p \in trying[r],
             ProviderFailed(r, p) \/ ProviderSucceeded(r, p)
      PROVE  View' = View
  <2>1. r \in Replicas /\ p \in Peers
    BY PeersAssumption DEF TypeOK
  <2>2. \/ UNCHANGED index
        \/ index' = [index EXCEPT ![r] = mark_failure(index[r], p)]
        \/ index' = [index EXCEPT ![r] = mark_success(index[r], p)]
    BY <1>4 DEF ProviderFailed, ProviderSucceeded
  <2>3. CASE UNCHANGED index
    BY <2>3, ViewFrame DEF SameClaim
  <2> QED
    BY <2>1, <2>2, <2>3, BookkeepingRefines
<1> QED
  BY <1>1, <1>2, <1>3, <1>4, HearRefines, EvictRefines
     DEF Next, announce_withdrawal, handle_request, StartDownload, vars

\* The provider index implements NewestClaims: whatever order claims arrive
\* in, a replica's claim of an author only ever moves forward in that
\* author's own order, or is forgotten.
THEOREM Refinement == Spec => NewestClaimsImplemented
<1>1. Init => Abstract!Init
  <2> SUFFICES ASSUME Init PROVE Abstract!Init
    OBVIOUS
  <2>1. \A r \in Replicas : \A p \in Peers : ClaimOnRecord(r, p) = NoClaim
    BY DEF Init, ClaimOnRecord, EntryOf, EmptySet, DefaultInfo, Known
  <2> QED
    BY <2>1 DEF Abstract!Init
<1>2. TypeOK /\ [Next]_vars =>
        Abstract!Next \/ UNCHANGED [r \in Replicas |-> [p \in Peers |-> ClaimOnRecord(r, p)]]
  BY StepRefines DEF View
<1> QED
  BY <1>1, <1>2, TypeCorrect, PTL DEF Spec, NewestClaimsImplemented, Abstract!Spec

---------------------------------------------------------------------------
(* The order of attempts. *)

\* A set of natural numbers that is not empty has a smallest element.
LEMMA SmallestExists ==
  ASSUME NEW T \in SUBSET Nat, T # {}
  PROVE  \E x \in T : \A y \in T : x <= y
<1> DEFINE R == OpToRel(<, Nat)
<1>1. PICK x \in T : \A y \in T : ~(<<y, x>> \in R)
  BY WFMin, NatLessThanWellFounded
<1>2. \A y \in T : ~(y < x) /\ x \in Nat /\ y \in Nat
  BY <1>1 DEF OpToRel
<1> QED
  BY <1>2

\* Among any candidates there is one that is tried before every other: of
\* those with the fewest failures the original offerer, or else the peer with
\* the smallest id.  So the sort of ordered_excluding has a first element.
LEMMA FirstExists ==
  ASSUME NEW s, IsProviderSet(s), NEW C \in SUBSET Known(s), C # {}
  PROVE  \E p \in C : \A q \in C : q # p => TriedBefore(s, p, q)
<1> DEFINE fails(p) == s.providers[p].failures
<1>1. \A p \in C : p \in Nat /\ fails(p) \in Nat
  BY PeersAssumption DEF IsProviderSet, ProviderInfo
<1>2. PICK n \in {fails(p) : p \in C} : \A m \in {fails(p) : p \in C} : n <= m
  <2>1. {fails(p) : p \in C} \in SUBSET Nat /\ {fails(p) : p \in C} # {}
    BY <1>1
  <2> QED
    BY <2>1, SmallestExists
<1> DEFINE D == {p \in C : fails(p) = n}
<1>3. D \in SUBSET Nat /\ D # {} /\ n \in Nat
  BY <1>1, <1>2
<1>4. \A p \in D, q \in C \ D : TriedBefore(s, p, q)
  <2> SUFFICES ASSUME NEW p \in D, NEW q \in C \ D PROVE fails(p) < fails(q)
    BY DEF TriedBefore
  <2>1. fails(p) = n /\ n <= fails(q) /\ fails(q) # n /\ fails(q) \in Nat
    BY <1>1, <1>2
  <2> QED
    BY <1>3, <2>1
<1>5. CASE s.original \in D
  <2>1. \A q \in D : q # s.original => TriedBefore(s, s.original, q)
    BY <1>5 DEF TriedBefore
  <2> QED
    BY <1>4, <1>5, <2>1
<1>6. CASE s.original \notin D
  <2>1. PICK p \in D : \A q \in D : p <= q
    BY <1>3, SmallestExists
  <2>2. \A q \in D : q # p => p < q
    BY <1>3, <2>1
  <2>3. \A q \in D : q # p => TriedBefore(s, p, q)
    BY <1>6, <2>1, <2>2 DEF TriedBefore
  <2> QED
    BY <1>4, <2>1, <2>3
<1> QED
  BY <1>5, <1>6

\* Whatever claims, failures, evictions and offers came before, a download
\* never turns to another peer before the original offerer unless that peer
\* has failed less often; for any table and any number of peers.
THEOREM OriginalIsPreferred == Spec => []OriginalFirstAmongEquals
<1>1. TypeOK => OriginalFirstAmongEquals
  <2> SUFFICES ASSUME TypeOK, NEW r \in Replicas,
                      index[r].original \in Live(index[r]) \ {r},
                      FirstTried(index[r], r) # index[r].original
               PROVE  EntryOf(index[r], FirstTried(index[r], r)).failures
                        < EntryOf(index[r], index[r].original).failures
    BY DEF OriginalFirstAmongEquals
  <2> DEFINE s == index[r]
             o == s.original
             C == Live(s) \ {r}
             f == FirstTried(s, r)
  <2>1. IsProviderSet(s) /\ C \in SUBSET Known(s) /\ o \in C
    BY DEF TypeOK, Live
  <2>2. \E p \in C : \A q \in C : q # p => TriedBefore(s, p, q)
    BY <2>1, FirstExists
  <2>3. f \in C /\ \A q \in C : q # f => TriedBefore(s, f, q)
    BY <2>2 DEF FirstTried
  <2>4. TriedBefore(s, f, o)
    BY <2>1, <2>3
  <2>5. s.providers[f].failures < s.providers[o].failures
    BY <2>4 DEF TriedBefore
  <2> QED
    BY <2>1, <2>3, <2>5 DEF EntryOf
<1> QED
  BY <1>1, TypeCorrect, PTL
=============================================================================
