------------------------- MODULE CatchupSync_proofs -------------------------
(***************************************************************************)
(* Proofs about CatchupSync for any nodes, frames, sizes and bounds: a     *)
(* pull that runs to its end unhindered misses nothing the peer had, every *)
(* pull has finitely many steps, and the retained log keeps within its     *)
(* bounds.                                                                 *)
(***************************************************************************)
EXTENDS CatchupSync, SequenceTheorems, FiniteSetTheorems, FunctionTheorems,
        WellFoundedInduction, NaturalsInduction, TLAPS

Logs == [frames : Seq(Frames), start : Nat, unknown : Nat, unknown_bytes : Nat]
PeerLists == Seq(Nodes) \ {<<>>}
Pulls ==
  {Idle} \cup [pc : {"connect"}, peers : PeerLists]
    \cup [pc : {"request"}, peers : PeerLists, cursor : Nat, pages : Nat, total : Nat,
          total_bytes : Nat]
    \cup [pc : {"replay"}, peers : PeerLists, cursor : Nat, pages : Nat, total : Nat,
          total_bytes : Nat, frames : Seq(Frames), next_cursor : Nat \cup {None}]

Typed ==
  /\ log \in [Nodes -> Logs] /\ seen \in [Nodes -> Seq(Frames)]
  /\ task \in [Nodes -> Pulls] /\ applied \in [Nodes -> SUBSET Frames]
  /\ pending \in [Nodes -> SUBSET Frames] /\ DOMAIN owed = Nodes
  /\ lossy \in [Nodes -> BOOLEAN]

\* What a page from cursor c has or had of frame f: it is at c or beyond, or
\* the log has moved past c.
Ahead(l, c, f) ==
  \/ c < l.start
  \/ \E i \in DOMAIN l.frames : l.frames[i] = f /\ l.start + i - 1 >= c

\* A frame owed is applied, on the page being replayed, or ahead.
Covered(n, f) ==
  LET t == task[n] IN
  \/ f \in applied[n]
  \/ t.pc = "request" /\ Ahead(log[Head(t.peers)], t.cursor, f)
  \/ t.pc = "replay" /\ \E i \in DOMAIN t.frames : t.frames[i] = f
  \/ t.pc = "replay" /\ t.next_cursor # None /\ Ahead(log[Head(t.peers)], t.next_cursor, f)

\* The pull of n: it starts at the beginning, only the first page is asked
\* for there, and it covers what it owes unless it knows to be lossy; a peer
\* that does not serve n owes it nothing.
PullInv(n) ==
  LET t == task[n] IN
  /\ t.pc = "request" => (t.pages = 0 <=> t.cursor = 0)
  /\ t.pc = "replay" => t.pages # 0
  /\ (t.pc = "request" /\ t.pages # 0) \/ t.pc = "replay"
       => /\ lossy[n] \/ \A f \in owed[n] : Covered(n, f)
          /\ Serves(Head(t.peers), n) \/ owed[n] = {}

CatchupInv ==
  /\ Typed
  /\ \A n \in Nodes : InCache(n) \subseteq applied[n]
  /\ \A n \in Nodes : PullInv(n)

---------------------------------------------------------------------------
\* The least and the greatest of some numbers up to a bound.
LEMMA MinOfSome ==
  ASSUME NEW S, S \subseteq Nat, S # {}
  PROVE  Min(S) \in S
<1> DEFINE R == OpToRel(<, Nat)
<1>1. PICK x \in S : \A y \in S : ~(<<y, x>> \in R)
  BY WFMin, NatLessThanWellFounded
<1>0. \A y \in S : ~(y < x)
  BY <1>1 DEF OpToRel
<1>2. \A y \in S : x <= y
  BY <1>0
<1> HIDE DEF R
<1>3. \E m \in S : \A y \in S : m =< y
  BY <1>2
<1> QED BY <1>3, Zenon DEF Min

\* The greatest.
LEMMA MaxOfSome ==
  ASSUME NEW N \in Nat, NEW S, S \subseteq 0..N, S # {}
  PROVE  Max(S) \in S
<1> DEFINE T == {n \in Nat : N - n \in S}
           R == OpToRel(<, Nat)
<1>1. T \subseteq Nat /\ T # {}
  <2>1. PICK y \in S : TRUE
    OBVIOUS
  <2>2. N - y \in Nat /\ N - (N - y) = y
    BY <2>1
  <2> QED BY <2>1, <2>2
<1>2. PICK x \in T : \A y \in T : ~(<<y, x>> \in R)
  BY <1>1, WFMin, NatLessThanWellFounded
<1>3. \A y \in T : ~(y < x)
  BY <1>2, <1>1 DEF OpToRel
<1>4. N - x \in S /\ \A y \in S : N - x >= y
  <2>1. ASSUME NEW y \in S PROVE N - x >= y
    <3>1. N - y \in Nat /\ N - (N - y) = y
      BY <2>1
    <3>2. N - y \in T
      BY <3>1
    <3> QED BY <3>1, <3>2, <1>3, <1>1
  <2> QED BY <2>1
<1> HIDE DEF T, R
<1>5. \E m \in S : \A y \in S : m >= y
  BY <1>4
<1> QED BY <1>5, Zenon DEF Max

\* retain_frame: a log stays a log, and what was ahead of a cursor stays so.
LEMMA RetainKeeps ==
  ASSUME NEW l \in Logs, NEW f \in Frames
  PROVE  /\ retain_frame(l, f) \in Logs
         /\ \A g : \A c \in Nat : Ahead(l, c, g) => Ahead(retain_frame(l, f), c, g)
<1> DEFINE s == l.frames
           k == Evictions(s, f)
<1>1. s \in Seq(Frames) /\ Len(s) \in Nat /\ DOMAIN s = 1..Len(s) /\ l.start \in Nat
  BY DEF Logs
<1>2. k \in 0..Len(s)
  <2> DEFINE S == {j \in 0..Len(s) :
                     \/ j = Len(s)
                     \/ /\ Len(SubSeq(s, j + 1, Len(s))) < SYNC_LOG_CAP
                        /\ Bytes(SubSeq(s, j + 1, Len(s))) + Size[f] <= SYNC_LOG_MAX_BYTES}
  <2>1. S \subseteq 0..Len(s) /\ Len(s) \in S
    BY <1>1
  <2>2. k = Min(S)
    BY Zenon DEF Evictions
  <2> HIDE DEF S, k, s
  <2>3. S \subseteq Nat /\ S # {}
    BY <1>1, <2>1
  <2> QED BY <2>1, <2>2, <2>3, MinOfSome
<1> HIDE DEF k
<1>3. PICK u : u = SubSeq(s, k + 1, Len(s))
  OBVIOUS
<1>4. /\ u \in Seq(Frames) /\ Len(u) = Len(s) - k
      /\ \A i \in 1..(Len(s) - k) : u[i] = s[i + k]
  BY <1>1, <1>2, <1>3
<1>5. PICK v : v = Append(u, f)
  OBVIOUS
<1>6. /\ v \in Seq(Frames) /\ DOMAIN v = 1..(Len(s) - k + 1)
      /\ \A i \in 1..(Len(s) - k) : v[i] = s[i + k]
  BY <1>1, <1>2, <1>4, <1>5, AppendProperties
<1>7. PICK m : m = retain_frame(l, f)
  OBVIOUS
<1>8. PICK b : b = l.start + k
  OBVIOUS
<1>9. m \in Logs /\ m.frames = v /\ m.start = l.start + k /\ b \in Nat
  <2>1. m = [l EXCEPT !.frames = v, !.start = b]
    BY <1>3, <1>5, <1>7, <1>8 DEF retain_frame, k
  <2>2. b \in Nat /\ v \in Seq(Frames)
    BY <1>1, <1>2, <1>6, <1>8
  <2>3. m \in Logs /\ m.frames = v /\ m.start = b
    BY <2>1, <2>2 DEF Logs
  <2> QED BY <1>8, <2>2, <2>3
<1>10. ASSUME NEW c \in Nat, NEW g, Ahead(l, c, g) PROVE Ahead(m, c, g)
  <2>1. CASE c < l.start
    BY <1>1, <1>2, <1>9, <2>1 DEF Ahead
  <2>2. CASE \E i \in DOMAIN s : s[i] = g /\ l.start + i - 1 >= c
    <3>1. PICK i \in DOMAIN s : s[i] = g /\ l.start + i - 1 >= c
      BY <2>2
    <3>2. CASE i <= k
      BY <1>1, <1>2, <1>9, <3>1, <3>2 DEF Ahead
    <3>3. CASE i > k
      <4>1. i - k \in 1..(Len(s) - k) /\ (i - k) + k = i /\ i - k \in DOMAIN v
        BY <1>1, <1>2, <1>6, <3>3
      <4>2. v[i - k] = g /\ m.start + (i - k) - 1 >= c
        <5>1. v[i - k] = g
          BY <1>6, <3>1, <4>1
        <5>2. l.start + k + (i - k) - 1 >= c
          BY <1>1, <1>2, <3>1
        <5> QED BY <1>9, <5>1, <5>2
      <4> QED BY <1>9, <4>1, <4>2 DEF Ahead
    <3> QED BY <1>1, <1>2, <3>2, <3>3
  <2> QED BY <1>10, <2>1, <2>2 DEF Ahead
<1> QED BY <1>7, <1>9, <1>10

\* Retain: the same, whatever the kind of the frame.
LEMMA RetainGrows ==
  ASSUME Typed, NEW n \in Nodes, NEW f \in Frames
  PROVE  /\ Retain(n, f) \in Logs
         /\ \A g : \A c \in Nat : Ahead(log[n], c, g) => Ahead(Retain(n, f), c, g)
<1>1. log[n] \in Logs
  BY DEF Typed
<1>2. PICK l : l = log[n]
  OBVIOUS
<1>3. l \in Logs /\ l.unknown \in Nat /\ l.unknown_bytes \in Nat /\ Size[f] \in Nat
  BY <1>1, <1>2, LogAssumption DEF Logs
<1>4. PICK m : m = [l EXCEPT !.unknown = @ + 1, !.unknown_bytes = @ + Size[f]]
  OBVIOUS
<1>5. m \in Logs /\ m.frames = l.frames /\ m.start = l.start
  <2>1. PICK a : a = l.unknown + 1
    OBVIOUS
  <2>2. PICK b : b = l.unknown_bytes + Size[f]
    OBVIOUS
  <2>3. a \in Nat /\ b \in Nat
    BY <1>3, <2>1, <2>2
  <2>4. m = [l EXCEPT !.unknown = a, !.unknown_bytes = b]
    BY <1>4, <2>1, <2>2
  <2> QED BY <1>3, <2>3, <2>4 DEF Logs
<1>6. \A c, g : Ahead(l, c, g) <=> Ahead(m, c, g)
  BY <1>5 DEF Ahead
<1>7. Retain(n, f) \in {l, retain_frame(l, f), retain_frame(m, f)}
  BY <1>2, <1>4 DEF Retain, retain_unknown_frame
<1> QED BY <1>2, <1>3, <1>5, <1>6, <1>7, RetainKeeps

\* A page has the frames from its cursor up to where the next begins.
LEMMA PageCovers ==
  ASSUME NEW l \in Logs, NEW cursor \in Nat, NEW max \in Nat \ {0}
  PROVE  LET p == page(l, cursor, max) IN
         /\ p.frames \in Seq(Frames) /\ p.next_cursor \in Nat \cup {None}
         /\ p.truncated = (cursor # 0 /\ cursor < l.start)
         /\ \A i \in DOMAIN l.frames : l.start + i - 1 >= cursor =>
              \/ \E j \in DOMAIN p.frames : p.frames[j] = l.frames[i]
              \/ p.next_cursor # None /\ l.start + i - 1 >= p.next_cursor
<1> DEFINE s == l.frames
           q == sync_frames(l, cursor, max)
           p == page(l, cursor, max)
           first == IF cursor > l.start THEN cursor - l.start ELSE 0
           last == IF first + max < Len(s) THEN first + max ELSE Len(s)
           kept == WithinBudget(q.frames)
           cut == Len(q.frames) - kept
<1>1. s \in Seq(Frames) /\ Len(s) \in Nat /\ DOMAIN s = 1..Len(s) /\ l.start \in Nat
  BY DEF Logs
<1>2. first \in Nat /\ last \in Nat /\ last <= Len(s) /\ (first < Len(s) => first < last)
      /\ (cursor > l.start => first = cursor - l.start) /\ (~(cursor > l.start) => first = 0)
  BY <1>1
<1>3. q.oldest_cursor = l.start
  BY DEF sync_frames
<1>4. /\ first >= Len(s) => q.frames = <<>> /\ q.end_cursor = End(l)
      /\ ~(first >= Len(s)) => /\ q.frames = SubSeq(s, first + 1, last) /\ q.end_cursor = l.start + last
                               /\ q.caught_up => last = Len(s)
  BY DEF sync_frames
<1>5. /\ p.frames = SubSeq(q.frames, 1, kept)
      /\ p.next_cursor = IF q.caught_up /\ cut = 0 THEN None ELSE q.end_cursor - cut
      /\ p.truncated = (cursor # 0 /\ cursor < q.oldest_cursor)
  BY DEF page
<1>6. PICK w : w = q.frames
  OBVIOUS
<1>12. cut = Len(w) - kept
  BY <1>6
<1> HIDE DEF q, p, first, last, kept, cut, s
<1>7. /\ Len(s) <= first => w \in Seq(Frames) /\ Len(w) = 0
      /\ first < Len(s) => /\ w \in Seq(Frames) /\ Len(w) = last - first
                           /\ \A j \in 1..(last - first) : w[j] = s[first + j]
  <2>1. ASSUME Len(s) <= first PROVE w \in Seq(Frames) /\ Len(w) = 0
    <3>1. first >= Len(s)
      BY <1>1, <1>2, <2>1
    <3>2. w = <<>>
      BY <1>4, <1>6, <3>1
    <3> QED BY <3>2
  <2>2. ASSUME first < Len(s)
        PROVE  /\ w \in Seq(Frames) /\ Len(w) = last - first
               /\ \A j \in 1..(last - first) : w[j] = s[first + j]
    <3>0. ~(first >= Len(s)) /\ first < last
      BY <1>1, <1>2, <2>2
    <3>1. w = SubSeq(s, first + 1, last)
      BY <1>4, <1>6, <3>0
    <3>2. \A i \in (first + 1)..last : s[i] \in Frames
      BY <1>1, <1>2
    <3>3. /\ w \in Seq(Frames) /\ Len(w) = last - (first + 1) + 1
          /\ \A j \in 1..(last - (first + 1) + 1) : w[j] = s[(first + 1) + j - 1]
      BY <1>2, <3>0, <3>1, <3>2, SubSeqProperties
    <3>4. last - (first + 1) + 1 = last - first
      BY <1>2
    <3>5. \A j \in 1..(last - first) : (first + 1) + j - 1 = first + j
      BY <1>2
    <3> QED BY <3>3, <3>4, <3>5
  <2> QED BY <2>1, <2>2
<1>8. Len(w) \in Nat /\ w \in Seq(Frames)
  BY <1>1, <1>2, <1>7
<1>9. kept \in 0..Len(w)
  <2> DEFINE S == {k \in 0..Len(w) : k = 0 \/ Bytes(SubSeq(w, 1, k)) <= MAX_RESPONSE_BYTES}
  <2>1. S \subseteq 0..Len(w) /\ 0 \in S
    BY <1>8
  <2>2. kept = Max(S)
    BY <1>6, Zenon DEF WithinBudget, kept
  <2> HIDE DEF S
  <2>3. S # {}
    BY <2>1
  <2> QED BY <1>8, <2>1, <2>2, <2>3, MaxOfSome
<1>10. PICK x : x = p.frames
  OBVIOUS
<1>11. x \in Seq(Frames) /\ Len(x) = kept /\ DOMAIN x = 1..kept /\ \A j \in 1..kept : x[j] = w[j]
  BY <1>5, <1>6, <1>8, <1>9, <1>10
<1>13. PICK st : st = l.start
  OBVIOUS
<1>14. PICK N : N = Len(s)
  OBVIOUS
<1>15. PICK W : W = Len(w)
  OBVIOUS
<1>16. /\ st \in Nat /\ N \in Nat /\ W \in Nat /\ first \in Nat /\ last \in Nat /\ kept \in Nat
       /\ last <= N /\ kept <= W /\ cut = W - kept /\ (first < N => first < last)
       /\ (N <= first => W = 0) /\ (first < N => W = last - first)
       /\ (cursor > st => first = cursor - st) /\ (~(cursor > st) => first = 0)
  BY <1>1, <1>2, <1>7, <1>8, <1>9, <1>12, <1>13, <1>14, <1>15
<1>17. /\ N <= first => q.end_cursor = st + N
       /\ first < N => q.end_cursor = st + last /\ (q.caught_up => last = N)
  <2>1. first >= Len(s) <=> N <= first
    BY <1>14, <1>16
  <2>2. ~(first >= Len(s)) <=> first < N
    BY <1>14, <1>16
  <2> QED BY <1>4, <1>13, <1>14, <2>1, <2>2 DEF End, s
<1>18. p.next_cursor \in Nat \cup {None}
  <2>1. N <= first => q.end_cursor - cut \in Nat
    BY <1>16, <1>17
  <2>2. first < N => q.end_cursor - cut \in Nat
    BY <1>16, <1>17
  <2>3. N <= first \/ first < N
    BY <1>16
  <2> QED BY <1>5, <2>1, <2>2, <2>3
<1>19. ASSUME NEW i \in DOMAIN s, st + i - 1 >= cursor
       PROVE  \/ \E j \in DOMAIN x : x[j] = s[i]
              \/ p.next_cursor # None /\ st + i - 1 >= p.next_cursor
  <2>0. i \in Nat /\ i >= 1 /\ i <= N
    BY <1>1, <1>14
  <2>1. i > first /\ first < N
    BY <1>16, <1>19, <2>0
  <2>2. CASE i <= first + kept
    <3>1. i - first \in 1..kept /\ i - first \in 1..(last - first) /\ first + (i - first) = i
      BY <1>16, <2>0, <2>1, <2>2
    <3>2. first < Len(s)
      BY <1>14, <2>1
    <3>3. x[i - first] = s[i]
      BY <1>7, <1>11, <3>1, <3>2
    <3> QED BY <1>11, <3>1, <3>3
  <2>3. CASE i > first + kept
    <3>1. ~(q.caught_up /\ cut = 0)
      BY <1>16, <1>17, <2>0, <2>1, <2>3
    <3>2. p.next_cursor = q.end_cursor - cut /\ q.end_cursor = st + last
      BY <1>5, <1>17, <2>1, <3>1
    <3>3. (st + last) - cut = st + first + kept
      BY <1>16, <2>1
    <3>4. st + first + kept \in Nat /\ st + i - 1 >= st + first + kept
      BY <1>16, <2>0, <2>3
    <3> QED BY <3>2, <3>3, <3>4, LogAssumption
  <2> QED BY <1>16, <2>0, <2>2, <2>3
<1> QED BY <1>3, <1>5, <1>10, <1>11, <1>13, <1>18, <1>19 DEF p, s

---------------------------------------------------------------------------
\* DedupCache: what is remembered was, or is the new frame.
LEMMA RememberKeeps ==
  ASSUME Typed, NEW n \in Nodes, NEW f \in Frames, seen' = Remember(n, f)
  PROVE  /\ seen' \in [Nodes -> Seq(Frames)]
         /\ \A m \in Nodes : InCache(m)' \subseteq InCache(m) \cup (IF m = n THEN {f} ELSE {})
<1> DEFINE s == seen[n]
           k == IF Len(s) >= DEDUP_CAPACITY THEN Len(s) - DEDUP_CAPACITY + 1 ELSE 0
<1>1. s \in Seq(Frames) /\ Len(s) \in Nat /\ DOMAIN s = 1..Len(s)
  BY DEF Typed
<1>2. k \in 0..Len(s)
  BY <1>1, SyncAssumption
<1> HIDE DEF k
<1>3. PICK u : u = SubSeq(s, k + 1, Len(s))
  OBVIOUS
<1>4. /\ u \in Seq(Frames) /\ Len(u) = Len(s) - k
      /\ \A i \in 1..(Len(s) - k) : u[i] = s[i + k]
  BY <1>1, <1>2, <1>3
<1>5. PICK v : v = Append(u, f)
  OBVIOUS
<1>6. /\ v \in Seq(Frames) /\ DOMAIN v = 1..(Len(s) - k + 1)
      /\ \A i \in 1..(Len(s) - k) : v[i] = s[i + k]
      /\ v[Len(s) - k + 1] = f
  BY <1>1, <1>2, <1>4, <1>5, AppendProperties
<1>7. seen' = [seen EXCEPT ![n] = v]
  BY <1>3, <1>5 DEF Remember, k
<1>8. ASSUME NEW i \in DOMAIN v PROVE v[i] = f \/ \E j \in DOMAIN s : s[j] = v[i]
  <2>1. CASE i = Len(s) - k + 1
    BY <1>6, <2>1
  <2>2. CASE i # Len(s) - k + 1
    <3>1. i \in 1..(Len(s) - k) /\ i + k \in DOMAIN s
      BY <1>1, <1>2, <1>6, <2>2
    <3> QED BY <1>6, <3>1
  <2> QED BY <2>1, <2>2
<1>9. seen' \in [Nodes -> Seq(Frames)] /\ seen'[n] = v /\ \A m \in Nodes : m # n => seen'[m] = seen[m]
  BY <1>6, <1>7 DEF Typed
<1>10. InCache(n)' \subseteq InCache(n) \cup {f}
  BY <1>8, <1>9 DEF InCache
<1>11. \A m \in Nodes : m # n => InCache(m)' = InCache(m)
  BY <1>9 DEF InCache
<1> QED BY <1>9, <1>10, <1>11

\* The logs, the caches and what is applied move on together.
Grown ==
  /\ log' \in [Nodes -> Logs] /\ seen' \in [Nodes -> Seq(Frames)] /\ applied' \in [Nodes -> SUBSET Frames]
  /\ \A n \in Nodes : InCache(n)' \subseteq applied'[n] /\ applied[n] \subseteq applied'[n]
  /\ \A n \in Nodes, c \in Nat : \A f : Ahead(log[n], c, f) => Ahead(log'[n], c, f)

\* A new frame is remembered, retained and applied.
LEMMA StoreGrows ==
  ASSUME CatchupInv, NEW n \in Nodes, NEW f \in Frames, seen' = Remember(n, f),
         log' = [log EXCEPT ![n] = Retain(n, f)], applied' = [applied EXCEPT ![n] = @ \cup {f}]
  PROVE  Grown /\ f \in applied'[n]
<1>1. Typed /\ \A m \in Nodes : InCache(m) \subseteq applied[m]
  BY DEF CatchupInv
<1>2. /\ seen' \in [Nodes -> Seq(Frames)]
      /\ \A m \in Nodes : InCache(m)' \subseteq InCache(m) \cup (IF m = n THEN {f} ELSE {})
  BY <1>1, RememberKeeps
<1>3. PICK l : l = Retain(n, f)
  OBVIOUS
<1>4. l \in Logs /\ \A g : \A c \in Nat : Ahead(log[n], c, g) => Ahead(l, c, g)
  BY <1>1, <1>3, RetainGrows
<1>5. log' \in [Nodes -> Logs] /\ log'[n] = l /\ \A m \in Nodes : m # n => log'[m] = log[m]
  BY <1>1, <1>3, <1>4 DEF Typed
<1>6. /\ applied' \in [Nodes -> SUBSET Frames] /\ applied'[n] = applied[n] \cup {f}
      /\ \A m \in Nodes : m # n => applied'[m] = applied[m]
  BY <1>1 DEF Typed
<1>7. \A m \in Nodes, c \in Nat : \A g : Ahead(log[m], c, g) => Ahead(log'[m], c, g)
  BY <1>4, <1>5
<1>8. \A m \in Nodes : InCache(m)' \subseteq applied'[m] /\ applied[m] \subseteq applied'[m]
  BY <1>1, <1>2, <1>6
<1> QED BY <1>2, <1>5, <1>6, <1>7, <1>8 DEF Grown

\* Nothing is stored.
LEMMA NothingStored ==
  ASSUME CatchupInv, UNCHANGED <<log, applied>>,
         seen' \in [Nodes -> Seq(Frames)], \A n \in Nodes : InCache(n)' \subseteq InCache(n)
  PROVE  Grown
BY DEF CatchupInv, Typed, Grown

\* handle_message: whoever is not limited has the frame applied, now or before.
LEMMA HandleGrows ==
  ASSUME CatchupInv, NEW n \in Nodes, NEW from, NEW f \in Frames, handle_message(n, from, f)
  PROVE  Grown /\ (~Limited(n, from) => f \in applied'[n])
<1>1. CASE Limited(n, from) \/ f \in InCache(n)
  <2>1. UNCHANGED <<log, seen, applied>>
    BY <1>1 DEF handle_message
  <2>2. Grown
    BY <2>1, NothingStored DEF CatchupInv, Typed, InCache
  <2> QED BY <1>1, <2>1, <2>2 DEF CatchupInv
<1>2. CASE ~(Limited(n, from) \/ f \in InCache(n))
  <2>1. /\ seen' = Remember(n, f) /\ log' = [log EXCEPT ![n] = Retain(n, f)]
        /\ applied' = [applied EXCEPT ![n] = @ \cup {f}]
    BY <1>2 DEF handle_message
  <2> QED BY <2>1, StoreGrows
<1> QED BY <1>1, <1>2

\* A pull in the middle of a page or between two.
LEMMA PullTypes ==
  ASSUME Typed, NEW n \in Nodes
  PROVE  LET t == task[n] IN
         /\ t.pc \in {"idle", "connect", "request", "replay"} /\ t \in Pulls
         /\ t.pc # "idle" => t.peers \in PeerLists /\ Head(t.peers) \in Nodes
         /\ t.pc \in {"request", "replay"} =>
              t.cursor \in Nat /\ t.pages \in Nat /\ t.total \in Nat /\ t.total_bytes \in Nat
         /\ t.pc = "replay" => t.frames \in Seq(Frames) /\ t.next_cursor \in Nat \cup {None}
<1> DEFINE t == task[n]
<1>1. t \in Pulls
  BY DEF Typed
<1>2. /\ t.pc \in {"idle", "connect", "request", "replay"}
      /\ t.pc # "idle" => t.peers \in PeerLists
  BY <1>1 DEF Pulls, Idle
<1>3. \A s \in PeerLists : Head(s) \in Nodes
  BY HeadTailProperties DEF PeerLists
<1>4. t.pc \in {"request", "replay"} =>
        t.cursor \in Nat /\ t.pages \in Nat /\ t.total \in Nat /\ t.total_bytes \in Nat
  BY <1>1 DEF Pulls, Idle
<1>5. t.pc = "replay" => t.frames \in Seq(Frames) /\ t.next_cursor \in Nat \cup {None}
  BY <1>1 DEF Pulls, Idle
<1> QED BY <1>1, <1>2, <1>3, <1>4, <1>5

\* The pull of n does not move while logs grow: what is covered stays so.
LEMMA PullStands ==
  ASSUME Typed, NEW n \in Nodes, PullInv(n), Grown, task'[n] = task[n], owed'[n] = owed[n],
         lossy[n] => lossy'[n]
  PROVE  PullInv(n)'
<1>1. \A f : Covered(n, f) => Covered(n, f)'
  <2> SUFFICES ASSUME NEW f, Covered(n, f) PROVE Covered(n, f)'
    OBVIOUS
  <2>1. CASE f \in applied[n]
    BY <2>1 DEF Grown, Covered
  <2>2. CASE task[n].pc = "request" /\ Ahead(log[Head(task[n].peers)], task[n].cursor, f)
    <3>1. Head(task[n].peers) \in Nodes /\ task[n].cursor \in Nat
      BY <2>2, PullTypes
    <3>2. Ahead(log'[Head(task[n].peers)], task[n].cursor, f)
      BY <2>2, <3>1 DEF Grown
    <3> QED BY <2>2, <3>2 DEF Covered
  <2>3. CASE task[n].pc = "replay" /\ \E i \in DOMAIN task[n].frames : task[n].frames[i] = f
    BY <2>3 DEF Covered
  <2>4. CASE /\ task[n].pc = "replay" /\ task[n].next_cursor # None
             /\ Ahead(log[Head(task[n].peers)], task[n].next_cursor, f)
    <3>1. Head(task[n].peers) \in Nodes /\ task[n].next_cursor \in Nat
      BY <2>4, PullTypes
    <3>2. Ahead(log'[Head(task[n].peers)], task[n].next_cursor, f)
      BY <2>4, <3>1 DEF Grown
    <3> QED BY <2>4, <3>2 DEF Covered
  <2> QED BY <2>1, <2>2, <2>3, <2>4 DEF Covered
<1> QED BY <1>1 DEF PullInv

\* The end of a peer, or of the list.
LEMMA NextPeerTypes ==
  ASSUME NEW peers \in Seq(Nodes)
  PROVE  NextPeer(peers) \in Pulls /\ NextPeer(peers).pc \in {"idle", "connect"}
BY DEF NextPeer, Pulls, PeerLists, Idle

\* After a peer.
LEMMA AfterPeerTypes ==
  ASSUME NEW t, t.peers \in PeerLists
  PROVE  AfterPeer(t) \in Pulls /\ AfterPeer(t).pc \in {"idle", "connect"}
<1>1. Tail(t.peers) \in Seq(Nodes)
  BY HeadTailProperties DEF PeerLists
<1>2. NextPeer(Tail(t.peers)) \in Pulls /\ NextPeer(Tail(t.peers)).pc \in {"idle", "connect"}
  BY <1>1, NextPeerTypes
<1>3. Idle \in Pulls /\ Idle.pc = "idle"
  BY DEF Pulls, Idle
<1> QED BY <1>2, <1>3 DEF AfterPeer

\* A step in which the pull of n alone moves, to t, and logs may grow.
LEMMA OnePull ==
  ASSUME CatchupInv, Grown, NEW n \in Nodes, NEW t \in Pulls, task' = [task EXCEPT ![n] = t],
         DOMAIN owed' = Nodes, lossy' \in [Nodes -> BOOLEAN], UNCHANGED pending,
         \A m \in Nodes : m # n => owed'[m] = owed[m] /\ lossy'[m] = lossy[m],
         t.pc \in {"idle", "connect"} \/ PullInv(n)'
  PROVE  CatchupInv'
<1>1. task' \in [Nodes -> Pulls] /\ task'[n] = t /\ \A m \in Nodes : m # n => task'[m] = task[m]
  BY DEF CatchupInv, Typed
<1>2. Typed'
  BY <1>1 DEF CatchupInv, Typed, Grown
<1>3. ASSUME NEW m \in Nodes, m # n PROVE PullInv(m)'
  BY <1>1, <1>3, PullStands DEF CatchupInv
<1>4. PullInv(n)'
  BY <1>1 DEF PullInv
<1> QED BY <1>2, <1>3, <1>4 DEF CatchupInv, Grown

\* A step that moves no pull.
LEMMA NoPull ==
  ASSUME CatchupInv, Grown, UNCHANGED <<task, owed, lossy>>, pending' \in [Nodes -> SUBSET Frames]
  PROVE  CatchupInv'
<1>1. Typed'
  BY DEF CatchupInv, Typed, Grown
<1>2. \A m \in Nodes : PullInv(m)'
  BY PullStands DEF CatchupInv
<1> QED BY <1>1, <1>2 DEF CatchupInv, Grown

\* Nothing is stored and the cache is as it was.
LEMMA Ungrown ==
  ASSUME CatchupInv, UNCHANGED <<log, seen, applied>>
  PROVE  Grown
BY NothingStored DEF CatchupInv, Typed, InCache

\* A page arrives.
LEMMA RequestKeeps ==
  ASSUME CatchupInv, NEW n \in Nodes, RequestPage(n)
  PROVE  CatchupInv'
<1> DEFINE t == task[n]
           s == Head(t.peers)
           r == Answer(s, n, t.cursor)
           o == IF t.pages # 0 THEN owed[n] ELSE IF Serves(s, n) THEN InLog(s) ELSE {}
           y == lossy[n] \/ r.truncated
           u == [pc |-> "replay", peers |-> t.peers, cursor |-> t.cursor,
                 pages |-> t.pages + 1, total |-> t.total,
                 total_bytes |-> t.total_bytes, frames |-> r.frames,
                 next_cursor |-> r.next_cursor]
           v == IF t.pages + 1 > MAX_PAGES_PER_ATTEMPT THEN AfterPeer(t) ELSE u
<1>1. /\ t.pc = "request" /\ task' = [task EXCEPT ![n] = v]
      /\ owed' = [owed EXCEPT ![n] = o] /\ lossy' = [lossy EXCEPT ![n] = y]
      /\ UNCHANGED <<log, seen, pending, applied>>
  BY DEF RequestPage
<1>2. Typed /\ Grown /\ PullInv(n)
  BY <1>1, Ungrown DEF CatchupInv
<1>3. /\ t.peers \in PeerLists /\ s \in Nodes /\ t.cursor \in Nat /\ t.pages \in Nat
      /\ t.total \in Nat /\ t.total_bytes \in Nat
  BY <1>1, <1>2, PullTypes
<1>4. log[s] \in Logs
  BY <1>2, <1>3 DEF Typed
<1>5. /\ r.frames \in Seq(Frames) /\ r.next_cursor \in Nat \cup {None}
      /\ Serves(s, n) =>
           /\ r.truncated = (t.cursor # 0 /\ t.cursor < log[s].start)
           /\ \A i \in DOMAIN log[s].frames : log[s].start + i - 1 >= t.cursor =>
                \/ \E j \in DOMAIN r.frames : r.frames[j] = log[s].frames[i]
                \/ r.next_cursor # None /\ log[s].start + i - 1 >= r.next_cursor
  <2>1. CASE Serves(s, n)
    <3>1. r = page(log[s], t.cursor, MAX_FRAMES_PER_PAGE)
      BY <2>1 DEF Answer
    <3>2. PICK l : l = log[s]
      OBVIOUS
    <3>3. PICK c : c = t.cursor
      OBVIOUS
    <3> HIDE DEF r
    <3>4. l \in Logs /\ c \in Nat /\ MAX_FRAMES_PER_PAGE \in Nat \ {0}
          /\ r = page(l, c, MAX_FRAMES_PER_PAGE)
      BY <1>3, <1>4, <3>1, <3>2, <3>3, SyncAssumption
    <3>5. /\ r.frames \in Seq(Frames) /\ r.next_cursor \in Nat \cup {None}
          /\ r.truncated = (c # 0 /\ c < l.start)
          /\ \A i \in DOMAIN l.frames : l.start + i - 1 >= c =>
               \/ \E j \in DOMAIN r.frames : r.frames[j] = l.frames[i]
               \/ r.next_cursor # None /\ l.start + i - 1 >= r.next_cursor
      BY <3>4, PageCovers
    <3> QED BY <3>2, <3>3, <3>5
  <2>2. CASE ~Serves(s, n)
    <3>1. r = EmptyPage
      BY <2>2 DEF Answer
    <3> HIDE DEF r
    <3>2. r.frames = <<>> /\ r.next_cursor = None
      BY <3>1 DEF EmptyPage
    <3> QED BY <2>2, <3>2
  <2> QED BY <2>1, <2>2
<1>6. y \in BOOLEAN
  OBVIOUS
<1>7. u \in Pulls /\ u.pc = "replay" /\ u.peers = t.peers /\ u.frames = r.frames
      /\ u.next_cursor = r.next_cursor /\ u.pages = t.pages + 1
  BY <1>3, <1>5 DEF Pulls
<1>8. v = AfterPeer(t) \/ v = u
  OBVIOUS
<1> HIDE DEF r, o, y, u, v
<1>9. v \in Pulls /\ (v.pc \in {"idle", "connect"} \/ v = u)
  BY <1>3, <1>7, <1>8, AfterPeerTypes
<1>10. /\ DOMAIN owed' = Nodes /\ lossy' \in [Nodes -> BOOLEAN] /\ owed'[n] = o /\ lossy'[n] = y
       /\ \A m \in Nodes : m # n => owed'[m] = owed[m] /\ lossy'[m] = lossy[m]
       /\ task'[n] = v
  BY <1>1, <1>2, <1>6 DEF Typed
<1>11. ASSUME v = u PROVE PullInv(n)'
  <2>1. t.pages + 1 # 0
    BY <1>3
  <2>2. ASSUME ~y, NEW f \in o PROVE Covered(n, f)'
    <3>1. CASE f \in applied[n]
      BY <1>1, <3>1 DEF Covered
    <3>2. ASSUME Serves(s, n), NEW i \in DOMAIN log[s].frames, log[s].frames[i] = f,
                 log[s].start + i - 1 >= t.cursor
          PROVE  Covered(n, f)'
      <4>1. CASE \E j \in DOMAIN r.frames : r.frames[j] = f
        BY <1>7, <1>10, <1>11, <4>1 DEF Covered
      <4>2. CASE r.next_cursor # None /\ log[s].start + i - 1 >= r.next_cursor
        <5>1. Ahead(log[s], r.next_cursor, f)
          BY <3>2, <4>2 DEF Ahead
        <5>2. task'[n].pc = "replay" /\ task'[n].next_cursor = r.next_cursor /\ Head(task'[n].peers) = s
          BY <1>7, <1>10, <1>11
        <5> QED BY <1>1, <4>2, <5>1, <5>2 DEF Covered
      <4> QED BY <1>5, <3>2, <4>1, <4>2
    <3>3. CASE t.pages = 0
      <4>1. Serves(s, n) /\ t.cursor = 0 /\ f \in InLog(s)
        BY <1>1, <1>2, <2>2, <3>3 DEF o, PullInv
      <4>2. PICK i \in DOMAIN log[s].frames : log[s].frames[i] = f
        BY <4>1 DEF InLog
      <4>3. i \in Nat /\ i >= 1 /\ log[s].start \in Nat
        BY <1>4 DEF Logs
      <4>4. log[s].start + i - 1 >= t.cursor
        BY <4>1, <4>3
      <4> QED BY <3>2, <4>1, <4>2, <4>4
    <3>4. CASE t.pages # 0 /\ f \notin applied[n]
      <4>1. f \in owed[n] /\ ~lossy[n] /\ ~r.truncated
        BY <2>2, <3>4 DEF o, y
      <4>2. Ahead(log[s], t.cursor, f)
        BY <1>1, <1>2, <3>4, <4>1 DEF PullInv, Covered
      <4>3. t.cursor # 0
        BY <1>1, <1>2, <3>4 DEF PullInv
      <4>4. CASE Serves(s, n)
        <5>1. ~(t.cursor < log[s].start)
          BY <1>5, <4>1, <4>3, <4>4
        <5> QED BY <3>2, <4>2, <4>4, <5>1 DEF Ahead
      <4>5. Serves(s, n)
        BY <1>1, <1>2, <3>4, <4>1 DEF PullInv
      <4> QED BY <4>4, <4>5
    <3> QED BY <3>1, <3>3, <3>4
  <2>3. Serves(s, n) \/ o = {}
    BY <1>1, <1>2 DEF o, PullInv
  <2>4. task'[n].pc = "replay" /\ task'[n].peers = t.peers /\ task'[n].pages # 0
    BY <1>7, <1>10, <1>11, <2>1
  <2> QED BY <1>10, <2>2, <2>3, <2>4 DEF PullInv
<1> QED BY <1>1, <1>2, <1>9, <1>10, <1>11, OnePull

\* The next frame of the page goes through handle_message.
LEMMA ReplayKeeps ==
  ASSUME CatchupInv, NEW n \in Nodes, ReplayFrame(n)
  PROVE  CatchupInv'
<1> DEFINE t == task[n]
           s == Head(t.peers)
           f == Head(t.frames)
           over == \/ t.total + 1 > MAX_TOTAL_FRAMES
                   \/ t.total_bytes + Size[f] > MAX_TOTAL_BYTES_PER_ATTEMPT
<1>1. t.pc = "replay" /\ t.frames # <<>> /\ UNCHANGED <<pending, owed>>
  BY DEF ReplayFrame
<1>2. Typed /\ PullInv(n)
  BY DEF CatchupInv
<1>3. t \in Pulls /\ t.peers \in PeerLists /\ t.frames \in Seq(Frames) /\ t.total \in Nat /\ t.total_bytes \in Nat
  BY <1>1, <1>2, PullTypes
<1>4. f \in Frames /\ Size[f] \in Nat
  BY <1>1, <1>3, HeadTailProperties, LogAssumption
<1>5. DOMAIN owed' = Nodes /\ \A m \in Nodes : owed'[m] = owed[m]
  BY <1>1, <1>2 DEF Typed
<1>6. CASE over
  <2>1. task' = [task EXCEPT ![n] = Idle] /\ UNCHANGED <<log, seen, applied, lossy>>
    BY <1>6 DEF ReplayFrame
  <2>2. Grown
    BY <2>1, Ungrown
  <2>3. Idle \in Pulls /\ Idle.pc = "idle"
    BY DEF Pulls, Idle
  <2> QED BY <1>1, <1>2, <1>5, <2>1, <2>2, <2>3, OnePull DEF Typed
<1>7. CASE ~over
  <2>1. /\ task' = [task EXCEPT ![n].frames = Tail(@), ![n].total = @ + 1, ![n].total_bytes = @ + Size[f]]
        /\ lossy' = [lossy EXCEPT ![n] = @ \/ Limited(n, s)]
        /\ handle_message(n, s, f)
    BY <1>7 DEF ReplayFrame
  <2>2. Grown /\ (~Limited(n, s) => f \in applied'[n])
    BY <1>4, <2>1, HandleGrows
  <2>3. PICK w : w = t.frames
    OBVIOUS
  <2>4. PICK x : x = Tail(w)
    OBVIOUS
  <2>5. /\ x \in Seq(Frames) /\ w[1] = f /\ Len(w) \in Nat /\ DOMAIN w = 1..Len(w) /\ DOMAIN x = 1..(Len(w) - 1)
        /\ \A i \in 1..(Len(w) - 1) : x[i] = w[i + 1]
    BY <1>1, <1>3, <2>3, <2>4, HeadTailProperties
  <2>6. PICK a : a = t.total + 1
    OBVIOUS
  <2>7. PICK b : b = t.total_bytes + Size[f]
    OBVIOUS
  <2>8. PICK u : u = [t EXCEPT !.frames = x, !.total = a, !.total_bytes = b]
    OBVIOUS
  <2>9. a \in Nat /\ b \in Nat
    BY <1>3, <1>4, <2>6, <2>7
  <2>10. /\ u \in Pulls /\ u.pc = "replay" /\ u.frames = x /\ u.peers = t.peers /\ u.pages = t.pages
         /\ u.next_cursor = t.next_cursor
    <3>1. t \in [pc : {"replay"}, peers : PeerLists, cursor : Nat, pages : Nat, total : Nat,
                 total_bytes : Nat, frames : Seq(Frames), next_cursor : Nat \cup {None}]
      BY <1>1, <1>3 DEF Pulls, Idle
    <3> QED BY <2>5, <2>8, <2>9, <3>1 DEF Pulls
  <2>11. task' = [task EXCEPT ![n] = u]
    <3>1. task \in [Nodes -> Pulls]
      BY <1>2 DEF Typed
    <3>2. task'[n] = u
      BY <2>1, <2>3, <2>4, <2>6, <2>7, <2>8, <3>1
    <3>3. DOMAIN task' = Nodes /\ \A m \in Nodes : m # n => task'[m] = task[m]
      BY <2>1, <3>1
    <3>4. task' = [m \in Nodes |-> task'[m]]
      BY <2>1, <3>1
    <3> QED BY <3>1, <3>2, <3>3, <3>4
  <2>12. PICK y : y = (lossy[n] \/ Limited(n, s))
    OBVIOUS
  <2>13. /\ lossy' \in [Nodes -> BOOLEAN] /\ lossy'[n] = y
         /\ \A m \in Nodes : m # n => lossy'[m] = lossy[m]
    <3>1. y \in BOOLEAN /\ lossy' = [lossy EXCEPT ![n] = y]
      BY <2>1, <2>12
    <3> QED BY <1>2, <3>1 DEF Typed
  <2>14. task'[n] = u
    BY <1>2, <2>11 DEF Typed
  <2>15. PullInv(n)'
    <3>1. ASSUME ~y, NEW g \in owed[n] PROVE Covered(n, g)'
      <4>1. ~lossy[n] /\ ~Limited(n, s)
        BY <2>12, <3>1
      <4>2. Covered(n, g)
        BY <1>1, <1>2, <3>1, <4>1 DEF PullInv
      <4>3. CASE g \in applied[n]
        BY <2>2, <4>3 DEF Grown, Covered
      <4>4. CASE \E i \in DOMAIN w : w[i] = g
        <5>1. PICK i \in DOMAIN w : w[i] = g
          BY <4>4
        <5>2. CASE i = 1
          BY <2>2, <2>5, <4>1, <5>1, <5>2 DEF Covered
        <5>3. CASE i # 1
          <6>1. i - 1 \in DOMAIN x /\ x[i - 1] = g
            BY <2>5, <5>1, <5>3
          <6> QED BY <2>10, <2>14, <6>1 DEF Covered
        <5> QED BY <5>2, <5>3
      <4>5. CASE t.next_cursor # None /\ Ahead(log[s], t.next_cursor, g)
        <5>1. s \in Nodes /\ t.next_cursor \in Nat
          BY <1>1, <1>2, <4>5, PullTypes
        <5>2. Ahead(log'[s], t.next_cursor, g)
          BY <2>2, <4>5, <5>1 DEF Grown
        <5>3. task'[n].pc = "replay" /\ task'[n].next_cursor = t.next_cursor /\ Head(task'[n].peers) = s
          BY <2>10, <2>14
        <5> QED BY <4>5, <5>2, <5>3 DEF Covered
      <4> QED BY <1>1, <2>3, <4>2, <4>3, <4>4, <4>5 DEF Covered
    <3>2. t.pages # 0 /\ (Serves(s, n) \/ owed[n] = {})
      BY <1>1, <1>2 DEF PullInv
    <3>3. task'[n].pc = "replay" /\ task'[n].peers = t.peers /\ task'[n].pages = t.pages
      BY <2>10, <2>14
    <3>4. owed'[n] = owed[n]
      BY <1>5
    <3> QED BY <2>13, <3>1, <3>2, <3>3, <3>4 DEF PullInv
  <2> QED BY <1>1, <1>5, <2>2, <2>10, <2>11, <2>13, <2>15, OnePull
<1> QED BY <1>6, <1>7

\* The page is done; the next one is asked for where it ended.
LEMMA EndPageKeeps ==
  ASSUME CatchupInv, NEW n \in Nodes, EndPage(n)
  PROVE  CatchupInv'
<1> DEFINE t == task[n]
           u == [pc |-> "request", peers |-> t.peers, cursor |-> t.next_cursor,
                 pages |-> t.pages, total |-> t.total, total_bytes |-> t.total_bytes]
           go == t.next_cursor # None /\ t.next_cursor > t.cursor
<1>1. /\ t.pc = "replay" /\ t.frames = <<>>
      /\ task' = [task EXCEPT ![n] = IF go THEN u ELSE AfterPeer(t)]
      /\ UNCHANGED <<log, seen, pending, applied, owed, lossy>>
  BY DEF EndPage
<1>2. Typed /\ PullInv(n) /\ Grown
  BY <1>1, Ungrown DEF CatchupInv
<1>3. /\ t.peers \in PeerLists /\ t.cursor \in Nat /\ t.pages \in Nat
      /\ t.total \in Nat /\ t.total_bytes \in Nat /\ t.next_cursor \in Nat \cup {None}
  BY <1>1, <1>2, PullTypes
<1>4. DOMAIN owed' = Nodes /\ lossy' \in [Nodes -> BOOLEAN]
      /\ \A m \in Nodes : owed'[m] = owed[m] /\ lossy'[m] = lossy[m]
  BY <1>1, <1>2 DEF Typed
<1>5. CASE ~go
  <2>1. task' = [task EXCEPT ![n] = AfterPeer(t)]
    BY <1>1, <1>5
  <2>2. AfterPeer(t) \in Pulls /\ AfterPeer(t).pc \in {"idle", "connect"}
    BY <1>3, AfterPeerTypes
  <2> QED BY <1>1, <1>2, <1>4, <2>1, <2>2, OnePull
<1>6. CASE go
  <2>1. t.next_cursor \in Nat /\ t.next_cursor > 0 /\ t.next_cursor # 0 /\ t.next_cursor # None
    BY <1>3, <1>6
  <2>2. u \in Pulls /\ u.pc = "request" /\ u.peers = t.peers /\ u.cursor = t.next_cursor /\ u.pages = t.pages
    BY <1>3, <2>1 DEF Pulls
  <2>3. task' = [task EXCEPT ![n] = u]
    BY <1>1, <1>6
  <2> HIDE DEF u
  <2>4. task'[n] = u
    BY <1>2, <2>3 DEF Typed
  <2>5. t.pages # 0 /\ (Serves(Head(t.peers), n) \/ owed[n] = {})
        /\ (lossy[n] \/ \A f \in owed[n] : Covered(n, f))
    BY <1>1, <1>2 DEF PullInv
  <2>6. \A f : Covered(n, f) => Covered(n, f)'
    <3>1. SUFFICES ASSUME NEW f, Covered(n, f) PROVE Covered(n, f)'
      OBVIOUS
    <3>2. f \in applied[n] \/ Ahead(log[Head(t.peers)], t.next_cursor, f)
      <4>1. ~ \E i \in DOMAIN t.frames : t.frames[i] = f
        BY <1>1
      <4> QED BY <1>1, <3>1, <4>1 DEF Covered
    <3>3. task'[n].pc = "request" /\ task'[n].cursor = t.next_cursor /\ task'[n].peers = t.peers
      BY <2>2, <2>4
    <3> QED BY <1>1, <3>2, <3>3 DEF Covered
  <2>7. PullInv(n)'
    BY <1>1, <2>1, <2>2, <2>4, <2>5, <2>6 DEF PullInv
  <2> QED BY <1>1, <1>2, <1>4, <2>2, <2>3, <2>7, OnePull
<1> QED BY <1>5, <1>6

\* Every other step of a pull begins or ends with a peer.
LEMMA PullStepKeeps ==
  ASSUME CatchupInv, NEW n \in Nodes, PullStep(n)
  PROVE  CatchupInv'
<1>0. Typed /\ PullInv(n)
  BY DEF CatchupInv
<1>1. CASE Connect(n)
  <2> DEFINE u == [pc |-> "request", peers |-> task[n].peers, cursor |-> 0, pages |-> 0,
                   total |-> 0, total_bytes |-> 0]
  <2>1. /\ task[n].pc = "connect" /\ task' = [task EXCEPT ![n] = u]
        /\ lossy' = [lossy EXCEPT ![n] = FALSE] /\ UNCHANGED <<log, seen, pending, applied, owed>>
    BY <1>1 DEF Connect
  <2>2. u \in Pulls /\ u.pc = "request" /\ u.pages = 0 /\ u.cursor = 0
    BY <1>0, <2>1, PullTypes DEF Pulls
  <2> HIDE DEF u
  <2>3. /\ task'[n] = u /\ DOMAIN owed' = Nodes /\ lossy' \in [Nodes -> BOOLEAN]
        /\ \A m \in Nodes : m # n => owed'[m] = owed[m] /\ lossy'[m] = lossy[m]
    BY <1>0, <2>1 DEF Typed
  <2>4. PullInv(n)'
    BY <2>2, <2>3 DEF PullInv
  <2> QED BY <2>1, <2>2, <2>3, <2>4, Ungrown, OnePull
<1>2. CASE ConnectFails(n) \/ PageFails(n)
  <2>1. PICK u \in Pulls : /\ task' = [task EXCEPT ![n] = u] /\ u.pc \in {"idle", "connect"}
                           /\ UNCHANGED <<log, seen, pending, applied, owed, lossy>>
    <3>1. CASE ConnectFails(n)
      <4>1. task[n].peers \in PeerLists
        BY <1>0, <3>1, PullTypes DEF ConnectFails
      <4>2. Tail(task[n].peers) \in Seq(Nodes)
        BY <4>1, HeadTailProperties DEF PeerLists
      <4> QED BY <3>1, <4>2, NextPeerTypes DEF ConnectFails
    <3>2. CASE PageFails(n)
      <4>1. task[n].peers \in PeerLists
        BY <1>0, <3>2, PullTypes DEF PageFails
      <4> QED BY <3>2, <4>1, AfterPeerTypes DEF PageFails
    <3> QED BY <1>2, <3>1, <3>2
  <2>2. /\ DOMAIN owed' = Nodes /\ lossy' \in [Nodes -> BOOLEAN]
        /\ \A m \in Nodes : m # n => owed'[m] = owed[m] /\ lossy'[m] = lossy[m]
    BY <1>0, <2>1 DEF Typed
  <2> QED BY <2>1, <2>2, Ungrown, OnePull
<1>3. CASE RequestPage(n)
  BY <1>3, RequestKeeps
<1>4. CASE ReplayFrame(n)
  BY <1>4, ReplayKeeps
<1>5. CASE EndPage(n)
  BY <1>5, EndPageKeeps
<1> QED BY <1>1, <1>2, <1>3, <1>4, <1>5 DEF PullStep

\* A pull starts.
LEMMA StartKeeps ==
  ASSUME CatchupInv, NEW n \in Nodes, NEW peers \in Seq(Nodes), StartPull(n, peers)
  PROVE  CatchupInv'
<1>1. /\ task' = [task EXCEPT ![n] = NextPeer(peers)]
      /\ UNCHANGED <<log, seen, pending, applied, owed, lossy>>
  BY DEF StartPull
<1>2. /\ DOMAIN owed' = Nodes /\ lossy' \in [Nodes -> BOOLEAN]
      /\ \A m \in Nodes : m # n => owed'[m] = owed[m] /\ lossy'[m] = lossy[m]
  BY <1>1 DEF CatchupInv, Typed
<1> QED BY <1>1, <1>2, NextPeerTypes, Ungrown, OnePull

\* Every step keeps the invariant.
LEMMA CatchupStep ==
  ASSUME CatchupInv, [Next]_vars
  PROVE  CatchupInv'
<1>0. Typed
  BY DEF CatchupInv
<1>1. ASSUME NEW n \in Nodes, NEW f \in Frames, broadcast_signed(n, f) PROVE CatchupInv'
  <2>1. /\ seen' = Remember(n, f) /\ log' = [log EXCEPT ![n] = Retain(n, f)]
        /\ applied' = [applied EXCEPT ![n] = @ \cup {f}] /\ UNCHANGED <<task, owed, lossy>>
        /\ pending' = [m \in Nodes |-> IF m \in Members \ {n} THEN pending[m] \cup {f} ELSE pending[m]]
    BY <1>1 DEF broadcast_signed
  <2>2. pending' \in [Nodes -> SUBSET Frames]
    BY <1>0, <2>1 DEF Typed
  <2> QED BY <2>1, <2>2, StoreGrows, NoPull
<1>2. ASSUME NEW n \in Nodes, NEW p \in Nodes, NEW f \in pending[n], Received(n, p, f) PROVE CatchupInv'
  <2>1. /\ pending' = [pending EXCEPT ![n] = @ \ {f}] /\ handle_message(n, p, f)
        /\ UNCHANGED <<task, owed, lossy>>
    BY <1>2 DEF Received
  <2>2. pending' \in [Nodes -> SUBSET Frames] /\ f \in Frames
    BY <1>0, <2>1 DEF Typed
  <2> QED BY <2>1, <2>2, HandleGrows, NoPull
<1>3. ASSUME NEW n \in Nodes, Expire(n) PROVE CatchupInv'
  <2>1. /\ seen[n] # <<>> /\ seen' = [seen EXCEPT ![n] = Tail(@)]
        /\ UNCHANGED <<log, task, pending, applied, owed, lossy>>
    BY <1>3 DEF Expire
  <2>2. PICK s : s = seen[n]
    OBVIOUS
  <2>3. PICK x : x = Tail(s)
    OBVIOUS
  <2>4. s \in Seq(Frames)
    BY <1>0, <2>2 DEF Typed
  <2>5. /\ x \in Seq(Frames) /\ \A i \in DOMAIN x : i + 1 \in DOMAIN s /\ x[i] = s[i + 1]
    BY <2>1, <2>2, <2>3, <2>4, HeadTailProperties
  <2>6. seen' \in [Nodes -> Seq(Frames)] /\ seen'[n] = x /\ \A m \in Nodes : m # n => seen'[m] = seen[m]
    BY <1>0, <2>1, <2>2, <2>3, <2>5 DEF Typed
  <2>7. \A m \in Nodes : InCache(m)' \subseteq InCache(m)
    BY <2>2, <2>5, <2>6 DEF InCache
  <2>8. Grown
    BY <2>1, <2>6, <2>7, NothingStored
  <2> QED BY <1>0, <2>1, <2>8, NoPull DEF Typed
<1>4. ASSUME NEW n \in Nodes, NEW p \in Nodes, Refill(n, p) PROVE CatchupInv'
  <2>1. UNCHANGED <<log, seen, task, pending, applied, owed, lossy>>
    BY <1>4 DEF Refill
  <2> QED BY <1>0, <2>1, Ungrown, NoPull DEF Typed
<1>5. ASSUME NEW n \in Nodes, NEW p \in Nodes, maybe_sync_from_neighbor(n, p) PROVE CatchupInv'
  <2>1. <<p>> \in Seq(Nodes)
    OBVIOUS
  <2> QED BY <1>5, <2>1, StartKeeps DEF maybe_sync_from_neighbor
<1>6. ASSUME NEW n \in Nodes, join(n) PROVE CatchupInv'
  <2>1. Bootstrap[n] \in Seq(Nodes)
    BY SyncAssumption
  <2> QED BY <1>6, <2>1, StartKeeps DEF join
<1>7. CASE UNCHANGED vars
  <2>1. UNCHANGED <<log, seen, task, pending, applied, owed, lossy>>
    BY <1>7 DEF vars
  <2> QED BY <1>0, <2>1, Ungrown, NoPull DEF Typed
<1> QED BY <1>1, <1>2, <1>3, <1>4, <1>5, <1>6, <1>7, PullStepKeeps, Zenon DEF Next

\* The invariant holds at first.
LEMMA CatchupInit == Init => CatchupInv
<1> SUFFICES ASSUME Init PROVE CatchupInv
  OBVIOUS
<1>1. EmptyLog \in Logs /\ Idle \in Pulls /\ Idle.pc = "idle"
  BY DEF EmptyLog, Logs, Pulls, Idle
<1>2. Typed
  BY <1>1 DEF Init, Typed
<1>3. \A n \in Nodes : InCache(n) = {} /\ task[n] = Idle
  BY DEF Init, InCache
<1>4. \A n \in Nodes : PullInv(n)
  BY <1>1, <1>3 DEF PullInv
<1> QED BY <1>2, <1>3, <1>4 DEF CatchupInv

\* CatchupSync.CaughtUpMeansComplete: a pull that runs to the end without a
\* truncated page or a limited frame has applied all the peer retained when
\* it began, for any log bounds, page sizes and budgets.
THEOREM CatchupIsComplete == Spec => []CaughtUpMeansComplete
<1>1. Init => CatchupInv
  BY CatchupInit
<1>2. CatchupInv /\ [Next]_vars => CatchupInv'
  BY CatchupStep
<1>3. CatchupInv => CaughtUpMeansComplete
  <2> SUFFICES ASSUME CatchupInv, NEW n \in Nodes, CaughtUp(n), ~lossy[n], NEW f \in owed[n]
               PROVE  f \in applied[n]
    BY DEF CaughtUpMeansComplete
  <2>1. task[n].pc = "replay" /\ task[n].frames = <<>> /\ task[n].next_cursor = None
    BY DEF CaughtUp
  <2>2. Covered(n, f)
    BY <2>1 DEF CatchupInv, PullInv
  <2>3. DOMAIN task[n].frames = {}
    BY <2>1
  <2> QED BY <2>1, <2>2, <2>3 DEF Covered
<1> QED BY <1>1, <1>2, <1>3, PTL DEF Spec

---------------------------------------------------------------------------
(* The bounds of the retained log. *)

\* A set that has 0 and with n also n + 1 has every natural number.
LEMMA Stepwise ==
  ASSUME NEW T, 0 \in T, \A n \in Nat : n \in T => n + 1 \in T
  PROVE  Nat \subseteq T
<1> DEFINE R == OpToRel(<, Nat)
           F == {n \in Nat : n \notin T}
<1> SUFFICES ASSUME F # {} PROVE FALSE
  OBVIOUS
<1>1. PICK x \in F : \A y \in F : ~(<<y, x>> \in R)
  BY WFMin, NatLessThanWellFounded
<1>2. \A y \in F : ~(y < x)
  BY <1>1 DEF OpToRel
<1>3. x \in Nat /\ x # 0
  BY <1>1
<1>4. PICK m \in Nat : x = m + 1 /\ m < x
  <2>1. x - 1 \in Nat /\ x = (x - 1) + 1 /\ x - 1 < x
    BY <1>3
  <2> QED BY <2>1
<1>5. m \in T
  BY <1>2, <1>4
<1> QED BY <1>1, <1>4, <1>5

\* g holds the bytes of the first 0, 1, ... n frames of s.
Tally(g, s, n) == g = [i \in 0..n |-> IF i = 0 THEN 0 ELSE g[i - 1] + Size[s[i]]]

\* There is such a g.
LEMMA TallyExists ==
  ASSUME NEW s \in Seq(Frames)
  PROVE  \E g : Tally(g, s, Len(s))
<1> DEFINE T == {n \in Nat : \E g : Tally(g, s, n)}
<1>1. 0 \in T
  <2> DEFINE g == [i \in 0..0 |-> 0]
  <2>1. Tally(g, s, 0)
    BY DEF Tally
  <2> QED BY <2>1
<1>2. ASSUME NEW n \in Nat, n \in T PROVE n + 1 \in T
  <2>1. PICK g : Tally(g, s, n)
    BY <1>2
  <2> DEFINE h == [i \in 0..(n + 1) |-> IF i = n + 1 THEN g[n] + Size[s[n + 1]] ELSE g[i]]
  <2>2. \A i \in 0..n : g[i] = IF i = 0 THEN 0 ELSE g[i - 1] + Size[s[i]]
    BY <2>1 DEF Tally
  <2>3. \A i \in 0..n : h[i] = g[i]
    OBVIOUS
  <2>4. h[n + 1] = g[n] + Size[s[n + 1]]
    OBVIOUS
  <2> HIDE DEF h
  <2>5. ASSUME NEW i \in 0..(n + 1)
        PROVE  h[i] = IF i = 0 THEN 0 ELSE h[i - 1] + Size[s[i]]
    <3>1. CASE i = n + 1
      <4>1. i # 0 /\ i - 1 = n /\ n \in 0..n
        BY <3>1
      <4> QED BY <2>3, <2>4, <3>1, <4>1
    <3>2. CASE i # n + 1 /\ i # 0
      <4>1. i \in 0..n /\ i - 1 \in 0..n
        BY <3>2
      <4> QED BY <2>2, <2>3, <3>2, <4>1
    <3>3. CASE i = 0
      <4>1. i \in 0..n
        BY <3>3
      <4> QED BY <2>2, <2>3, <3>3, <4>1
    <3> QED BY <3>1, <3>2, <3>3
  <2>6. h = [i \in 0..(n + 1) |-> h[i]]
    BY DEF h
  <2>7. Tally(h, s, n + 1)
    BY <2>5, <2>6 DEF Tally
  <2> QED BY <2>7
<1>3. Nat \subseteq T
  <2> HIDE DEF T
  <2> QED BY <1>1, <1>2, Stepwise
<1>4. Len(s) \in Nat
  OBVIOUS
<1> QED BY <1>3, <1>4

\* It depends on the frames it counts only, and holds natural numbers.
LEMMA TallyUnique ==
  ASSUME NEW s \in Seq(Frames), NEW t \in Seq(Frames), Len(s) <= Len(t),
         \A i \in 1..Len(s) : s[i] = t[i],
         NEW g, Tally(g, s, Len(s)), NEW h, Tally(h, t, Len(t))
  PROVE  g[Len(s)] = h[Len(s)] /\ g[Len(s)] \in Nat
<1>0. PICK N : N = Len(s)
  OBVIOUS
<1>00. PICK M : M = Len(t)
  OBVIOUS
<1>1. N \in Nat /\ M \in Nat /\ N <= M
  BY <1>0, <1>00
<1>2. \A i \in 0..N : g[i] = IF i = 0 THEN 0 ELSE g[i - 1] + Size[s[i]]
  BY <1>0 DEF Tally
<1>3. \A i \in 0..M : h[i] = IF i = 0 THEN 0 ELSE h[i - 1] + Size[t[i]]
  BY <1>00 DEF Tally
<1> DEFINE T == {n \in Nat : n <= N => g[n] = h[n] /\ g[n] \in Nat}
<1>4. 0 \in T
  <2>1. 0 \in 0..N /\ 0 \in 0..M
    BY <1>1
  <2> QED BY <1>2, <1>3, <2>1
<1>5. ASSUME NEW n \in Nat, n \in T PROVE n + 1 \in T
  <2> SUFFICES ASSUME n + 1 <= N PROVE g[n + 1] = h[n + 1] /\ g[n + 1] \in Nat
    OBVIOUS
  <2>1. /\ n <= N /\ n + 1 \in 0..N /\ n + 1 \in 0..M /\ n + 1 # 0 /\ (n + 1) - 1 = n
        /\ n + 1 \in 1..Len(s)
    BY <1>0, <1>1
  <2>2. g[n] = h[n] /\ g[n] \in Nat
    BY <1>5, <2>1
  <2>3. s[n + 1] = t[n + 1] /\ s[n + 1] \in Frames
    BY <2>1
  <2>4. Size[s[n + 1]] \in Nat
    BY <2>3, LogAssumption
  <2>5. g[n + 1] = g[n] + Size[s[n + 1]] /\ h[n + 1] = h[n] + Size[t[n + 1]]
    BY <1>2, <1>3, <2>1
  <2> QED BY <2>2, <2>3, <2>4, <2>5
<1>6. Nat \subseteq T
  <2> HIDE DEF T
  <2> QED BY <1>4, <1>5, Stepwise
<1> QED BY <1>0, <1>1, <1>6

\* So Bytes counts them.
LEMMA BytesIsTally ==
  ASSUME NEW s \in Seq(Frames)
  PROVE  \E g : Tally(g, s, Len(s)) /\ Bytes(s) = g[Len(s)]
<1>1. Bytes(s) = (CHOOSE g : Tally(g, s, Len(s)))[Len(s)]
  BY DEF Bytes, Tally
<1>2. Tally(CHOOSE g : Tally(g, s, Len(s)), s, Len(s))
  BY TallyExists
<1> QED BY <1>1, <1>2

\* sync_log_bytes: every frame that is pushed adds its size.
LEMMA BytesAppend ==
  ASSUME NEW s \in Seq(Frames), NEW f \in Frames
  PROVE  /\ Bytes(s) \in Nat
         /\ Bytes(Append(s, f)) = Bytes(s) + Size[f]
<1>1. PICK t : t = Append(s, f)
  OBVIOUS
<1>2. /\ t \in Seq(Frames) /\ Len(t) = Len(s) + 1 /\ Len(s) \in Nat /\ t[Len(s) + 1] = f
      /\ \A i \in 1..Len(s) : t[i] = s[i]
  BY <1>1, AppendProperties
<1>3. PICK g : Tally(g, s, Len(s)) /\ Bytes(s) = g[Len(s)]
  BY BytesIsTally
<1>4. PICK h : Tally(h, t, Len(t)) /\ Bytes(t) = h[Len(t)]
  BY <1>2, BytesIsTally
<1>5. g[Len(s)] = h[Len(s)] /\ g[Len(s)] \in Nat
  <2>1. Len(s) <= Len(t) /\ \A i \in 1..Len(s) : s[i] = t[i]
    BY <1>2
  <2> QED BY <1>2, <1>3, <1>4, <2>1, TallyUnique
<1>6. h[Len(t)] = h[Len(s)] + Size[f]
  <2>1. Len(t) \in 0..Len(t) /\ Len(t) # 0 /\ Len(t) - 1 = Len(s) /\ t[Len(t)] = f
    BY <1>2
  <2>2. h[Len(t)] = h[Len(t) - 1] + Size[t[Len(t)]]
    BY <1>4, <2>1 DEF Tally
  <2> QED BY <2>1, <2>2
<1> QED BY <1>1, <1>3, <1>4, <1>5, <1>6

\* The positions of the frames of s that n cannot read.
Opaque(n, s) == {i \in DOMAIN s : IsUnknown(n, s[i])}

\* The bounds of a log of n; its opaque frames are charged to a budget that
\* is not refunded when they are evicted.
Bounded(n, l) ==
  /\ Len(l.frames) <= SYNC_LOG_CAP
  /\ Bytes(l.frames) <= SYNC_LOG_MAX_BYTES \/ Len(l.frames) = 1
  /\ Cardinality(Opaque(n, l.frames)) <= l.unknown
  /\ l.unknown <= MAX_UNKNOWN_FRAMES

\* There are finitely many opaque frames.
LEMMA OpaqueFinite ==
  ASSUME NEW n, NEW s \in Seq(Frames)
  PROVE  IsFiniteSet(Opaque(n, s)) /\ Cardinality(Opaque(n, s)) \in Nat
<1>1. Len(s) \in Nat /\ DOMAIN s = 1..Len(s)
  OBVIOUS
<1>2. IsFiniteSet(1..Len(s))
  BY <1>1, FS_Interval
<1>3. Opaque(n, s) \in SUBSET (1..Len(s))
  BY <1>1 DEF Opaque
<1> QED BY <1>2, <1>3, FS_Subset, FS_CardinalityType

\* Evicting from the front and pushing one frame adds at most that frame to
\* the opaque ones.
LEMMA OpaqueShift ==
  ASSUME NEW n, NEW s \in Seq(Frames), NEW v \in Seq(Frames), NEW f, NEW k \in 0..Len(s),
         Len(v) = Len(s) - k + 1, v[Len(s) - k + 1] = f,
         \A i \in 1..(Len(s) - k) : v[i] = s[i + k]
  PROVE  Cardinality(Opaque(n, v))
           <= Cardinality(Opaque(n, s)) + (IF IsUnknown(n, f) THEN 1 ELSE 0)
<1>1. PICK N : N = Len(s) - k
  OBVIOUS
<1>2. /\ N \in Nat /\ Len(s) \in Nat /\ DOMAIN s = 1..Len(s) /\ DOMAIN v = 1..(N + 1)
      /\ k \in Nat /\ N + k = Len(s)
  BY <1>1
<1> DEFINE A == Opaque(n, v) \ {N + 1}
           F == [i \in A |-> i + k]
<1>3. IsFiniteSet(Opaque(n, s)) /\ Cardinality(Opaque(n, s)) \in Nat
  BY OpaqueFinite
<1>4. \A i \in A : i \in 1..N /\ i + k \in Opaque(n, s)
  <2> SUFFICES ASSUME NEW i \in A PROVE i \in 1..N /\ i + k \in Opaque(n, s)
    OBVIOUS
  <2>1. i \in 1..(N + 1) /\ i # N + 1 /\ IsUnknown(n, v[i])
    BY <1>2 DEF Opaque
  <2>2. i \in 1..N /\ i + k \in 1..Len(s)
    BY <1>2, <2>1
  <2>3. v[i] = s[i + k]
    BY <1>1, <2>2
  <2> QED BY <1>2, <2>1, <2>2, <2>3 DEF Opaque
<1>5. F \in [A -> Opaque(n, s)] /\ \A a, b \in A : F[a] = F[b] => a = b
  <2>1. F \in [A -> Opaque(n, s)]
    BY <1>4
  <2>2. \A a, b \in A : a + k = b + k => a = b
    BY <1>2, <1>4
  <2> QED BY <2>1, <2>2
<1>6. F \in Injection(A, Opaque(n, s))
  <2> HIDE DEF A, F
  <2> QED BY <1>5, Fun_IsInj
<1>7. IsFiniteSet(A) /\ Cardinality(A) <= Cardinality(Opaque(n, s))
  <2> HIDE DEF A, F
  <2> QED BY <1>3, <1>6, FS_Injection
<1>8. Cardinality(A) \in Nat
  BY <1>7, FS_CardinalityType
<1>9. CASE IsUnknown(n, f)
  <2>1. Opaque(n, v) \in SUBSET (A \cup {N + 1})
    OBVIOUS
  <2>2. IsFiniteSet(A \cup {N + 1}) /\ Cardinality(A \cup {N + 1}) \in {Cardinality(A), Cardinality(A) + 1}
    <3> HIDE DEF A
    <3> QED BY <1>7, FS_AddElement
  <2>3. Cardinality(Opaque(n, v)) <= Cardinality(A \cup {N + 1})
    <3> HIDE DEF A
    <3> QED BY <2>1, <2>2, FS_Subset
  <2>4. Cardinality(Opaque(n, v)) \in Nat
    BY OpaqueFinite
  <2> HIDE DEF A
  <2>5. PICK a : a = Cardinality(A)
    OBVIOUS
  <2>6. PICK b : b = Cardinality(Opaque(n, s))
    OBVIOUS
  <2>7. PICK c : c = Cardinality(Opaque(n, v))
    OBVIOUS
  <2>8. PICK d : d = Cardinality(A \cup {N + 1})
    OBVIOUS
  <2>9. a \in Nat /\ b \in Nat /\ c \in Nat /\ a <= b /\ d \in {a, a + 1} /\ c <= d
    BY <1>3, <1>7, <1>8, <2>2, <2>3, <2>4, <2>5, <2>6, <2>7, <2>8
  <2>10. c <= b + 1
    BY <2>9
  <2> QED BY <1>9, <2>6, <2>7, <2>10
<1>10. CASE ~IsUnknown(n, f)
  <2>1. N + 1 \notin Opaque(n, v)
    BY <1>1, <1>10 DEF Opaque
  <2>2. A = Opaque(n, v)
    BY <2>1
  <2>3. Cardinality(Opaque(n, v)) <= Cardinality(Opaque(n, s))
    BY <1>7, <2>2
  <2> QED BY <1>3, <1>10, <2>3
<1> QED BY <1>9, <1>10

\* retain_frame keeps both bounds of the log, whatever was in it, and adds at
\* most its frame to the opaque ones.
LEMMA RetainBounded ==
  ASSUME NEW n, NEW l \in Logs, NEW f \in Frames
  PROVE  LET m == retain_frame(l, f) IN
         /\ Len(m.frames) <= SYNC_LOG_CAP
         /\ Bytes(m.frames) <= SYNC_LOG_MAX_BYTES \/ Len(m.frames) = 1
         /\ Cardinality(Opaque(n, m.frames))
              <= Cardinality(Opaque(n, l.frames)) + (IF IsUnknown(n, f) THEN 1 ELSE 0)
         /\ m.unknown = l.unknown
<1> DEFINE s == l.frames
           k == Evictions(s, f)
<1>1. s \in Seq(Frames) /\ Len(s) \in Nat /\ DOMAIN s = 1..Len(s) /\ l.start \in Nat
  BY DEF Logs
<1>2. /\ k \in 0..Len(s)
      /\ \/ k = Len(s)
         \/ /\ Len(SubSeq(s, k + 1, Len(s))) < SYNC_LOG_CAP
            /\ Bytes(SubSeq(s, k + 1, Len(s))) + Size[f] <= SYNC_LOG_MAX_BYTES
  <2> DEFINE S == {j \in 0..Len(s) :
                     \/ j = Len(s)
                     \/ /\ Len(SubSeq(s, j + 1, Len(s))) < SYNC_LOG_CAP
                        /\ Bytes(SubSeq(s, j + 1, Len(s))) + Size[f] <= SYNC_LOG_MAX_BYTES}
  <2>1. S \subseteq 0..Len(s) /\ Len(s) \in S
    BY <1>1
  <2>2. k = Min(S)
    BY Zenon DEF Evictions
  <2> HIDE DEF S, k, s
  <2>3. S \subseteq Nat /\ S # {}
    BY <1>1, <2>1
  <2>4. k \in S
    BY <2>2, <2>3, MinOfSome
  <2> QED BY <2>4 DEF S
<1> HIDE DEF k
<1>3. PICK u : u = SubSeq(s, k + 1, Len(s))
  OBVIOUS
<1>4. /\ u \in Seq(Frames) /\ Len(u) = Len(s) - k
      /\ \A i \in 1..(Len(s) - k) : u[i] = s[i + k]
  BY <1>1, <1>2, <1>3
<1>5. PICK v : v = Append(u, f)
  OBVIOUS
<1>6. /\ v \in Seq(Frames) /\ Len(v) = Len(s) - k + 1
      /\ \A i \in 1..(Len(s) - k) : v[i] = s[i + k]
      /\ v[Len(s) - k + 1] = f
  <2>1. /\ v \in Seq(Frames) /\ Len(v) = Len(u) + 1 /\ v[Len(u) + 1] = f
        /\ \A i \in 1..Len(u) : v[i] = u[i]
    BY <1>4, <1>5, AppendProperties
  <2> QED BY <1>4, <2>1
<1>7. PICK b : b = l.start + k
  OBVIOUS
<1>8. PICK m : m = retain_frame(l, f)
  OBVIOUS
<1>9. m.frames = v /\ m.unknown = l.unknown
  <2>1. m = [l EXCEPT !.frames = v, !.start = b]
    BY <1>3, <1>5, <1>7, <1>8 DEF retain_frame, k
  <2> QED BY <2>1 DEF Logs
<1>10. SYNC_LOG_CAP \in Nat \ {0} /\ SYNC_LOG_MAX_BYTES \in Nat
  BY LogAssumption
<1>13. Cardinality(Opaque(n, v))
         <= Cardinality(Opaque(n, s)) + (IF IsUnknown(n, f) THEN 1 ELSE 0)
  <2> HIDE DEF s
  <2> QED BY <1>1, <1>2, <1>6, OpaqueShift
<1>11. CASE k = Len(s)
  <2>1. Len(v) = 1
    BY <1>1, <1>6, <1>11
  <2>2. Len(v) <= SYNC_LOG_CAP
    BY <1>10, <2>1
  <2> QED BY <1>8, <1>9, <1>13, <2>1, <2>2
<1>12. CASE Len(u) < SYNC_LOG_CAP /\ Bytes(u) + Size[f] <= SYNC_LOG_MAX_BYTES
  <2>1. Len(v) <= SYNC_LOG_CAP
    <3>1. Len(v) = Len(u) + 1 /\ Len(u) \in Nat
      BY <1>4, <1>6
    <3> QED BY <1>10, <1>12, <3>1
  <2>2. Bytes(v) <= SYNC_LOG_MAX_BYTES
    BY <1>4, <1>5, <1>12, BytesAppend
  <2> QED BY <1>8, <1>9, <1>13, <2>1, <2>2
<1> QED BY <1>2, <1>3, <1>11, <1>12

\* Retain keeps a log within its bounds, whatever the kind of the frame.
LEMMA RetainStaysBounded ==
  ASSUME Typed, NEW n \in Nodes, NEW f \in Frames, Bounded(n, log[n])
  PROVE  Bounded(n, Retain(n, f))
<1>1. log[n] \in Logs
  BY DEF Typed
<1>2. PICK l : l = log[n]
  OBVIOUS
<1>3. /\ l \in Logs /\ l.unknown \in Nat /\ l.unknown_bytes \in Nat /\ Size[f] \in Nat
      /\ l.frames \in Seq(Frames) /\ Bounded(n, l)
  BY <1>1, <1>2, LogAssumption DEF Logs
<1>4. PICK o : o = Cardinality(Opaque(n, l.frames))
  OBVIOUS
<1>5. o \in Nat /\ o <= l.unknown /\ l.unknown <= MAX_UNKNOWN_FRAMES /\ MAX_UNKNOWN_FRAMES \in Nat
  BY <1>3, <1>4, OpaqueFinite, LogAssumption DEF Bounded
<1>6. CASE IsUnknown(n, f)
  <2>1. PICK a : a = l.unknown + 1
    OBVIOUS
  <2>2. PICK b : b = l.unknown_bytes + Size[f]
    OBVIOUS
  <2>3. a \in Nat /\ b \in Nat
    BY <1>3, <2>1, <2>2
  <2>4. PICK m : m = [l EXCEPT !.unknown = a, !.unknown_bytes = b]
    OBVIOUS
  <2>5. m \in Logs /\ m.frames = l.frames /\ m.unknown = a
    BY <1>3, <2>3, <2>4 DEF Logs
  <2>6. Retain(n, f) = retain_unknown_frame(l, f)
    BY <1>2, <1>6 DEF Retain
  <2>7. \/ Retain(n, f) = l
        \/ ~(l.unknown >= MAX_UNKNOWN_FRAMES) /\ Retain(n, f) = retain_frame(m, f)
    BY <2>1, <2>2, <2>4, <2>6 DEF retain_unknown_frame
  <2>8. CASE ~(l.unknown >= MAX_UNKNOWN_FRAMES) /\ Retain(n, f) = retain_frame(m, f)
    <3>1. PICK r : r = retain_frame(m, f)
      OBVIOUS
    <3>2. PICK c : c = Cardinality(Opaque(n, r.frames))
      OBVIOUS
    <3>3. r \in Logs /\ r.frames \in Seq(Frames)
      BY <2>5, <3>1, RetainKeeps DEF Logs
    <3>4. c \in Nat
      BY <3>2, <3>3, OpaqueFinite
    <3>5. /\ Len(r.frames) <= SYNC_LOG_CAP
          /\ Bytes(r.frames) <= SYNC_LOG_MAX_BYTES \/ Len(r.frames) = 1
          /\ c <= o + 1 /\ r.unknown = a
      BY <1>4, <1>6, <2>5, <3>1, <3>2, RetainBounded
    <3>6. c <= r.unknown /\ r.unknown <= MAX_UNKNOWN_FRAMES
      BY <1>3, <1>5, <2>1, <2>8, <3>4, <3>5
    <3> QED BY <2>8, <3>1, <3>2, <3>5, <3>6 DEF Bounded
  <2> QED BY <1>3, <2>7, <2>8
<1>7. CASE ~IsUnknown(n, f) /\ f \in Transient
  BY <1>2, <1>3, <1>7 DEF Retain
<1>8. CASE ~IsUnknown(n, f) /\ f \notin Transient
  <2>1. PICK r : r = retain_frame(l, f)
    OBVIOUS
  <2>2. Retain(n, f) = r
    BY <1>2, <1>8, <2>1 DEF Retain
  <2>3. PICK c : c = Cardinality(Opaque(n, r.frames))
    OBVIOUS
  <2>4. r \in Logs /\ r.frames \in Seq(Frames)
    BY <1>3, <2>1, RetainKeeps DEF Logs
  <2>5. c \in Nat
    BY <2>3, <2>4, OpaqueFinite
  <2>6. /\ Len(r.frames) <= SYNC_LOG_CAP
        /\ Bytes(r.frames) <= SYNC_LOG_MAX_BYTES \/ Len(r.frames) = 1
        /\ c <= o + 0 /\ r.unknown = l.unknown
    BY <1>3, <1>4, <1>8, <2>1, <2>3, RetainBounded
  <2>7. c <= r.unknown /\ r.unknown <= MAX_UNKNOWN_FRAMES
    BY <1>3, <1>5, <2>5, <2>6
  <2> QED BY <2>2, <2>3, <2>6, <2>7 DEF Bounded
<1> QED BY <1>6, <1>7, <1>8

\* What the completeness of a pull does not depend on: the buckets, the
\* rounds, the bounds of the logs, and that only frames are owed.
Books ==
  /\ tokens \in [Nodes -> [Nodes -> 0..Burst]] /\ rounds \in [Nodes -> Nat]
  /\ owed \in [Nodes -> SUBSET Frames]
  /\ \A n \in Nodes : Bounded(n, log[n])

\* A log that is left alone, or retains one frame, stays within its bounds.
LEMMA LogsStayBounded ==
  ASSUME Typed, Books,
         UNCHANGED log \/ \E n \in Nodes, f \in Frames : log' = [log EXCEPT ![n] = Retain(n, f)]
  PROVE  \A m \in Nodes : Bounded(m, log'[m])
<1>1. CASE UNCHANGED log
  BY <1>1 DEF Books
<1>2. ASSUME NEW n \in Nodes, NEW f \in Frames, log' = [log EXCEPT ![n] = Retain(n, f)]
      PROVE  \A m \in Nodes : Bounded(m, log'[m])
  <2>1. Bounded(n, Retain(n, f))
    BY RetainStaysBounded DEF Books
  <2>2. PICK r : r = Retain(n, f)
    OBVIOUS
  <2>3. log'[n] = r /\ \A m \in Nodes : m # n => log'[m] = log[m]
    BY <1>2, <2>2 DEF Typed
  <2> QED BY <2>1, <2>2, <2>3 DEF Books
<1> QED BY <1>1, <1>2

\* handle_message takes a token where there is one, and retains one frame.
LEMMA HandleBooks ==
  ASSUME Typed, Books, NEW n \in Nodes, NEW from \in Nodes, NEW f \in Frames,
         handle_message(n, from, f)
  PROVE  /\ tokens' \in [Nodes -> [Nodes -> 0..Burst]]
         /\ \A m \in Nodes : Bounded(m, log'[m])
<1>1. tokens' \in [Nodes -> [Nodes -> 0..Burst]]
  <2>1. CASE Limited(n, from)
    BY <2>1 DEF handle_message, Books
  <2>2. CASE ~Limited(n, from)
    <3>1. tokens' = [tokens EXCEPT ![n][from] = tokens[n][from] - 1]
      BY <2>2 DEF handle_message
    <3>2. tokens[n][from] \in 0..Burst /\ tokens[n][from] # 0 /\ Burst \in Nat
      BY <2>2, SyncAssumption DEF Books, Limited
    <3>3. tokens[n][from] - 1 \in 0..Burst
      BY <3>2
    <3> QED BY <3>1, <3>3 DEF Books
  <2> QED BY <2>1, <2>2
<1>2. UNCHANGED log \/ log' = [log EXCEPT ![n] = Retain(n, f)]
  BY DEF handle_message
<1> QED BY <1>1, <1>2, LogsStayBounded

\* Every action keeps the books.
LEMMA BooksStep ==
  ASSUME CatchupInv, Books, [Next]_vars
  PROVE  Books'
<1>0. Typed /\ \A n \in Nodes : log[n].frames \in Seq(Frames)
  BY DEF CatchupInv, Typed, Logs
<1>1. ASSUME NEW n \in Nodes, NEW f \in Frames, broadcast_signed(n, f) PROVE Books'
  <2>1. UNCHANGED <<tokens, rounds, owed>> /\ log' = [log EXCEPT ![n] = Retain(n, f)]
    BY <1>1 DEF broadcast_signed
  <2> QED BY <1>0, <2>1, LogsStayBounded DEF Books
<1>2. ASSUME NEW n \in Nodes, NEW p \in Nodes, NEW f \in pending[n], Received(n, p, f) PROVE Books'
  <2>1. handle_message(n, p, f) /\ UNCHANGED <<rounds, owed>> /\ f \in Frames
    BY <1>0, <1>2 DEF Received, Typed
  <2> QED BY <1>0, <2>1, HandleBooks DEF Books
<1>3. ASSUME NEW n \in Nodes, NEW p \in Nodes, Refill(n, p) PROVE Books'
  <2>1. /\ tokens[n][p] < Burst /\ tokens' = [tokens EXCEPT ![n][p] = tokens[n][p] + 1]
        /\ UNCHANGED <<log, rounds, owed>>
    BY <1>3 DEF Refill
  <2>2. tokens[n][p] \in 0..Burst /\ Burst \in Nat
    BY SyncAssumption DEF Books
  <2>3. tokens[n][p] + 1 \in 0..Burst
    BY <2>1, <2>2
  <2>4. tokens' \in [Nodes -> [Nodes -> 0..Burst]]
    BY <2>1, <2>3 DEF Books
  <2> QED BY <2>1, <2>4 DEF Books
<1>4. ASSUME NEW n \in Nodes, NEW peers, StartPull(n, peers) PROVE Books'
  <2>1. /\ rounds' = [rounds EXCEPT ![n] = IF MaxRounds = 0 THEN 1 ELSE rounds[n] + 1]
        /\ UNCHANGED <<log, tokens, owed>>
    BY <1>4 DEF StartPull
  <2>2. rounds[n] \in Nat
    BY DEF Books
  <2>3. (IF MaxRounds = 0 THEN 1 ELSE rounds[n] + 1) \in Nat
    BY <2>2
  <2> QED BY <2>1, <2>3 DEF Books
<1>5. ASSUME NEW n \in Nodes, RequestPage(n) PROVE Books'
  <2> DEFINE t == task[n]
             s == Head(t.peers)
             o == IF t.pages # 0 THEN owed[n] ELSE IF Serves(s, n) THEN InLog(s) ELSE {}
  <2>1. t.pc = "request" /\ owed' = [owed EXCEPT ![n] = o] /\ UNCHANGED <<log, tokens, rounds>>
    BY <1>5 DEF RequestPage
  <2>2. s \in Nodes
    BY <1>0, <2>1, PullTypes
  <2>3. InLog(s) \subseteq Frames
    BY <1>0, <2>2 DEF InLog
  <2>4. o \in SUBSET Frames
    BY <2>3 DEF Books
  <2> HIDE DEF o
  <2> QED BY <2>1, <2>4 DEF Books
<1>6. ASSUME NEW n \in Nodes, ReplayFrame(n) PROVE Books'
  <2>1. task[n].pc = "replay" /\ task[n].frames # <<>> /\ UNCHANGED <<rounds, owed>>
    BY <1>6 DEF ReplayFrame
  <2>2. task[n].frames \in Seq(Frames) /\ Head(task[n].peers) \in Nodes
    BY <1>0, <2>1, PullTypes
  <2>3. Head(task[n].frames) \in Frames
    BY <2>1, <2>2, HeadTailProperties
  <2>4. \/ UNCHANGED <<log, tokens>>
        \/ handle_message(n, Head(task[n].peers), Head(task[n].frames))
    BY <1>6 DEF ReplayFrame
  <2> QED BY <1>0, <2>1, <2>2, <2>3, <2>4, HandleBooks DEF Books
<1>7. CASE UNCHANGED <<log, tokens, rounds, owed>>
  BY <1>7 DEF Books
<1>8. ASSUME NEW n \in Nodes, Expire(n) \/ Connect(n) \/ ConnectFails(n) \/ PageFails(n) \/ EndPage(n)
      PROVE  Books'
  BY <1>7, <1>8 DEF Expire, Connect, ConnectFails, PageFails, EndPage
<1>9. CASE UNCHANGED vars
  BY <1>7, <1>9 DEF vars
<1>10. ASSUME NEW n \in Nodes, PullStep(n) PROVE Books'
  BY <1>5, <1>6, <1>8, <1>10 DEF PullStep
<1>11. ASSUME NEW n \in Nodes, join(n) \/ \E p \in Nodes : maybe_sync_from_neighbor(n, p)
       PROVE  Books'
  BY <1>4, <1>11 DEF join, maybe_sync_from_neighbor
<1> QED BY <1>1, <1>2, <1>3, <1>8, <1>9, <1>10, <1>11, Zenon DEF Next

\* CatchupSync.TypeOK: types, and with LogBounded the bounds of retain_frame
\* and retain_unknown_frame: however frames arrive and expire, a log keeps
\* within its number of frames and of bytes (a single longer frame apart), and
\* the frames its node cannot read within their own share; for any bounds.
THEOREM CatchupTypes == Spec => []TypeOK
<1>1. Init => CatchupInv /\ Books
  <2> SUFFICES ASSUME Init PROVE Books
    BY CatchupInit
  <2>1. \A n : Bounded(n, EmptyLog)
    <3> SUFFICES ASSUME NEW n PROVE Bounded(n, EmptyLog)
      OBVIOUS
    <3>1. <<>> \in Seq(Frames) /\ Len(<<>>) = 0 /\ DOMAIN <<>> = {}
      OBVIOUS
    <3>2. PICK g : Tally(g, <<>>, Len(<<>>)) /\ Bytes(<<>>) = g[Len(<<>>)]
      BY <3>1, BytesIsTally
    <3>3. Bytes(<<>>) = 0
      BY <3>1, <3>2 DEF Tally
    <3>4. Opaque(n, <<>>) = {}
      BY <3>1 DEF Opaque
    <3>5. Cardinality(Opaque(n, <<>>)) = 0
      BY <3>4, FS_EmptySet
    <3> QED BY <3>1, <3>3, <3>5, LogAssumption DEF Bounded, EmptyLog
  <2>2. Burst \in 0..Burst
    BY SyncAssumption
  <2> QED BY <2>1, <2>2 DEF Init, Books
<1>2. CatchupInv /\ Books /\ [Next]_vars => (CatchupInv /\ Books)'
  BY CatchupStep, BooksStep
<1>3. CatchupInv /\ Books => TypeOK
  <2> SUFFICES ASSUME CatchupInv, Books PROVE TypeOK
    OBVIOUS
  <2>1. Typed
    BY DEF CatchupInv
  <2>2. \A n \in Nodes : log[n] \in Logs
    BY <2>1 DEF Typed
  <2>3. \A n \in Nodes :
          /\ log[n].frames \in Seq(Frames)
          /\ {log[n].start, log[n].unknown, log[n].unknown_bytes} \subseteq Nat
    BY <2>2 DEF Logs
  <2>4. TaskTypes
    <3>1. \A n \in Nodes : task[n].pc = "idle" => task[n] = Idle
      BY <2>1 DEF Typed, Pulls
    <3>2. \A n \in Nodes : task[n].pc # "idle" => task[n].peers \in Seq(Nodes) \ {<<>>}
      BY <2>1, PullTypes DEF PeerLists
    <3>3. DOMAIN task = Nodes
      BY <2>1 DEF Typed
    <3> QED BY <2>1, <3>1, <3>2, <3>3, PullTypes DEF TaskTypes
  <2>5. LogBounded
    <3> SUFFICES ASSUME NEW n \in Nodes
                 PROVE  Cardinality(Opaque(n, log[n].frames)) <= MAX_UNKNOWN_FRAMES
      BY DEF LogBounded, Books, Bounded, Opaque
    <3>1. Cardinality(Opaque(n, log[n].frames)) \in Nat /\ log[n].unknown \in Nat
      BY <2>3, OpaqueFinite
    <3>2. /\ Cardinality(Opaque(n, log[n].frames)) <= log[n].unknown
          /\ log[n].unknown <= MAX_UNKNOWN_FRAMES /\ MAX_UNKNOWN_FRAMES \in Nat
      BY LogAssumption DEF Books, Bounded
    <3> QED BY <3>1, <3>2
  <2> QED BY <2>1, <2>3, <2>4, <2>5 DEF TypeOK, Books, Typed
<1> QED BY <1>1, <1>2, <1>3, PTL DEF Spec

---------------------------------------------------------------------------
(* Every pull ends: the part of it that needs no fairness. *)

\* What a pull has ahead: the peers left, with this one; the exchanges and
\* pages left with it; the frames left of the page.
PeersAhead(t) == Len(t.peers)
PagesAhead(t) ==
  IF t.pc = "idle" THEN 0
  ELSE IF t.pc = "connect" THEN 2 * MAX_PAGES_PER_ATTEMPT + 2
  ELSE IF t.pc = "request" THEN 2 * (MAX_PAGES_PER_ATTEMPT - t.pages) + 1
  ELSE 2 * (MAX_PAGES_PER_ATTEMPT - t.pages) + 2
FramesAhead(t) == IF t.pc = "replay" THEN Len(t.frames) ELSE 0

\* u is nearer to the end than t, in the lexicographic order.
Nearer(u, t) ==
  \/ PeersAhead(u) < PeersAhead(t)
  \/ PeersAhead(u) = PeersAhead(t) /\ PagesAhead(u) < PagesAhead(t)
  \/ /\ PeersAhead(u) = PeersAhead(t) /\ PagesAhead(u) = PagesAhead(t)
     /\ FramesAhead(u) < FramesAhead(t)

Measured(t) == {PeersAhead(t), PagesAhead(t), FramesAhead(t)} \subseteq Nat

\* A pull under way stays where it is or comes nearer to its end.
PullDescends(n) ==
  \/ task'[n] = task[n]
  \/ task[n] = Idle
  \/ Measured(task[n]) /\ Measured(task'[n]) /\ Nearer(task'[n], task[n])

\* No pull replays more pages than it may.
PagesOK(t) == t.pc \in {"request", "replay"} => t.pages <= MAX_PAGES_PER_ATTEMPT

\* The measure is made of natural numbers.
LEMMA PullMeasured ==
  ASSUME NEW t \in Pulls, PagesOK(t)
  PROVE  Measured(t)
<1>0. <<>> \in Seq(Nodes) /\ PeerLists \subseteq Seq(Nodes)
  BY DEF PeerLists
<1>1. /\ t.pc \in {"idle", "connect", "request", "replay"} /\ t.peers \in Seq(Nodes)
      /\ t.pc \in {"request", "replay"} => t.pages \in Nat
      /\ t.pc = "replay" => t.frames \in Seq(Frames)
  <2>1. CASE t = Idle
    BY <1>0, <2>1 DEF Idle
  <2>2. CASE t # Idle
    <3>1. /\ t.pc \in {"connect", "request", "replay"} /\ t.peers \in PeerLists
          /\ t.pc \in {"request", "replay"} => t.pages \in Nat
          /\ t.pc = "replay" => t.frames \in Seq(Frames)
      BY <2>2 DEF Pulls
    <3> QED BY <1>0, <3>1
  <2> QED BY <2>1, <2>2
<1>2. PeersAhead(t) \in Nat
  BY <1>1, LenProperties DEF PeersAhead
<1>3. PagesAhead(t) \in Nat
  BY <1>1, SyncAssumption DEF PagesAhead, PagesOK
<1>4. FramesAhead(t) \in Nat
  BY <1>1, LenProperties DEF FramesAhead
<1> QED BY <1>2, <1>3, <1>4 DEF Measured

\* Leaving a peer leaves fewer of them.
LEMMA FewerPeers ==
  ASSUME NEW t, t.peers \in PeerLists
  PROVE  /\ NextPeer(Tail(t.peers)) \in Pulls /\ PagesOK(NextPeer(Tail(t.peers)))
         /\ Nearer(NextPeer(Tail(t.peers)), t)
         /\ AfterPeer(t) \in Pulls /\ PagesOK(AfterPeer(t)) /\ Nearer(AfterPeer(t), t)
         /\ Nearer(Idle, t)
<1>1. PICK s \in PeerLists : s = t.peers
  OBVIOUS
<1>2. s \in Seq(Nodes) /\ s # <<>>
  BY DEF PeerLists
<1>3. Tail(s) \in Seq(Nodes) /\ Len(Tail(s)) < Len(s) /\ Len(s) > 0
  BY <1>2, HeadTailProperties, LenProperties, EmptySeq
<1>4. /\ NextPeer(Tail(s)) \in Pulls /\ NextPeer(Tail(s)).pc \in {"idle", "connect"}
      /\ AfterPeer(t) \in Pulls /\ AfterPeer(t).pc \in {"idle", "connect"}
  BY <1>1, <1>3, NextPeerTypes, AfterPeerTypes
<1>5. Idle.peers = <<>> /\ Len(<<>>) = 0
  BY DEF Idle
<1>6. NextPeer(Tail(s)).peers = Tail(s)
  BY <1>5 DEF NextPeer
<1>7. Nearer(NextPeer(Tail(s)), t)
  BY <1>1, <1>3, <1>6 DEF Nearer, PeersAhead
<1>8. Nearer(Idle, t)
  BY <1>1, <1>3, <1>5 DEF Nearer, PeersAhead
<1>9. Nearer(AfterPeer(t), t)
  BY <1>1, <1>7, <1>8 DEF AfterPeer
<1> QED BY <1>1, <1>4, <1>7, <1>8, <1>9 DEF PagesOK

\* Every step of a pull brings it nearer to its end.
LEMMA PullMoves ==
  ASSUME Typed, NEW n \in Nodes, PagesOK(task[n]), PullStep(n)
  PROVE  /\ task[n] # Idle
         /\ \A m \in Nodes : m # n => task'[m] = task[m]
         /\ PagesOK(task'[n]) /\ Nearer(task'[n], task[n])
<1> DEFINE t == task[n]
           others == \A m \in Nodes : m # n => task'[m] = task[m]
           Goal == others /\ PagesOK(task'[n]) /\ Nearer(task'[n], t)
<1>0. t.pc # "idle" /\ t \in Pulls /\ t.peers \in PeerLists /\ task \in [Nodes -> Pulls]
  <2>1. t.pc # "idle"
    BY DEF PullStep, Connect, ConnectFails, RequestPage, PageFails, ReplayFrame, EndPage
  <2> QED BY <2>1, PullTypes DEF Typed
<1>1. t # Idle
  BY <1>0 DEF Idle
<1>2. PICK M \in Nat : M = MAX_PAGES_PER_ATTEMPT
  BY SyncAssumption
<1>3. ASSUME NEW u, task' = [task EXCEPT ![n] = u] PROVE task'[n] = u /\ others
  BY <1>0, <1>3
<1>4. CASE ConnectFails(n) \/ PageFails(n)
  <2>1. \/ task' = [task EXCEPT ![n] = NextPeer(Tail(t.peers))]
        \/ task' = [task EXCEPT ![n] = AfterPeer(t)]
    BY <1>4 DEF ConnectFails, PageFails
  <2> QED BY <1>0, <1>1, <1>3, <2>1, FewerPeers
<1>5. CASE Connect(n)
  <2> DEFINE u == [pc |-> "request", peers |-> t.peers, cursor |-> 0, pages |-> 0,
                   total |-> 0, total_bytes |-> 0]
  <2>1. t.pc = "connect" /\ task' = [task EXCEPT ![n] = u]
    BY <1>5 DEF Connect
  <2>2. u.pc = "request" /\ u.pages = 0 /\ u.peers = t.peers
    OBVIOUS
  <2> HIDE DEF u
  <2>3. PagesOK(u) /\ Nearer(u, t)
    BY <1>2, <2>1, <2>2 DEF PagesOK, Nearer, PeersAhead, PagesAhead
  <2> QED BY <1>1, <1>3, <2>1, <2>3
<1>6. CASE RequestPage(n)
  <2> DEFINE r == Answer(Head(t.peers), n, t.cursor)
             u == [pc |-> "replay", peers |-> t.peers, cursor |-> t.cursor,
                   pages |-> t.pages + 1, total |-> t.total,
                   total_bytes |-> t.total_bytes, frames |-> r.frames,
                   next_cursor |-> r.next_cursor]
             over == t.pages + 1 > MAX_PAGES_PER_ATTEMPT
  <2>1. /\ t.pc = "request"
        /\ task' = [task EXCEPT ![n] = IF over THEN AfterPeer(t) ELSE u]
    BY <1>6 DEF RequestPage
  <2>2. CASE over
    BY <1>0, <1>1, <1>3, <2>1, <2>2, FewerPeers
  <2>3. CASE ~over
    <3>1. task' = [task EXCEPT ![n] = u]
      BY <2>1, <2>3
    <3>2. u.pc = "replay" /\ u.peers = t.peers /\ u.pages = t.pages + 1
      OBVIOUS
    <3>3. t.pages \in Nat
      BY <2>1, PullTypes
    <3> HIDE DEF u
    <3>4. PagesOK(u) /\ Nearer(u, t)
      BY <1>2, <2>1, <2>3, <3>2, <3>3 DEF PagesOK, Nearer, PeersAhead, PagesAhead
    <3> QED BY <1>1, <1>3, <3>1, <3>4
  <2> QED BY <2>2, <2>3
<1>7. CASE ReplayFrame(n)
  <2>1. t.pc = "replay" /\ t.frames # <<>>
    BY <1>7 DEF ReplayFrame
  <2>2. t.frames \in Seq(Frames) /\ t.pages \in Nat
    BY <2>1, PullTypes
  <2>3. CASE task' = [task EXCEPT ![n] = Idle]
    <3>1. PagesOK(Idle)
      BY DEF PagesOK, Idle
    <3> QED BY <1>0, <1>1, <1>3, <2>3, <3>1, FewerPeers
  <2>4. CASE \E a, b : task' = [task EXCEPT ![n] =
                                  [t EXCEPT !.frames = Tail(t.frames), !.total = a,
                                            !.total_bytes = b]]
    <3>1. PICK a, b : task' = [task EXCEPT ![n] =
                                 [t EXCEPT !.frames = Tail(t.frames), !.total = a,
                                           !.total_bytes = b]]
      BY <2>4
    <3>2. PICK u : u = [t EXCEPT !.frames = Tail(t.frames), !.total = a, !.total_bytes = b]
      OBVIOUS
    <3>3. t \in [pc : {"replay"}, peers : PeerLists, cursor : Nat, pages : Nat, total : Nat,
                 total_bytes : Nat, frames : Seq(Frames), next_cursor : Nat \cup {None}]
      BY <1>0, <2>1 DEF Pulls, Idle
    <3>4. u.pc = "replay" /\ u.peers = t.peers /\ u.pages = t.pages /\ u.frames = Tail(t.frames)
      BY <3>2, <3>3
    <3>5. Len(Tail(t.frames)) < Len(t.frames)
      BY <2>1, <2>2, HeadTailProperties, LenProperties
    <3>6. PagesOK(u) /\ Nearer(u, t)
      BY <2>1, <3>4, <3>5 DEF PagesOK, Nearer, PeersAhead, PagesAhead, FramesAhead
    <3> QED BY <1>1, <1>3, <3>1, <3>2, <3>6
  <2>5. \/ task' = [task EXCEPT ![n] = Idle]
        \/ task' = [task EXCEPT ![n].frames = Tail(t.frames), ![n].total = t.total + 1,
                                ![n].total_bytes = t.total_bytes + Size[Head(t.frames)]]
    BY <1>7 DEF ReplayFrame
  <2>6. ASSUME NEW x, NEW a, NEW b,
               task' = [task EXCEPT ![n].frames = x, ![n].total = a, ![n].total_bytes = b]
        PROVE  task' = [task EXCEPT ![n] = [t EXCEPT !.frames = x, !.total = a,
                                                     !.total_bytes = b]]
    BY <1>0, <2>6
  <2>7. CASE task' = [task EXCEPT ![n].frames = Tail(t.frames), ![n].total = t.total + 1,
                              ![n].total_bytes = t.total_bytes + Size[Head(t.frames)]]
    <3>1. PICK x, a, b : /\ x = Tail(t.frames) /\ a = t.total + 1
                         /\ b = t.total_bytes + Size[Head(t.frames)]
      OBVIOUS
    <3>2. task' = [task EXCEPT ![n].frames = x, ![n].total = a, ![n].total_bytes = b]
      BY <2>7, <3>1
    <3>3. task' = [task EXCEPT ![n] = [t EXCEPT !.frames = x, !.total = a, !.total_bytes = b]]
      BY <2>6, <3>2
    <3> QED BY <2>4, <3>1, <3>3
  <2> QED BY <2>3, <2>5, <2>7
<1>8. CASE EndPage(n)
  <2> DEFINE u == [pc |-> "request", peers |-> t.peers, cursor |-> t.next_cursor,
                   pages |-> t.pages, total |-> t.total, total_bytes |-> t.total_bytes]
             go == t.next_cursor # None /\ t.next_cursor > t.cursor
  <2>1. /\ t.pc = "replay"
        /\ task' = [task EXCEPT ![n] = IF go THEN u ELSE AfterPeer(t)]
    BY <1>8 DEF EndPage
  <2>2. CASE ~go
    BY <1>0, <1>1, <1>3, <2>1, <2>2, FewerPeers
  <2>3. CASE go
    <3>1. task' = [task EXCEPT ![n] = u]
      BY <2>1, <2>3
    <3>2. u.pc = "request" /\ u.peers = t.peers /\ u.pages = t.pages
      OBVIOUS
    <3>3. t.pages \in Nat
      BY <2>1, PullTypes
    <3> HIDE DEF u
    <3>4. PagesOK(u) /\ Nearer(u, t)
      BY <1>2, <2>1, <3>2, <3>3 DEF PagesOK, Nearer, PeersAhead, PagesAhead
    <3> QED BY <1>1, <1>3, <3>1, <3>4
  <2> QED BY <2>2, <2>3
<1> QED BY <1>1, <1>4, <1>5, <1>6, <1>7, <1>8 DEF PullStep

\* Other steps start a pull or leave all as they are.
LEMMA PullsOtherwise ==
  ASSUME Typed, [Next]_vars, \A n \in Nodes : ~PullStep(n), NEW n \in Nodes
  PROVE  \/ task'[n] = task[n]
         \/ /\ task[n] = Idle
            /\ \E peers \in Seq(Nodes) : task'[n] = NextPeer(peers)
<1>1. ASSUME NEW m \in Nodes, NEW peers \in Seq(Nodes), StartPull(m, peers)
      PROVE  \/ task'[n] = task[n]
             \/ task[n] = Idle /\ \E q \in Seq(Nodes) : task'[n] = NextPeer(q)
  BY <1>1 DEF StartPull, Typed
<1>2. \A m \in Nodes : Bootstrap[m] \in Seq(Nodes)
  BY SyncAssumption
<1>3. \A p \in Nodes : <<p>> \in Seq(Nodes)
  OBVIOUS
<1>4. ASSUME NEW m \in Nodes, join(m) \/ \E p \in Nodes : maybe_sync_from_neighbor(m, p)
      PROVE  \/ task'[n] = task[n]
             \/ task[n] = Idle /\ \E q \in Seq(Nodes) : task'[n] = NextPeer(q)
  BY <1>1, <1>2, <1>3, <1>4 DEF join, maybe_sync_from_neighbor
<1>5. CASE task' = task
  BY <1>5
<1> QED
  BY <1>4, <1>5 DEF Next, broadcast_signed, Received, Expire, Refill, vars

\* A pull under way only comes nearer to its end: every exchange uses up one of
\* MAX_PAGES_PER_ATTEMPT, every replayed frame one of its page, and a peer that
\* is left is not tried again, so that no pull runs for ever, whatever pages
\* it is sent and however the logs grow.  PullsEnd adds only that its steps are
\* taken.
THEOREM PullsOnlyDescend == Spec => [][\A n \in Nodes : PullDescends(n)]_vars
<1> DEFINE Within == \A n \in Nodes : PagesOK(task[n])
<1>1. Init => Within
  BY DEF Init, Idle, PagesOK
<1>2. ASSUME CatchupInv, CatchupInv', Within, [Next]_vars
      PROVE  Within' /\ \A n \in Nodes : PullDescends(n)
  <2> USE <1>2
  <2>1. Typed /\ Typed'
    BY DEF CatchupInv
  <2>2. ASSUME NEW n \in Nodes PROVE PagesOK(task'[n])
    <3>1. CASE \E m \in Nodes : PullStep(m)
      BY <2>1, <3>1, PullMoves
    <3>2. CASE \A m \in Nodes : ~PullStep(m)
      <4>1. ASSUME NEW q \in Seq(Nodes) PROVE PagesOK(NextPeer(q))
        BY <4>1, NextPeerTypes DEF PagesOK
      <4> QED BY <2>1, <3>2, <4>1, PullsOtherwise
    <3> QED BY <3>1, <3>2
  <2>3. ASSUME NEW n \in Nodes PROVE Measured(task[n]) /\ Measured(task'[n])
    BY <2>1, <2>2, PullMeasured DEF Typed
  <2>4. ASSUME NEW n \in Nodes PROVE PullDescends(n)
    <3>1. CASE \E m \in Nodes : PullStep(m)
      BY <2>1, <2>3, <3>1, PullMoves DEF PullDescends
    <3>2. CASE \A m \in Nodes : ~PullStep(m)
      BY <2>1, <3>2, PullsOtherwise DEF PullDescends
    <3> QED BY <3>1, <3>2
  <2>5. Within'
    BY <2>2
  <2> QED BY <2>4, <2>5
<1>3. Init => CatchupInv
  BY CatchupInit
<1>4. CatchupInv /\ [Next]_vars => CatchupInv'
  BY CatchupStep
<1> HIDE DEF Within
<1>5. CatchupInv /\ CatchupInv' /\ Within /\ [Next]_vars
        => Within' /\ [\A n \in Nodes : PullDescends(n)]_vars
  BY <1>2
<1> QED BY <1>1, <1>3, <1>4, <1>5, PTL DEF Spec
=============================================================================
