--------------------------- MODULE Consent_proofs ---------------------------
(***************************************************************************)
(* Proofs about Consent for any number of offers, UIs, drops and links and *)
(* any capacities: nothing is fetched without consent, an answer that gets *)
(* through decides, no question stays behind when its asker returns, and   *)
(* every offer is decided once.                                            *)
(***************************************************************************)
EXTENDS Consent, NaturalsInduction, WellFoundedInduction, TLAPS

Answer == [id : Offers, verdict : Verdicts]

Typed ==
  /\ pumpq \in Seq(Offers) /\ ask \in [Offers -> Stages]
  /\ pending \subseteq Offers
  /\ slot \in [Offers -> Verdicts \cup {None}]
  /\ reached \in [Offers -> Verdicts \cup {None}]
  /\ out \in [Uis -> Seq(Offers)] /\ inbox \in [Uis -> Seq(Offers)]
  /\ cards \in [Uis -> SUBSET Offers]
  /\ cmds \in [Uis -> Seq(Answer)] /\ ans \in [Uis -> Seq(Answer)]
  /\ busy \in [Uis -> Drops \cup {None}] /\ requested \in [Uis -> SUBSET Drops]
  /\ wanted \subseteq Drops
  /\ said \in [Offers -> Seq(Verdicts)]

\* Membership of a queue, queues without repetition, and answers in a queue:
\* one about o, and the verdict of the first about o.
Has(q, o) == \E i \in 1..Len(q) : q[i] = o
Once(q) == \A i, j \in 1..Len(q) : q[i] = q[j] => i = j
HasId(q, o) == \E i \in 1..Len(q) : q[i].id = o
First(q, o, v) ==
  \E i \in 1..Len(q) : /\ q[i].id = o /\ q[i].verdict = v
                       /\ \A j \in 1..(i - 1) : q[j].id # o

\* The stages before a question reaches a UI.
Early == {"none", "queued", "lost", "check", "auto", "pick", "send"}

\* Verdict v about o is one the person, or their request, stands behind.
Backed(v, o) ==
  IF said[o] = <<>> THEN v = "yes" /\ DropOf[o] \in wanted ELSE v = Head(said[o])

\* An offer waits for the pump once; its stage tells what its question, its
\* channel and the verdict that reached it look like.
Phase(o) ==
  /\ Has(pumpq, o) => ask[o] = "queued"
  /\ ask[o] \in Early => reached[o] = None /\ slot[o] = None
  /\ ask[o] = "auto" => auto_accept
  /\ ask[o] = "send" => o \in pending
  /\ ask[o] = "wait" =>
       IF reached[o] = None THEN o \in pending /\ slot[o] = None
       ELSE o \notin pending /\ slot[o] = reached[o]
  /\ ask[o] = "expired" => reached[o] = None
  /\ ask[o] = "fetch" => reached[o] = "yes"
  /\ ask[o] = "declined" => reached[o] # "yes"

\* Nobody has said or answered anything about o.
Untouched(o) ==
  /\ said[o] = <<>> /\ reached[o] = None
  /\ \A u \in Uis : ~HasId(cmds[u], o) /\ ~HasId(ans[u], o)

\* A question is on its way to, or shown by, one UI, in one place.
OnePlace(o) ==
  /\ \A u, v \in Uis :
       /\ Has(out[u], o) /\ Has(out[v], o) => u = v
       /\ Has(inbox[u], o) /\ Has(inbox[v], o) => u = v
       /\ o \in cards[u] /\ o \in cards[v] => u = v
       /\ ~(Has(out[u], o) /\ Has(inbox[v], o))
       /\ ~(Has(out[u], o) /\ o \in cards[v])
       /\ ~(Has(inbox[u], o) /\ o \in cards[v])
  /\ ask[o] \in Early =>
       \A u \in Uis : ~Has(out[u], o) /\ ~Has(inbox[u], o) /\ o \notin cards[u]

\* What the person has not yet been asked, they have not answered; a card
\* still shown after a click has that click ahead of any other.
Asked(o) ==
  /\ ask[o] \in Early => Untouched(o)
  /\ \A u \in Uis :
       /\ Has(out[u], o) \/ Has(inbox[u], o) => Untouched(o)
       /\ o \in cards[u] /\ said[o] = <<>> => Untouched(o)
       /\ o \in cards[u] /\ said[o] # <<>> => HasId(cmds[u], o)

\* The first answer to arrive while the question is open is backed.
Answered(o) ==
  /\ reached[o] # None => Backed(reached[o], o)
  /\ ask[o] = "wait" /\ reached[o] = None =>
       \A u \in Uis, v \in Verdicts :
         /\ First(ans[u], o, v) => Backed(v, o)
         /\ ~HasId(ans[u], o) /\ First(cmds[u], o, v) => Backed(v, o)

Queues ==
  /\ Once(pumpq)
  /\ \A u \in Uis :
       /\ Once(out[u]) /\ Once(inbox[u])
       /\ cmds[u] # <<>> => Kind[u] = "app"
       /\ requested[u] \subseteq wanted
       /\ busy[u] # None => busy[u] \in wanted

IInv ==
  /\ Typed /\ Queues
  /\ \A o \in Offers : Phase(o) /\ OnePlace(o) /\ Asked(o) /\ Answered(o)
---------------------------------------------------------------------------
(* Queues. *)

\* Appending to a queue adds one member, and keeps a queue without repetition
\* so when the member is new.
LEMMA HasAppend ==
  ASSUME NEW S, NEW q \in Seq(S), NEW x \in S
  PROVE  /\ Append(q, x) \in Seq(S)
         /\ \A o : Has(Append(q, x), o) <=> Has(q, o) \/ o = x
         /\ Once(q) /\ ~Has(q, x) => Once(Append(q, x))
<1>1. /\ Append(q, x) \in Seq(S) /\ Len(Append(q, x)) = Len(q) + 1
      /\ \A i \in 1..Len(q) : Append(q, x)[i] = q[i]
      /\ Append(q, x)[Len(q) + 1] = x
      /\ Len(q) \in Nat
  OBVIOUS
<1>2. \A o : Has(Append(q, x), o) <=> Has(q, o) \/ o = x
  BY <1>1 DEF Has
<1>3. Once(q) /\ ~Has(q, x) => Once(Append(q, x))
  BY <1>1 DEF Has, Once
<1> QED
  BY <1>1, <1>2, <1>3

\* Taking the first of a queue removes it, and nothing else when the queue is
\* without repetition.
LEMMA HasTail ==
  ASSUME NEW S, NEW q \in Seq(S), q # <<>>
  PROVE  /\ Tail(q) \in Seq(S) /\ Head(q) \in S /\ Has(q, Head(q))
         /\ \A o : Has(q, o) <=> o = Head(q) \/ Has(Tail(q), o)
         /\ Once(q) => Once(Tail(q)) /\ ~Has(Tail(q), Head(q))
<1>1. /\ Tail(q) \in Seq(S) /\ Head(q) \in S /\ Len(q) \in Nat \ {0}
      /\ Len(Tail(q)) = Len(q) - 1 /\ Head(q) = q[1]
      /\ \A i \in 1..(Len(q) - 1) : Tail(q)[i] = q[i + 1]
  OBVIOUS
<1>2. ASSUME NEW o, Has(Tail(q), o)
      PROVE  Has(q, o)
  BY <1>1, <1>2 DEF Has
<1>3. ASSUME NEW o, Has(q, o), o # Head(q)
      PROVE  Has(Tail(q), o)
  <2>1. PICK i \in 1..Len(q) : q[i] = o
    BY <1>3 DEF Has
  <2>2. i - 1 \in 1..(Len(q) - 1) /\ Tail(q)[i - 1] = q[i]
    BY <2>1, <1>1, <1>3
  <2> QED
    BY <2>1, <2>2, <1>1 DEF Has
<1>4. Once(q) => Once(Tail(q)) /\ ~Has(Tail(q), Head(q))
  BY <1>1 DEF Once, Has
<1>5. Has(q, Head(q))
  BY <1>1 DEF Has
<1> QED
  BY <1>1, <1>2, <1>3, <1>4, <1>5

\* The same of a bounded broadcast channel.
LEMMA HasBroadcast ==
  ASSUME NEW S, NEW q \in Seq(S), NEW x \in S, NEW cap \in Nat \ {0}
  PROVE  /\ Broadcast(q, x, cap) \in Seq(S)
         /\ \A o : Has(Broadcast(q, x, cap), o) => Has(q, o) \/ o = x
         /\ Once(q) /\ ~Has(q, x) =>
              /\ Once(Broadcast(q, x, cap))
              /\ Len(q) = cap => ~Has(Broadcast(q, x, cap), Head(q)) /\ Has(q, Head(q))
<1> DEFINE r == IF Len(q) = cap THEN Tail(q) ELSE q
<1>1. Len(q) = cap => q # <<>>
  OBVIOUS
<1>2. /\ r \in Seq(S) /\ \A o : Has(r, o) => Has(q, o)
      /\ Once(q) => Once(r)
      /\ Once(q) /\ Len(q) = cap => ~Has(r, Head(q)) /\ Has(q, Head(q))
  BY <1>1, HasTail
<1>3. Broadcast(q, x, cap) = Append(r, x)
  BY DEF Broadcast
<1> HIDE DEF r
<1>4. /\ Append(r, x) \in Seq(S)
      /\ \A o : Has(Append(r, x), o) <=> Has(r, o) \/ o = x
      /\ Once(r) /\ ~Has(r, x) => Once(Append(r, x))
  BY <1>2, HasAppend
<1> QED
  BY <1>2, <1>3, <1>4

\* An answer appended to a queue is the first about its offer only when there
\* was none.
LEMMA FirstAppend ==
  ASSUME NEW q \in Seq(Answer), NEW a \in Answer
  PROVE  /\ Append(q, a) \in Seq(Answer) /\ Append(q, a) # <<>>
         /\ \A o : HasId(Append(q, a), o) <=> HasId(q, o) \/ a.id = o
         /\ \A o, v : First(Append(q, a), o, v) =>
              First(q, o, v) \/ (~HasId(q, o) /\ a.id = o /\ a.verdict = v)
<1>1. /\ Append(q, a) \in Seq(Answer) /\ Len(Append(q, a)) = Len(q) + 1
      /\ \A i \in 1..Len(q) : Append(q, a)[i] = q[i]
      /\ Append(q, a)[Len(q) + 1] = a
      /\ Len(q) \in Nat /\ Append(q, a) # <<>>
  OBVIOUS
<1>2. \A o : HasId(Append(q, a), o) <=> HasId(q, o) \/ a.id = o
  BY <1>1 DEF HasId
<1>3. ASSUME NEW o, NEW v, First(Append(q, a), o, v)
      PROVE  First(q, o, v) \/ (~HasId(q, o) /\ a.id = o /\ a.verdict = v)
  <2>1. PICK i \in 1..(Len(q) + 1) :
          /\ Append(q, a)[i].id = o /\ Append(q, a)[i].verdict = v
          /\ \A j \in 1..(i - 1) : Append(q, a)[j].id # o
    BY <1>1, <1>3 DEF First
  <2>2. CASE i = Len(q) + 1
    BY <2>1, <2>2, <1>1 DEF HasId
  <2>3. CASE i \in 1..Len(q)
    <3>1. \A j \in 1..(i - 1) : j \in 1..Len(q)
      BY <2>3, <1>1
    <3> QED
      BY <2>1, <2>3, <1>1, <3>1 DEF First
  <2> QED
    BY <2>2, <2>3, <1>1
<1> QED
  BY <1>1, <1>2, <1>3

\* The head of a queue of answers is the first about its offer, and taking it
\* changes nothing for the others.
LEMMA FirstTail ==
  ASSUME NEW q \in Seq(Answer), q # <<>>
  PROVE  /\ Tail(q) \in Seq(Answer) /\ Head(q) \in Answer
         /\ HasId(q, Head(q).id) /\ First(q, Head(q).id, Head(q).verdict)
         /\ \A o : HasId(q, o) <=> Head(q).id = o \/ HasId(Tail(q), o)
         /\ \A o, v : First(Tail(q), o, v) /\ Head(q).id # o => First(q, o, v)
<1>1. /\ Tail(q) \in Seq(Answer) /\ Head(q) \in Answer /\ Len(q) \in Nat \ {0}
      /\ Len(Tail(q)) = Len(q) - 1 /\ Head(q) = q[1]
      /\ \A i \in 1..(Len(q) - 1) : Tail(q)[i] = q[i + 1]
  OBVIOUS
<1>2. HasId(q, Head(q).id) /\ First(q, Head(q).id, Head(q).verdict)
  BY <1>1 DEF HasId, First
<1>3. ASSUME NEW o, HasId(q, o), Head(q).id # o
      PROVE  HasId(Tail(q), o)
  <2>1. PICK i \in 1..Len(q) : q[i].id = o
    BY <1>3 DEF HasId
  <2>2. i - 1 \in 1..(Len(q) - 1) /\ Tail(q)[i - 1] = q[i]
    BY <2>1, <1>1, <1>3
  <2> QED
    BY <2>1, <2>2, <1>1 DEF HasId
<1>4. ASSUME NEW o, HasId(Tail(q), o)
      PROVE  HasId(q, o)
  BY <1>1, <1>4 DEF HasId
<1>5. ASSUME NEW o, NEW v, First(Tail(q), o, v), Head(q).id # o
      PROVE  First(q, o, v)
  <2>1. PICK i \in 1..(Len(q) - 1) :
          /\ q[i + 1].id = o /\ q[i + 1].verdict = v
          /\ \A j \in 1..(i - 1) : Tail(q)[j].id # o
    BY <1>1, <1>5 DEF First
  <2>2. ASSUME NEW j \in 1..i
        PROVE  q[j].id # o
    <3>1. CASE j = 1
      BY <3>1, <1>1, <1>5
    <3>2. CASE j # 1
      <4>1. j - 1 \in 1..(i - 1) /\ j - 1 \in 1..(Len(q) - 1)
        BY <3>2, <2>1, <1>1
      <4>2. Tail(q)[j - 1] = q[j]
        BY <4>1, <1>1
      <4> QED
        BY <4>1, <4>2, <2>1
    <3> QED
      BY <3>1, <3>2
  <2>3. i + 1 \in 1..Len(q) /\ (i + 1) - 1 = i
    BY <1>1
  <2> QED
    BY <2>1, <2>2, <2>3 DEF First
<1> QED
  BY <1>1, <1>2, <1>3, <1>4, <1>5

\* A prefix of a queue of answers has no other first answers.
LEMMA FirstPrefix ==
  ASSUME NEW q \in Seq(Answer), NEW k \in 0..Len(q)
  PROVE  /\ SubSeq(q, 1, k) \in Seq(Answer)
         /\ \A o : HasId(SubSeq(q, 1, k), o) => HasId(q, o)
         /\ \A o, v : First(SubSeq(q, 1, k), o, v) => First(q, o, v)
<1>1. /\ SubSeq(q, 1, k) \in Seq(Answer) /\ Len(SubSeq(q, 1, k)) = k
      /\ \A i \in 1..k : SubSeq(q, 1, k)[i] = q[i]
      /\ Len(q) \in Nat
  OBVIOUS
<1>2. \A o : HasId(SubSeq(q, 1, k), o) => HasId(q, o)
  BY <1>1 DEF HasId
<1>3. ASSUME NEW o, NEW v, First(SubSeq(q, 1, k), o, v)
      PROVE  First(q, o, v)
  <2>1. PICK i \in 1..k :
          /\ q[i].id = o /\ q[i].verdict = v
          /\ \A j \in 1..(i - 1) : SubSeq(q, 1, k)[j].id # o
    BY <1>1, <1>3 DEF First
  <2>2. \A j \in 1..(i - 1) : j \in 1..k
    OBVIOUS
  <2> QED
    BY <2>1, <2>2, <1>1 DEF First
<1> QED
  BY <1>1, <1>2, <1>3

\* Nothing is in an empty queue.
LEMMA Empty ==
  /\ Once(<<>>)
  /\ \A o : ~Has(<<>>, o) /\ ~HasId(<<>>, o) /\ \A v : ~First(<<>>, o, v)
BY DEF Has, HasId, First, Once

---------------------------------------------------------------------------
(* The invariant holds at first and is kept by every action. *)

\* The variables the invariant is about.
seen == <<pumpq, ask, pending, slot, reached, out, inbox, cards, cmds, ans, busy,
          requested, wanted, said>>

\* Nothing has happened yet.
LEMMA InitInv == Init => IInv
<1> SUFFICES ASSUME Init
             PROVE  IInv
  OBVIOUS
<1>1. Typed
  BY DEF Init, Typed, Stages
<1>2. Queues
  BY Empty DEF Init, Queues
<1>3. \A o \in Offers : Phase(o) /\ OnePlace(o) /\ Asked(o) /\ Answered(o)
  BY Empty DEF Init, Phase, OnePlace, Asked, Untouched, Answered, Early
<1> QED
  BY <1>1, <1>2, <1>3 DEF IInv

\* Steps that leave questions, answers and requests alone.
LEMMA SeenKept ==
  ASSUME IInv, UNCHANGED seen
  PROVE  IInv'
BY DEF IInv, seen, Typed, Queues, Phase, OnePlace, Asked, Untouched, Answered, Backed

\* A new offer waits for the pump, in place of the oldest of a full queue.
LEMMA OfferReceivedKeeps ==
  ASSUME IInv, NEW o \in Offers, OfferReceived(o)
  PROVE  IInv'
<1> USE ConsentAssumption
<1>1. pumpq \in Seq(Offers) /\ Once(pumpq) /\ ~Has(pumpq, o) /\ PumpCap \in Nat \ {0}
  BY DEF IInv, Typed, Queues, Phase, OfferReceived
<1>2. /\ pumpq' = Broadcast(pumpq, o, PumpCap)
      /\ pumpq' \in Seq(Offers) /\ Once(pumpq')
      /\ \A x : Has(pumpq', x) => Has(pumpq, x) \/ x = o
      /\ Len(pumpq) = PumpCap => ~Has(pumpq', Head(pumpq)) /\ Has(pumpq, Head(pumpq))
  BY <1>1, HasBroadcast DEF OfferReceived
<1>3. /\ ask[o] = "none" /\ ask'[o] = "queued"
      /\ \A x \in Offers \ {o} :
           IF Len(pumpq) = PumpCap /\ x = Head(pumpq)
           THEN ask'[x] = "lost" /\ ask[x] = "queued" ELSE ask'[x] = ask[x]
  BY <1>2 DEF OfferReceived, IInv, Phase
<1>4. Typed'
  BY <1>2, <1>3 DEF OfferReceived, IInv, Typed, Stages, connVars, uiVars
<1>5. Queues'
  BY <1>2 DEF OfferReceived, IInv, Queues, connVars, uiVars
<1>6. ASSUME NEW x \in Offers
      PROVE  Phase(x)'
  BY <1>2, <1>3 DEF OfferReceived, IInv, Phase, Early
<1>7. ASSUME NEW x \in Offers
      PROVE  (OnePlace(x) /\ Asked(x) /\ Answered(x))'
  BY <1>3 DEF OfferReceived, IInv, OnePlace, Asked, Untouched, Answered, Backed, Early,
              connVars, uiVars
<1> QED
  BY <1>4, <1>5, <1>6, <1>7 DEF IInv

\* The pump takes an offer.
LEMMA PumpKeeps ==
  ASSUME IInv, Pump
  PROVE  IInv'
<1> DEFINE o == Head(pumpq)
<1>1. /\ o \in Offers /\ Has(pumpq, o) /\ pumpq' \in Seq(Offers) /\ Once(pumpq')
      /\ ~Has(pumpq', o) /\ \A x : Has(pumpq', x) => Has(pumpq, x)
  BY HasTail DEF IInv, Typed, Queues, Pump
<1> HIDE DEF o
<1>2. ask[o] = "queued" /\ ask' = [ask EXCEPT ![o] = "check"]
  BY <1>1 DEF IInv, Phase, Pump, Go, o
<1>3. Typed'
  BY <1>1, <1>2 DEF Pump, IInv, Typed, Stages, connVars, uiVars
<1>4. Queues'
  BY <1>1 DEF Pump, IInv, Queues, connVars, uiVars
<1>5. ASSUME NEW x \in Offers
      PROVE  Phase(x)'
  BY <1>1, <1>2 DEF Pump, IInv, Typed, Phase, Early
<1>6. ASSUME NEW x \in Offers
      PROVE  (OnePlace(x) /\ Asked(x) /\ Answered(x))'
  BY <1>1, <1>2 DEF Pump, IInv, Typed, OnePlace, Asked, Untouched, Answered, Backed, Early,
              connVars, uiVars
<1> QED
  BY <1>3, <1>4, <1>5, <1>6 DEF IInv

\* The consent task moves on without a word to or from a UI: what lies in
\* queues is as before, and only o changes its stage.
LEMMA QuietStage ==
  ASSUME IInv, NEW o \in Offers, NEW s \in Stages, Go(o, s),
         UNCHANGED <<pumpq, reached, out, uiVars>>,
         ask[o] # "queued",
         pending' \subseteq Offers,
         \A x \in Offers \ {o} :
           slot'[x] = slot[x] /\ (x \in pending' <=> x \in pending),
         slot' \in [Offers -> Verdicts \cup {None}],
         s \in Early => ask[o] \in Early,
         s # "wait",
         Phase(o)'
  PROVE  IInv'
<1>1. ask \in [Offers -> Stages] /\ ask' = [ask EXCEPT ![o] = s]
  BY DEF IInv, Typed, Go
<1>2. Typed'
  BY <1>1 DEF IInv, Typed, uiVars
<1>3. Queues'
  BY DEF IInv, Queues, uiVars
<1>4. ASSUME NEW x \in Offers
      PROVE  Phase(x)'
  BY <1>1 DEF IInv, Phase
<1>5. ASSUME NEW x \in Offers
      PROVE  (OnePlace(x) /\ Asked(x) /\ Answered(x))'
  BY <1>1 DEF IInv, OnePlace, Asked, Untouched, Answered, Backed, uiVars
<1> QED
  BY <1>2, <1>3, <1>4, <1>5 DEF IInv

\* The consent task looks for a UI to ask.
LEMMA CheckKeeps ==
  ASSUME IInv, NEW o \in Offers, Check(o)
  PROVE  IInv'
<1> DEFINE s == IF auto_accept /\ ~has_live_ui THEN "auto" ELSE "pick"
<1>1. Go(o, s) /\ s \in {"auto", "pick"} /\ (s = "auto" => auto_accept) /\ ask[o] = "check"
  BY DEF Check
<1> HIDE DEF s
<1>2. s \in Stages /\ s \in Early /\ ask[o] \in Early /\ s # "wait"
  BY <1>1 DEF Stages, Early
<1>3. ask'[o] = s
  BY <1>1 DEF IInv, Typed, Go
<1>4. Phase(o)'
  BY <1>1, <1>3 DEF Check, IInv, Phase, Early
<1>5. UNCHANGED <<pumpq, reached, out, uiVars, pending, slot>>
  BY DEF Check, connVars
<1> QED
  BY <1>1, <1>2, <1>4, <1>5, QuietStage DEF IInv, Typed

\* The question is entered, or declined for want of a UI.
LEMMA PickKeeps ==
  ASSUME IInv, NEW o \in Offers, Pick(o)
  PROVE  IInv'
<1>1. /\ ask[o] = "pick" /\ UNCHANGED <<pumpq, slot, reached, out, uiVars>>
      /\ \/ Go(o, "declined") /\ UNCHANGED pending
         \/ Go(o, "send") /\ pending' = pending \cup {o}
  BY DEF Pick
<1>2. ask \in [Offers -> Stages] /\ slot \in [Offers -> Verdicts \cup {None}]
      /\ pending \subseteq Offers /\ pending' \subseteq Offers
  BY <1>1 DEF IInv, Typed
<1>3. reached[o] = None /\ slot[o] = None /\ ~Has(pumpq, o)
  BY <1>1 DEF IInv, Phase, Early
<1>4. None # "yes"
  BY ConsentAssumption
<1>5. CASE Go(o, "declined") /\ UNCHANGED pending
  <2>1. ask'[o] = "declined"
    BY <1>2, <1>5 DEF Go
  <2>2. Phase(o)'
    BY <1>1, <1>3, <1>4, <2>1 DEF Phase, Early
  <2> QED
    BY <1>1, <1>2, <1>5, <2>2, QuietStage DEF Stages, Early
<1>6. CASE Go(o, "send") /\ pending' = pending \cup {o}
  <2>1. ask'[o] = "send"
    BY <1>2, <1>6 DEF Go
  <2>2. Phase(o)'
    BY <1>1, <1>3, <1>6, <2>1 DEF Phase, Early
  <2> QED
    BY <1>1, <1>2, <1>6, <2>2, QuietStage DEF Stages, Early
<1> QED
  BY <1>1, <1>5, <1>6

\* The question goes to the outbound channel of one UI, its first place.
LEMMA SendAskKeeps ==
  ASSUME IInv, NEW o \in Offers, SendAsk(o)
  PROVE  IInv'
<1> DEFINE u == target[o]
<1>1. ask[o] = "send" /\ UNCHANGED <<pumpq, reached, uiVars>>
  BY DEF SendAsk
<1>2. /\ ask \in [Offers -> Stages] /\ slot \in [Offers -> Verdicts \cup {None}]
      /\ pending \subseteq Offers
  BY DEF IInv, Typed
<1>3. reached[o] = None /\ slot[o] = None /\ ~Has(pumpq, o) /\ o \in pending /\ Untouched(o)
      /\ \A v \in Uis : ~Has(out[v], o) /\ ~Has(inbox[v], o) /\ o \notin cards[v]
  BY <1>1 DEF IInv, Phase, Asked, OnePlace, Early
<1>4. CASE is_closed(u)
  <2>1. /\ Go(o, "declined") /\ pending' = pending \ {o} /\ UNCHANGED out
        /\ slot' = [slot EXCEPT ![o] = None]
    BY <1>4 DEF SendAsk, Done
  <2>2. ask'[o] = "declined"
    BY <1>2, <2>1 DEF Go
  <2>3. Phase(o)'
    BY <1>1, <1>3, <2>1, <2>2, ConsentAssumption DEF Phase, Early
  <2> QED
    BY <1>1, <1>2, <2>1, <2>3, QuietStage DEF Stages, Early
<1>5. CASE ~is_closed(u)
  <2>1. /\ ask' = [ask EXCEPT ![o] = "wait"] /\ UNCHANGED <<pending, slot>>
        /\ out' = [out EXCEPT ![u] = Append(out[u], o)]
    BY <1>5 DEF SendAsk, Go
  <2> HIDE DEF u
  <2>2. ASSUME NEW v \in Uis
        PROVE  /\ out'[v] \in Seq(Offers) /\ Once(out'[v])
               /\ \A x : Has(out'[v], x) <=> Has(out[v], x) \/ (v = u /\ x = o)
    <3>1. out \in [Uis -> Seq(Offers)] /\ Once(out[v])
      BY DEF IInv, Typed, Queues
    <3>2. CASE v = u
      <4>1. out'[v] = Append(out[v], o) /\ out[v] \in Seq(Offers)
        BY <2>1, <3>1, <3>2
      <4> QED
        BY <4>1, <3>1, <3>2, <1>3, HasAppend
    <3>3. CASE v # u
      BY <2>1, <3>1, <3>3
    <3> QED
      BY <3>2, <3>3
  <2>3. ask'[o] = "wait" /\ \A x \in Offers \ {o} : ask'[x] = ask[x]
    BY <1>2, <2>1
  <2>4. Typed'
    <3>1. out' \in [Uis -> Seq(Offers)]
      BY <2>1, <2>2 DEF IInv, Typed
    <3> QED
      BY <3>1, <2>1, <1>1 DEF IInv, Typed, Stages, uiVars
  <2>5. Queues'
    BY <2>2, <1>1 DEF IInv, Queues, uiVars
  <2>6. ASSUME NEW x \in Offers
        PROVE  Phase(x)'
    BY <1>1, <1>3, <2>1, <2>3 DEF IInv, Phase, Early
  <2>7. ASSUME NEW x \in Offers
        PROVE  OnePlace(x)'
    BY <1>1, <1>3, <2>2, <2>3 DEF IInv, OnePlace, Early, uiVars
  <2>8. ASSUME NEW x \in Offers
        PROVE  Asked(x)'
    BY <1>1, <1>3, <2>2, <2>3 DEF IInv, Asked, Untouched, Early, uiVars
  <2>9. ASSUME NEW x \in Offers
        PROVE  Answered(x)'
    <3>1. \A v \in Uis, w \in Verdicts : ~First(cmds[v], o, w) /\ ~First(ans[v], o, w)
      BY <1>3 DEF Untouched, First, HasId
    <3> QED
      BY <1>1, <1>3, <2>3, <3>1 DEF IInv, Answered, Backed, uiVars
  <2> QED
    BY <2>4, <2>5, <2>6, <2>7, <2>8, <2>9 DEF IInv
<1> QED
  BY <1>4, <1>5

\* The consent task takes the answer, which is the one that reached it.
LEMMA DecideKeeps ==
  ASSUME IInv, NEW o \in Offers, Decide(o)
  PROVE  IInv'
<1> DEFINE s == IF slot[o] = "yes" THEN "fetch" ELSE "declined"
<1>1. /\ ask[o] = "wait" /\ slot[o] # None /\ Go(o, s) /\ pending' = pending \ {o}
      /\ slot' = [slot EXCEPT ![o] = None]
      /\ UNCHANGED <<pumpq, reached, out, uiVars>>
  BY DEF Decide, Done, connVars
<1>2. reached[o] = slot[o] /\ ~Has(pumpq, o)
  BY <1>1 DEF IInv, Phase
<1>3. s \in {"fetch", "declined"} /\ (s = "fetch" <=> reached[o] = "yes")
  BY <1>2
<1> HIDE DEF s
<1>4. s \in Stages \ Early /\ s # "wait"
  BY <1>3 DEF Stages, Early
<1>5. ask'[o] = s
  BY <1>1 DEF IInv, Typed, Go
<1>6. Phase(o)'
  BY <1>1, <1>2, <1>3, <1>4, <1>5 DEF Phase
<1> QED
  BY <1>1, <1>4, <1>6, QuietStage DEF IInv, Typed

\* The timer fires only on a question without an answer.
LEMMA TimeoutKeeps ==
  ASSUME IInv, NEW o \in Offers, Timeout(o)
  PROVE  IInv'
<1>1. /\ ask[o] = "wait" /\ slot[o] = None /\ Go(o, "expired")
      /\ UNCHANGED <<pumpq, pending, slot, reached, out, uiVars>>
  BY DEF Timeout, connVars
<1>2. reached[o] = None /\ ~Has(pumpq, o)
  BY <1>1 DEF IInv, Phase
<1>3. ask'[o] = "expired"
  BY <1>1 DEF IInv, Typed, Go
<1>4. Phase(o)'
  BY <1>1, <1>2, <1>3 DEF Phase, Early
<1> QED
  BY <1>1, <1>4, QuietStage DEF IInv, Typed, Stages, Early

\* An expired question is forgotten.
LEMMA ForgetKeeps ==
  ASSUME IInv, NEW o \in Offers, Forget(o)
  PROVE  IInv'
<1>1. /\ ask[o] = "expired" /\ Go(o, "declined") /\ pending' = pending \ {o}
      /\ slot' = [slot EXCEPT ![o] = None]
      /\ UNCHANGED <<pumpq, reached, out, uiVars>>
  BY DEF Forget, Done, connVars
<1>2. reached[o] = None /\ ~Has(pumpq, o) /\ None # "yes"
  BY <1>1, ConsentAssumption DEF IInv, Phase
<1>3. ask'[o] = "declined"
  BY <1>1 DEF IInv, Typed, Go
<1>4. Phase(o)'
  BY <1>1, <1>2, <1>3 DEF Phase, Early
<1> QED
  BY <1>1, <1>4, QuietStage DEF IInv, Typed, Stages, Early

\* A question moves from the channel to the client, which queues it, shows it
\* or, deaf, drops it.
LEMMA WriteKeeps ==
  ASSUME IInv, NEW u \in Uis, Write(u)
  PROVE  IInv'
<1> DEFINE o == Head(out[u])
<1>1. /\ out[u] # <<>> /\ out' = [out EXCEPT ![u] = Tail(out[u])] /\ Hear(u, o)
      /\ UNCHANGED <<askVars, cmds, ans, busy, requested, wanted, said>>
  BY DEF Write
<1>2. /\ out \in [Uis -> Seq(Offers)] /\ inbox \in [Uis -> Seq(Offers)]
      /\ cards \in [Uis -> SUBSET Offers] /\ AskCap \in Nat \ {0}
      /\ \A v \in Uis : Once(out[v]) /\ Once(inbox[v])
  BY ConsentAssumption DEF IInv, Typed, Queues
<1>3. /\ Tail(out[u]) \in Seq(Offers) /\ o \in Offers /\ Has(out[u], o)
      /\ \A x : Has(Tail(out[u]), x) <=> Has(out[u], x) /\ x # o
      /\ Once(Tail(out[u]))
  BY <1>1, <1>2, HasTail
<1> HIDE DEF o
<1>4. /\ Untouched(o) /\ ask[o] \notin Early
      /\ \A v \in Uis : ~Has(inbox[v], o) /\ o \notin cards[v] /\ (Has(out[v], o) => v = u)
  BY <1>3 DEF IInv, OnePlace, Asked
<1>5. ASSUME NEW v \in Uis
      PROVE  /\ out'[v] \in Seq(Offers) /\ Once(out'[v])
             /\ \A x : Has(out'[v], x) <=> Has(out[v], x) /\ x # o
  BY <1>1, <1>2, <1>3, <1>4
<1>6. /\ \A v \in Uis : /\ inbox'[v] \in Seq(Offers) /\ Once(inbox'[v])
                        /\ \A x : Has(inbox'[v], x) =>
                                    Has(inbox[v], x) \/ (v = u /\ x = o /\ Kind[u] = "app")
      /\ \A v \in Uis : cards'[v] = IF v = u /\ Kind[u] # "app" THEN cards[v] \cup {o}
                                    ELSE cards[v]
      /\ inbox' \in [Uis -> Seq(Offers)] /\ cards' \in [Uis -> SUBSET Offers]
  <2>1. CASE Kind[u] # "app"
    BY <2>1, <1>1, <1>2, <1>3 DEF Hear
  <2>2. CASE Kind[u] = "app" /\ link[u] = "deaf"
    BY <2>2, <1>1, <1>2, <1>3 DEF Hear
  <2>3. CASE Kind[u] = "app" /\ link[u] # "deaf"
    <3>1. inbox' = [inbox EXCEPT ![u] = Broadcast(inbox[u], o, AskCap)] /\ cards' = cards
      BY <2>3, <1>1 DEF Hear
    <3>2. /\ Broadcast(inbox[u], o, AskCap) \in Seq(Offers)
          /\ \A x : Has(Broadcast(inbox[u], o, AskCap), x) => Has(inbox[u], x) \/ x = o
          /\ Once(Broadcast(inbox[u], o, AskCap))
      BY <1>2, <1>3, <1>4, HasBroadcast
    <3> QED
      BY <2>3, <3>1, <3>2, <1>2
  <2> QED
    BY <2>1, <2>2, <2>3
<1>7. Typed'
  <2>1. out' \in [Uis -> Seq(Offers)]
    BY <1>1, <1>2, <1>3
  <2> QED
    BY <2>1, <1>1, <1>6 DEF IInv, Typed, askVars
<1>8. Queues'
  BY <1>1, <1>5, <1>6 DEF IInv, Queues, askVars
<1>9. ASSUME NEW x \in Offers
      PROVE  Phase(x)'
  BY <1>1 DEF IInv, Phase, askVars
<1>10. ASSUME NEW x \in Offers
       PROVE  (OnePlace(x) /\ Asked(x))'
  <2>1. CASE x = o
    <3>1. \A v \in Uis : /\ ~Has(out'[v], x)
                         /\ Has(inbox'[v], x) => v = u /\ Kind[u] = "app"
                         /\ x \in cards'[v] => v = u /\ Kind[u] # "app"
      BY <2>1, <1>4, <1>5, <1>6
    <3>2. Untouched(x)' /\ (ask[x] \notin Early)'
      BY <2>1, <1>1, <1>4 DEF Untouched, askVars
    <3>3. OnePlace(x)'
      BY <3>1, <3>2 DEF OnePlace
    <3> QED
      BY <3>1, <3>2, <3>3 DEF Asked, Untouched
  <2>2. CASE x # o
    <3>1. \A v \in Uis : /\ Has(out'[v], x) => Has(out[v], x)
                         /\ Has(inbox'[v], x) => Has(inbox[v], x)
                         /\ x \in cards'[v] => x \in cards[v]
      BY <2>2, <1>5, <1>6
    <3>2. OnePlace(x) /\ Asked(x)
      BY DEF IInv
    <3>3. OnePlace(x)'
      BY <3>1, <3>2, <1>1 DEF OnePlace, askVars
    <3>4. Asked(x)'
      BY <3>1, <3>2, <1>1 DEF Asked, Untouched, askVars
    <3> QED
      BY <3>3, <3>4
  <2> QED
    BY <2>1, <2>2
<1>11. ASSUME NEW x \in Offers
       PROVE  Answered(x)'
  BY <1>1 DEF IInv, Answered, Backed, askVars
<1> QED
  BY <1>7, <1>8, <1>9, <1>10, <1>11 DEF IInv

\* A channel closes with what is in it.
LEMMA WriteFailsKeeps ==
  ASSUME IInv, NEW u \in Uis, WriteFails(u)
  PROVE  IInv'
<1>1. /\ out' = [out EXCEPT ![u] = <<>>]
      /\ UNCHANGED <<askVars, uiVars>>
  BY DEF WriteFails
<1>2. out \in [Uis -> Seq(Offers)] /\ <<>> \in Seq(Offers)
  BY DEF IInv, Typed
<1>3. ASSUME NEW v \in Uis
      PROVE  /\ Once(out'[v])
             /\ \A x : Has(out'[v], x) => Has(out[v], x)
  BY <1>1, <1>2, Empty DEF IInv, Queues
<1>4. Typed'
  BY <1>1, <1>2 DEF IInv, Typed, askVars, uiVars
<1>5. Queues'
  BY <1>1, <1>3 DEF IInv, Queues, askVars, uiVars
<1>6. ASSUME NEW x \in Offers
      PROVE  (Phase(x) /\ OnePlace(x) /\ Asked(x) /\ Answered(x))'
  BY <1>1, <1>3 DEF IInv, Phase, OnePlace, Asked, Untouched, Answered, Backed, askVars, uiVars
<1> QED
  BY <1>4, <1>5, <1>6 DEF IInv

\* A client that ends takes its questions, cards and clicks with it, and
\* perhaps the last of its answers.
LEMMA LeaveKeeps ==
  ASSUME IInv, NEW u \in Uis, Leave(u)
  PROVE  IInv'
<1>1. PICK k \in 0..Len(ans[u]) : ans' = [ans EXCEPT ![u] = SubSeq(ans[u], 1, k)]
  BY DEF Leave
<1>2. /\ inbox' = [inbox EXCEPT ![u] = <<>>] /\ cards' = [cards EXCEPT ![u] = {}]
      /\ cmds' = [cmds EXCEPT ![u] = <<>>] /\ busy' = [busy EXCEPT ![u] = None]
      /\ requested' = [requested EXCEPT ![u] = {}]
      /\ UNCHANGED <<askVars, out, wanted, said>>
  BY DEF Leave
<1>3. Typed
  BY DEF IInv
<1>4. ASSUME NEW v \in Uis
      PROVE  /\ ans'[v] \in Seq(Answer)
             /\ \A o : HasId(ans'[v], o) => HasId(ans[v], o)
             /\ \A o, w : First(ans'[v], o, w) => First(ans[v], o, w)
             /\ v # u => ans'[v] = ans[v]
  <2>1. CASE v = u
    BY <2>1, <1>1, <1>3, FirstPrefix DEF Typed
  <2>2. CASE v # u
    BY <2>2, <1>1, <1>3 DEF Typed
  <2> QED
    BY <2>1, <2>2
<1>5. ASSUME NEW v \in Uis
      PROVE  IF v = u
             THEN inbox'[v] = <<>> /\ cards'[v] = {} /\ cmds'[v] = <<>>
             ELSE inbox'[v] = inbox[v] /\ cards'[v] = cards[v] /\ cmds'[v] = cmds[v]
  BY <1>2, <1>3 DEF Typed
<1>6. ASSUME NEW v \in Uis
      PROVE  /\ Once(inbox'[v]) /\ \A o : Has(inbox'[v], o) => Has(inbox[v], o)
             /\ cards'[v] \subseteq cards[v]
             /\ \A o : HasId(cmds'[v], o) => HasId(cmds[v], o)
             /\ cmds'[v] # <<>> => cmds[v] # <<>>
             /\ \A o, w : First(cmds'[v], o, w) => First(cmds[v], o, w) /\ v # u
             /\ cards'[v] # {} => v # u
  BY <1>5, Empty DEF IInv, Queues
<1>7. Typed'
  <2>1. ans' \in [Uis -> Seq(Answer)]
    BY <1>1, <1>3, <1>4 DEF Typed
  <2> QED
    BY <2>1, <1>2, <1>3 DEF Typed, askVars
<1>8. Queues'
  BY <1>2, <1>3, <1>6 DEF IInv, Typed, Queues, askVars
<1>9. ASSUME NEW o \in Offers
      PROVE  Phase(o)'
  BY <1>2 DEF IInv, Phase, askVars
<1>10. ASSUME NEW o \in Offers
       PROVE  OnePlace(o)'
  BY <1>2, <1>6 DEF IInv, OnePlace, askVars
<1>11. ASSUME NEW o \in Offers
       PROVE  Asked(o)'
  <2>1. Untouched(o) => Untouched(o)'
    BY <1>2, <1>4, <1>6 DEF Untouched, askVars
  <2> QED
    BY <2>1, <1>2, <1>5, <1>6 DEF IInv, Asked, askVars
<1>12. ASSUME NEW o \in Offers
       PROVE  Answered(o)'
  <2>1. Answered(o) /\ (\A w : Backed(w, o)' <=> Backed(w, o))
    BY <1>2 DEF IInv, Backed
  <2>2. ASSUME NEW v \in Uis, NEW w \in Verdicts
        PROVE  /\ First(ans'[v], o, w) => First(ans[v], o, w)
               /\ ~HasId(ans'[v], o) /\ First(cmds'[v], o, w) =>
                    ~HasId(ans[v], o) /\ First(cmds[v], o, w)
    BY <1>4, <1>6
  <2> QED
    BY <2>1, <2>2, <1>2 DEF Answered, askVars
<1> QED
  BY <1>7, <1>8, <1>9, <1>10, <1>11, <1>12 DEF IInv

\* An answer arrives: the first while its question is open decides, and it
\* is the first of its queue.
LEMMA AnswerKeeps ==
  ASSUME IInv, NEW u \in Uis, answer(u)
  PROVE  IInv'
<1> DEFINE a == Head(ans[u])
<1>1. /\ ans[u] # <<>> /\ pending' = pending \ {a.id}
      /\ slot' = IF a.id \in pending /\ ask[a.id] = "wait"
                 THEN [slot EXCEPT ![a.id] = a.verdict] ELSE slot
      /\ reached' = IF reached[a.id] = None /\ ask[a.id] = "wait"
                    THEN [reached EXCEPT ![a.id] = a.verdict] ELSE reached
      /\ ans' = [ans EXCEPT ![u] = Tail(ans[u])]
      /\ UNCHANGED <<pumpq, ask, out, inbox, cards, cmds, busy, requested, wanted, said>>
  BY DEF answer, connVars
<1>2. Typed
  BY DEF IInv
<1>3. /\ Tail(ans[u]) \in Seq(Answer) /\ a \in Answer
      /\ HasId(ans[u], a.id) /\ First(ans[u], a.id, a.verdict)
      /\ \A o : HasId(ans[u], o) <=> a.id = o \/ HasId(Tail(ans[u]), o)
      /\ \A o, v : First(Tail(ans[u]), o, v) /\ a.id # o => First(ans[u], o, v)
  BY <1>1, <1>2, FirstTail DEF Typed
<1> HIDE DEF a
<1>4. a.id \in Offers /\ a.verdict \in Verdicts /\ a.verdict # None
  BY <1>3, ConsentAssumption DEF Answer, Verdicts
<1>5. ask[a.id] \notin Early
  BY <1>3, <1>4 DEF IInv, Asked, Untouched
<1>6. ASSUME NEW v \in Uis
      PROVE  /\ \A o : HasId(ans'[v], o) => HasId(ans[v], o)
             /\ \A o : a.id # o => (HasId(ans'[v], o) <=> HasId(ans[v], o))
             /\ \A o, w : First(ans'[v], o, w) /\ a.id # o => First(ans[v], o, w)
  BY <1>1, <1>2, <1>3 DEF Typed
<1>7. ASSUME NEW o \in Offers, o # a.id
      PROVE  slot'[o] = slot[o] /\ reached'[o] = reached[o] /\ (o \in pending' <=> o \in pending)
  BY <1>1, <1>2, <1>7 DEF Typed
<1>8. /\ a.id \notin pending'
      /\ ask[a.id] = "wait" /\ reached[a.id] = None =>
           reached'[a.id] = a.verdict /\ slot'[a.id] = a.verdict /\ Backed(a.verdict, a.id)
      /\ ~(ask[a.id] = "wait" /\ reached[a.id] = None) =>
           reached'[a.id] = reached[a.id] /\ slot'[a.id] = slot[a.id]
  BY <1>1, <1>2, <1>3, <1>4 DEF IInv, Typed, Phase, Answered
<1>9. Typed'
  BY <1>1, <1>2, <1>3, <1>4 DEF Typed
<1>10. Queues'
  BY <1>1 DEF IInv, Queues
<1>11. ASSUME NEW o \in Offers
       PROVE  Phase(o)'
  <2>1. Phase(o)
    BY DEF IInv
  <2>2. CASE o # a.id
    BY <2>1, <2>2, <1>1, <1>7 DEF Phase
  <2>3. CASE o = a.id
    <3>1. CASE ask[o] = "wait" /\ reached[o] = None
      BY <2>1, <2>3, <3>1, <1>1, <1>4, <1>5, <1>8 DEF Phase, Early
    <3>2. CASE ~(ask[o] = "wait" /\ reached[o] = None)
      BY <2>1, <2>3, <3>2, <1>1, <1>5, <1>8 DEF Phase, Early
    <3> QED
      BY <3>1, <3>2
  <2> QED
    BY <2>2, <2>3
<1>12. ASSUME NEW o \in Offers
       PROVE  OnePlace(o)'
  BY <1>1 DEF IInv, OnePlace
<1>13. ASSUME NEW o \in Offers
       PROVE  Asked(o)'
  <2>1. Untouched(o) => Untouched(o)'
    BY <1>1, <1>3, <1>6, <1>7 DEF Untouched
  <2> QED
    BY <2>1, <1>1 DEF IInv, Asked
<1>14. ASSUME NEW o \in Offers
       PROVE  Answered(o)'
  <2>1. Answered(o) /\ (\A v : Backed(v, o)' <=> Backed(v, o))
    BY <1>1 DEF IInv, Backed
  <2>2. CASE o # a.id
    BY <2>1, <2>2, <1>1, <1>6, <1>7 DEF Answered
  <2>3. CASE o = a.id
    BY <2>1, <2>3, <1>1, <1>4, <1>8 DEF Answered
  <2> QED
    BY <2>2, <2>3
<1> QED
  BY <1>9, <1>10, <1>11, <1>12, <1>13, <1>14 DEF IInv

\* The bridge answers for a drop the user asked for, or shows a card.
LEMMA TakeAskKeeps ==
  ASSUME IInv, NEW u \in Uis, TakeAsk(u)
  PROVE  IInv'
<1> DEFINE o == Head(inbox[u])
           a == [id |-> o, verdict |-> "yes"]
<1>1. /\ inbox[u] # <<>> /\ inbox' = [inbox EXCEPT ![u] = Tail(inbox[u])]
      /\ \/ /\ DropOf[o] \in requested[u] /\ cards' = cards
            /\ ans' = [ans EXCEPT ![u] = Append(ans[u], a)]
         \/ ans' = ans /\ cards' = [cards EXCEPT ![u] = cards[u] \cup {o}]
      /\ UNCHANGED <<askVars, out, cmds, busy, requested, wanted, said>>
  BY DEF TakeAsk, connVars, Reply, Solicited
<1>2. Typed
  BY DEF IInv
<1>3. /\ Tail(inbox[u]) \in Seq(Offers) /\ o \in Offers /\ Has(inbox[u], o)
      /\ \A x : Has(Tail(inbox[u]), x) <=> Has(inbox[u], x) /\ x # o
      /\ Once(Tail(inbox[u]))
  BY <1>1, HasTail DEF IInv, Typed, Queues
<1> HIDE DEF o
<1>4. /\ Untouched(o) /\ ask[o] \notin Early
      /\ \A v \in Uis : ~Has(out[v], o) /\ o \notin cards[v] /\ (Has(inbox[v], o) => v = u)
  BY <1>3 DEF IInv, OnePlace, Asked
<1>5. ASSUME NEW v \in Uis
      PROVE  /\ Once(inbox'[v])
             /\ \A x : Has(inbox'[v], x) <=> Has(inbox[v], x) /\ x # o
  BY <1>1, <1>2, <1>3, <1>4 DEF IInv, Typed, Queues
<1>6. inbox' \in [Uis -> Seq(Offers)]
  BY <1>1, <1>2, <1>3 DEF Typed
<1>7. ASSUME NEW x \in Offers
      PROVE  Phase(x)'
  BY <1>1 DEF IInv, Phase, askVars
<1>8. Queues'
  BY <1>1, <1>5 DEF IInv, Queues, askVars
<1>9. CASE /\ DropOf[o] \in requested[u] /\ cards' = cards
           /\ ans' = [ans EXCEPT ![u] = Append(ans[u], a)]
  <2>1. /\ a \in Answer /\ a.id = o /\ a.verdict = "yes"
        /\ Append(ans[u], a) \in Seq(Answer)
        /\ \A x : HasId(Append(ans[u], a), x) <=> HasId(ans[u], x) \/ a.id = x
        /\ \A x, w : First(Append(ans[u], a), x, w) =>
             First(ans[u], x, w) \/ (~HasId(ans[u], x) /\ a.id = x /\ a.verdict = w)
    <3>1. a \in Answer /\ a.id = o /\ a.verdict = "yes"
      BY <1>3 DEF Answer, Verdicts
    <3> HIDE DEF a
    <3> QED
      BY <3>1, <1>2, FirstAppend DEF Typed
  <2> HIDE DEF a
  <2>2. ASSUME NEW v \in Uis
        PROVE  /\ \A x : x # o => (HasId(ans'[v], x) <=> HasId(ans[v], x))
               /\ \A x, w : x # o /\ First(ans'[v], x, w) => First(ans[v], x, w)
               /\ \A w : First(ans'[v], o, w) => First(ans[v], o, w) \/ w = "yes"
    BY <2>1, <1>2, <1>9 DEF Typed
  <2>3. DropOf[o] \in wanted
    BY <1>9 DEF IInv, Queues
  <2>4. Typed'
    BY <1>1, <1>2, <1>6, <1>9, <2>1 DEF Typed, askVars
  <2>5. ASSUME NEW x \in Offers
        PROVE  OnePlace(x)'
    BY <1>1, <1>5, <1>9 DEF IInv, OnePlace, askVars
  <2>6. ASSUME NEW x \in Offers
        PROVE  Asked(x)'
    <3>1. CASE x = o
      BY <3>1, <1>1, <1>4, <1>5, <1>9 DEF Asked, askVars
    <3>2. CASE x # o
      <4>1. Untouched(x) => Untouched(x)'
        BY <3>2, <1>1, <2>2 DEF Untouched, askVars
      <4> QED
        BY <4>1, <3>2, <1>1, <1>5, <1>9 DEF IInv, Asked, askVars
    <3> QED
      BY <3>1, <3>2
  <2>7. ASSUME NEW x \in Offers
        PROVE  Answered(x)'
    <3>1. Answered(x) /\ (\A v : Backed(v, x)' <=> Backed(v, x))
      BY <1>1 DEF IInv, Backed
    <3>2. CASE x # o
      BY <3>1, <3>2, <1>1, <2>2 DEF Answered, askVars
    <3>3. CASE x = o
      <4>1. Backed("yes", o) /\ reached[o] = None
        BY <1>4, <2>3 DEF Backed, Untouched
      <4>2. \A v \in Uis, w \in Verdicts : ~First(cmds[v], o, w) /\ ~First(ans[v], o, w)
        BY <1>4 DEF Untouched, First, HasId
      <4> QED
        BY <4>1, <4>2, <3>1, <3>3, <1>1, <2>2 DEF Answered, askVars
    <3> QED
      BY <3>2, <3>3
  <2> QED
    BY <2>4, <2>5, <2>6, <2>7, <1>7, <1>8 DEF IInv
<1>10. CASE ans' = ans /\ cards' = [cards EXCEPT ![u] = cards[u] \cup {o}]
  <2>1. ASSUME NEW v \in Uis
        PROVE  \A x : x \in cards'[v] <=> x \in cards[v] \/ (v = u /\ x = o)
    BY <1>2, <1>10 DEF Typed
  <2>2. Typed'
    BY <1>1, <1>2, <1>3, <1>6, <1>10 DEF Typed, askVars
  <2>3. ASSUME NEW x \in Offers
        PROVE  OnePlace(x)'
    <3>1. CASE x = o
      BY <3>1, <1>1, <1>4, <1>5, <2>1 DEF OnePlace, askVars
    <3>2. CASE x # o
      BY <3>2, <1>1, <1>5, <2>1 DEF IInv, OnePlace, askVars
    <3> QED
      BY <3>1, <3>2
  <2>4. ASSUME NEW x \in Offers
        PROVE  Asked(x)'
    <3>1. Untouched(x) => Untouched(x)'
      BY <1>1, <1>10 DEF Untouched, askVars
    <3>2. CASE x = o
      BY <3>1, <3>2, <1>1, <1>4, <1>5 DEF Asked, Untouched, askVars
    <3>3. CASE x # o
      BY <3>1, <3>3, <1>1, <1>5, <2>1 DEF IInv, Asked, askVars
    <3> QED
      BY <3>2, <3>3
  <2>5. ASSUME NEW x \in Offers
        PROVE  Answered(x)'
    BY <1>1, <1>10 DEF IInv, Answered, Backed, askVars
  <2> QED
    BY <2>2, <2>3, <2>4, <2>5, <1>7, <1>8 DEF IInv
<1> QED
  BY <1>1, <1>9, <1>10

\* A later word of the person leaves the first one first.
LEMMA SaidMore ==
  ASSUME NEW q \in Seq(Verdicts), NEW v \in Verdicts
  PROVE  /\ Append(q, v) \in Seq(Verdicts) /\ Append(q, v) # <<>>
         /\ Head(Append(q, v)) = IF q = <<>> THEN v ELSE Head(q)
<1>1. CASE q = <<>>
  BY <1>1
<1>2. CASE q # <<>>
  BY <1>2
<1> QED
  BY <1>1, <1>2

\* A click on a card: the first about its offer when nothing was said before,
\* and otherwise behind the one the card still waits for.
LEMMA ClickKeeps ==
  ASSUME IInv, NEW u \in Uis, NEW o \in Offers, NEW w \in Verdicts, Click(u, o, w)
  PROVE  IInv'
<1> DEFINE a == [id |-> o, verdict |-> w]
<1>1. /\ Kind[u] = "app" /\ o \in cards[u]
      /\ cmds' = [cmds EXCEPT ![u] = Append(cmds[u], a)]
      /\ said' = [said EXCEPT ![o] = Append(said[o], w)]
      /\ UNCHANGED <<askVars, out, inbox, cards, ans, busy, requested, wanted>>
  BY DEF Click, connVars
<1>2. Typed /\ a \in Answer /\ a.id = o /\ a.verdict = w
  BY DEF IInv, Answer
<1> HIDE DEF a
<1>3. /\ Append(cmds[u], a) \in Seq(Answer) /\ Append(cmds[u], a) # <<>>
      /\ \A x : HasId(Append(cmds[u], a), x) <=> HasId(cmds[u], x) \/ a.id = x
      /\ \A x, v : First(Append(cmds[u], a), x, v) =>
           First(cmds[u], x, v) \/ (~HasId(cmds[u], x) /\ a.id = x /\ a.verdict = v)
  BY <1>2, FirstAppend DEF Typed
<1>4. /\ Append(said[o], w) \in Seq(Verdicts) /\ said'[o] # <<>>
      /\ Head(said'[o]) = IF said[o] = <<>> THEN w ELSE Head(said[o])
      /\ \A x \in Offers \ {o} : said'[x] = said[x]
  BY <1>1, <1>2, SaidMore DEF Typed
<1>5. /\ said[o] = <<>> => Untouched(o)
      /\ said[o] # <<>> => HasId(cmds[u], o)
      /\ ask[o] \notin Early /\ \A v \in Uis : ~Has(out[v], o) /\ ~Has(inbox[v], o)
      /\ \A v \in Uis : o \in cards[v] => v = u
  BY <1>1 DEF IInv, Asked, OnePlace
<1>6. ASSUME NEW v \in Uis
      PROVE  /\ \A x : x # o => (HasId(cmds'[v], x) <=> HasId(cmds[v], x))
             /\ \A x, y : x # o /\ First(cmds'[v], x, y) => First(cmds[v], x, y)
             /\ \A y : First(cmds'[v], o, y) =>
                  First(cmds[v], o, y) \/ (~HasId(cmds[u], o) /\ y = w)
             /\ v = u => HasId(cmds'[v], o)
             /\ cmds'[v] # <<>> => Kind[v] = "app"
  <2>1. CASE v = u
    BY <2>1, <1>1, <1>2, <1>3 DEF Typed
  <2>2. CASE v # u
    BY <2>2, <1>1, <1>2 DEF IInv, Typed, Queues
  <2> QED
    BY <2>1, <2>2
<1>7. Typed'
  BY <1>1, <1>2, <1>3, <1>4 DEF Typed, askVars
<1>8. Queues'
  BY <1>1, <1>6 DEF IInv, Queues, askVars
<1>9. ASSUME NEW x \in Offers
      PROVE  (Phase(x) /\ OnePlace(x))'
  BY <1>1 DEF IInv, Phase, OnePlace, askVars
<1>10. ASSUME NEW x \in Offers
       PROVE  Asked(x)'
  <2>1. CASE x = o
    BY <2>1, <1>1, <1>4, <1>5, <1>6 DEF Asked, askVars
  <2>2. CASE x # o
    <3>1. Untouched(x) => Untouched(x)'
      BY <2>2, <1>1, <1>4, <1>6 DEF Untouched, askVars
    <3> QED
      BY <3>1, <2>2, <1>1, <1>4, <1>6 DEF IInv, Asked, askVars
  <2> QED
    BY <2>1, <2>2
<1>11. ASSUME NEW x \in Offers
       PROVE  Answered(x)'
  <2>1. Answered(x)
    BY DEF IInv
  <2>2. CASE x # o
    <3>1. \A v : Backed(v, x)' <=> Backed(v, x)
      BY <2>2, <1>1, <1>4 DEF Backed
    <3> QED
      BY <3>1, <2>1, <2>2, <1>1, <1>6 DEF Answered, askVars
  <2>3. CASE x = o /\ said[o] = <<>>
    <3>1. \A v \in Uis, y \in Verdicts : ~First(cmds[v], o, y) /\ ~First(ans[v], o, y)
      BY <1>5, <2>3 DEF Untouched, First, HasId
    <3>2. Backed(w, o)' /\ reached[o] = None
      BY <1>4, <1>5, <2>3 DEF Backed, Untouched
    <3> QED
      BY <3>1, <3>2, <2>3, <1>1, <1>6 DEF Answered, askVars
  <2>4. CASE x = o /\ said[o] # <<>>
    <3>1. \A v : Backed(v, x)' <=> Backed(v, x)
      BY <2>4, <1>4 DEF Backed
    <3> QED
      BY <3>1, <2>1, <2>4, <1>1, <1>5, <1>6 DEF Answered, askVars
  <2> QED
    BY <2>2, <2>3, <2>4
<1> QED
  BY <1>7, <1>8, <1>9, <1>10, <1>11 DEF IInv

\* The bridge sends the oldest click on, behind the answers already sent.
LEMMA HandleAnswerKeeps ==
  ASSUME IInv, NEW u \in Uis, HandleAnswer(u)
  PROVE  IInv'
<1> DEFINE a == Head(cmds[u])
<1>1. /\ cmds[u] # <<>> /\ Reply(u, a.id, a.verdict)
      /\ cards' = [cards EXCEPT ![u] = cards[u] \ {a.id}]
      /\ cmds' = [cmds EXCEPT ![u] = Tail(cmds[u])]
      /\ UNCHANGED <<askVars, out, inbox, busy, requested, wanted, said>>
  BY DEF HandleAnswer, connVars
<1>2. Typed
  BY DEF IInv
<1>3. /\ Tail(cmds[u]) \in Seq(Answer) /\ a \in Answer
      /\ HasId(cmds[u], a.id) /\ First(cmds[u], a.id, a.verdict)
      /\ \A o : HasId(cmds[u], o) <=> a.id = o \/ HasId(Tail(cmds[u]), o)
      /\ \A o, v : First(Tail(cmds[u]), o, v) /\ a.id # o => First(cmds[u], o, v)
  BY <1>1, <1>2, FirstTail DEF Typed
<1> HIDE DEF a
<1>4. a = [id |-> a.id, verdict |-> a.verdict] /\ a.id \in Offers /\ a.verdict \in Verdicts
  BY <1>3 DEF Answer
<1>5. ans' = [ans EXCEPT ![u] = Append(ans[u], a)]
  BY <1>1, <1>4 DEF Reply
<1>6. /\ Append(ans[u], a) \in Seq(Answer)
      /\ \A o : HasId(Append(ans[u], a), o) <=> HasId(ans[u], o) \/ a.id = o
      /\ \A o, v : First(Append(ans[u], a), o, v) =>
           First(ans[u], o, v) \/ (~HasId(ans[u], o) /\ a.id = o /\ a.verdict = v)
  BY <1>2, <1>3, FirstAppend DEF Typed
<1>7. ask[a.id] \notin Early
  BY <1>3, <1>4 DEF IInv, Asked, Untouched
<1>8. ASSUME NEW v \in Uis
      PROVE  /\ v # u => cmds'[v] = cmds[v] /\ ans'[v] = ans[v] /\ cards'[v] = cards[v]
             /\ v = u => /\ cmds'[v] = Tail(cmds[v]) /\ ans'[v] = Append(ans[v], a)
                         /\ cards'[v] = cards[v] \ {a.id}
  BY <1>1, <1>2, <1>5 DEF Typed
<1>9. Typed'
  BY <1>1, <1>2, <1>3, <1>5, <1>6 DEF Typed, askVars
<1>10. Queues'
  BY <1>1, <1>8 DEF IInv, Queues, askVars
<1>11. ASSUME NEW o \in Offers
       PROVE  (Phase(o) /\ OnePlace(o))'
  <2>1. \A v \in Uis : cards'[v] \subseteq cards[v]
    BY <1>8
  <2> QED
    BY <2>1, <1>1 DEF IInv, Phase, OnePlace, askVars
<1>12. ASSUME NEW o \in Offers
       PROVE  Asked(o)'
  <2>1. ASSUME NEW v \in Uis
        PROVE  /\ o # a.id => (HasId(cmds'[v], o) <=> HasId(cmds[v], o))
               /\ o # a.id => (HasId(ans'[v], o) <=> HasId(ans[v], o))
               /\ o \in cards'[v] => o \in cards[v] /\ (o = a.id => v # u)
    <3>1. CASE v # u
      BY <3>1, <1>8
    <3>2. CASE v = u
      <4>1. /\ cmds'[v] = Tail(cmds[u]) /\ ans'[v] = Append(ans[u], a)
            /\ cards'[v] = cards[u] \ {a.id}
        BY <3>2, <1>8
      <4>2. o # a.id => (HasId(cmds'[v], o) <=> HasId(cmds[v], o))
        BY <3>2, <4>1, <1>3
      <4>3. o # a.id => (HasId(ans'[v], o) <=> HasId(ans[v], o))
        BY <3>2, <4>1, <1>6
      <4> QED
        BY <3>2, <4>1, <4>2, <4>3
    <3> QED
      BY <3>1, <3>2
  <2>2. CASE o = a.id
    <3>1. ~Untouched(o)
      BY <1>3, <2>2 DEF Untouched
    <3>2. /\ \A v \in Uis : ~Has(out[v], o) /\ ~Has(inbox[v], o)
          /\ \A v \in Uis : o \in cards[v] => said[o] # <<>> /\ HasId(cmds[v], o)
      BY <3>1 DEF IInv, Asked
    <3> QED
      BY <3>2, <2>1, <2>2, <1>1, <1>7, <1>8 DEF Asked, askVars
  <2>3. CASE o # a.id
    <3>1. Untouched(o) => Untouched(o)'
      BY <2>1, <2>3, <1>1 DEF Untouched, askVars
    <3> QED
      BY <3>1, <2>1, <2>3, <1>1 DEF IInv, Asked, askVars
  <2> QED
    BY <2>2, <2>3
<1>13. ASSUME NEW o \in Offers
       PROVE  Answered(o)'
  <2>1. Answered(o) /\ (\A v : Backed(v, o)' <=> Backed(v, o))
    BY <1>1 DEF IInv, Backed
  <2>2. ASSUME NEW v \in Uis, NEW w \in Verdicts, ask[o] = "wait", reached[o] = None
        PROVE  /\ First(ans'[v], o, w) => Backed(w, o)
               /\ ~HasId(ans'[v], o) /\ First(cmds'[v], o, w) => Backed(w, o)
    <3>1. /\ First(ans[v], o, w) => Backed(w, o)
          /\ ~HasId(ans[v], o) /\ First(cmds[v], o, w) => Backed(w, o)
      BY <2>1, <2>2 DEF Answered
    <3>2. CASE v # u
      BY <3>1, <3>2, <1>8
    <3>3. CASE v = u
      BY <3>1, <3>3, <1>3, <1>6, <1>8
    <3> QED
      BY <3>2, <3>3
  <2> QED
    BY <2>1, <2>2, <1>1 DEF Answered, askVars
<1> QED
  BY <1>9, <1>10, <1>11, <1>12, <1>13 DEF IInv

\* The prompt of a terminal: one question, one answer.
LEMMA PromptKeeps ==
  ASSUME IInv, NEW u \in Uis, NEW o \in Offers, NEW w \in Verdicts, Prompt(u, o, w)
  PROVE  IInv'
<1> DEFINE a == [id |-> o, verdict |-> w]
<1>1. /\ Kind[u] = "watch" /\ o \in cards[u]
      /\ ans' = [ans EXCEPT ![u] = Append(ans[u], a)]
      /\ said' = [said EXCEPT ![o] = Append(said[o], w)]
      /\ cards' = [cards EXCEPT ![u] = cards[u] \ {o}]
      /\ UNCHANGED <<askVars, out, inbox, cmds, busy, requested, wanted>>
  BY DEF Prompt, Reply, connVars
<1>2. Typed /\ a \in Answer /\ a.id = o /\ a.verdict = w
  BY DEF IInv, Answer
<1> HIDE DEF a
<1>3. /\ Append(ans[u], a) \in Seq(Answer)
      /\ \A x : HasId(Append(ans[u], a), x) <=> HasId(ans[u], x) \/ a.id = x
      /\ \A x, v : First(Append(ans[u], a), x, v) =>
           First(ans[u], x, v) \/ (~HasId(ans[u], x) /\ a.id = x /\ a.verdict = v)
  BY <1>2, FirstAppend DEF Typed
<1>4. /\ Append(said[o], w) \in Seq(Verdicts) /\ said'[o] # <<>>
      /\ Head(said'[o]) = IF said[o] = <<>> THEN w ELSE Head(said[o])
      /\ \A x \in Offers \ {o} : said'[x] = said[x]
  BY <1>1, <1>2, SaidMore DEF Typed
<1>5. /\ said[o] = <<>> /\ Untouched(o) /\ ask[o] \notin Early
      /\ \A v \in Uis : ~Has(out[v], o) /\ ~Has(inbox[v], o)
      /\ \A v \in Uis : o \in cards[v] => v = u
  <2>1. cmds[u] = <<>>
    BY <1>1 DEF IInv, Queues
  <2>2. ~HasId(cmds[u], o)
    BY <2>1, Empty
  <2> QED
    BY <1>1, <2>2 DEF IInv, Asked, OnePlace
<1>6. ASSUME NEW v \in Uis
      PROVE  /\ \A x : x # o => (HasId(ans'[v], x) <=> HasId(ans[v], x))
             /\ \A x, y : x # o /\ First(ans'[v], x, y) => First(ans[v], x, y)
             /\ \A y : First(ans'[v], o, y) => First(ans[v], o, y) \/ y = w
             /\ \A x : x \in cards'[v] <=> x \in cards[v] /\ x # o
  <2>1. CASE v = u
    BY <2>1, <1>1, <1>2, <1>3 DEF Typed
  <2>2. CASE v # u
    BY <2>2, <1>1, <1>2, <1>5 DEF Typed
  <2> QED
    BY <2>1, <2>2
<1>7. Typed'
  BY <1>1, <1>2, <1>3, <1>4 DEF Typed, askVars
<1>8. Queues'
  BY <1>1 DEF IInv, Queues, askVars
<1>9. ASSUME NEW x \in Offers
      PROVE  (Phase(x) /\ OnePlace(x))'
  BY <1>1, <1>6 DEF IInv, Phase, OnePlace, askVars
<1>10. ASSUME NEW x \in Offers
       PROVE  Asked(x)'
  <2>1. CASE x = o
    BY <2>1, <1>1, <1>4, <1>5, <1>6 DEF Asked, askVars
  <2>2. CASE x # o
    <3>1. Untouched(x) => Untouched(x)'
      BY <2>2, <1>1, <1>4, <1>6 DEF Untouched, askVars
    <3> QED
      BY <3>1, <2>2, <1>1, <1>4, <1>6 DEF IInv, Asked, askVars
  <2> QED
    BY <2>1, <2>2
<1>11. ASSUME NEW x \in Offers
       PROVE  Answered(x)'
  <2>1. Answered(x)
    BY DEF IInv
  <2>2. CASE x # o
    <3>1. \A v : Backed(v, x)' <=> Backed(v, x)
      BY <2>2, <1>1, <1>4 DEF Backed
    <3> QED
      BY <3>1, <2>1, <2>2, <1>1, <1>6 DEF Answered, askVars
  <2>3. CASE x = o
    <3>1. \A v \in Uis, y \in Verdicts : ~First(cmds[v], o, y) /\ ~First(ans[v], o, y)
      BY <1>5 DEF Untouched, First, HasId
    <3>2. Backed(w, o)' /\ reached[o] = None
      BY <1>4, <1>5 DEF Backed, Untouched
    <3> QED
      BY <3>1, <3>2, <2>3, <1>1, <1>6 DEF Answered, askVars
  <2> QED
    BY <2>2, <2>3
<1> QED
  BY <1>7, <1>8, <1>9, <1>10, <1>11 DEF IInv

\* A card goes without a word.
LEMMA PruneKeeps ==
  ASSUME IInv, NEW u \in Uis, NEW o \in Offers, Prune(u, o)
  PROVE  IInv'
<1>1. /\ cards' = [cards EXCEPT ![u] = cards[u] \ {o}]
      /\ UNCHANGED <<askVars, out, inbox, cmds, ans, busy, requested, wanted, said>>
  BY DEF Prune, connVars
<1>2. Typed /\ \A v \in Uis : cards'[v] \subseteq cards[v]
  BY <1>1 DEF IInv, Typed
<1>3. Typed'
  BY <1>1, <1>2 DEF Typed, askVars
<1>4. Queues'
  BY <1>1 DEF IInv, Queues, askVars
<1>5. ASSUME NEW x \in Offers
      PROVE  (Phase(x) /\ OnePlace(x) /\ Answered(x))'
  BY <1>1, <1>2 DEF IInv, Phase, OnePlace, Answered, Backed, askVars
<1>6. ASSUME NEW x \in Offers
      PROVE  Asked(x)'
  BY <1>1, <1>2 DEF IInv, Asked, Untouched, askVars
<1> QED
  BY <1>3, <1>4, <1>5, <1>6 DEF IInv

\* What the user asked for is only added to, and a grace period is for a drop
\* the user asked for.
LEMMA RequestKeeps ==
  ASSUME IInv, NEW u \in Uis,
         ReceiveEnds(u) \/ \E d \in Links : Receive(u, d) \/ GraceEnds(u, d)
  PROVE  IInv'
<1>1. /\ wanted \subseteq wanted'
      /\ UNCHANGED <<askVars, out, inbox, cards, cmds, ans, said>>
  BY DEF Receive, ReceiveEnds, GraceEnds, connVars
<1>2. /\ busy \in [Uis -> Drops \cup {None}] /\ requested \in [Uis -> SUBSET Drops]
      /\ wanted \subseteq Drops /\ Links \subseteq Drops
      /\ \A v \in Uis : requested[v] \subseteq wanted /\ (busy[v] # None => busy[v] \in wanted)
  BY ConsentAssumption DEF IInv, Typed, Queues
<1>3. /\ busy' \in [Uis -> Drops \cup {None}] /\ requested' \in [Uis -> SUBSET Drops]
      /\ wanted' \subseteq Drops
      /\ \A v \in Uis : requested'[v] \subseteq wanted' /\ (busy'[v] # None => busy'[v] \in wanted')
  <2>1. CASE ReceiveEnds(u)
    <3>1. /\ busy[u] \in Drops \cap wanted /\ busy' = [busy EXCEPT ![u] = None]
          /\ wanted' = wanted
      BY <2>1, <1>2 DEF ReceiveEnds
    <3>2. \/ requested' = [requested EXCEPT ![u] = requested[u] \cup {busy[u]}]
          \/ requested' = requested
      BY <2>1 DEF ReceiveEnds
    <3> QED
      BY <3>1, <3>2, <1>2
  <2>2. ASSUME NEW d \in Links, Receive(u, d)
        PROVE  <1>3!:
    BY <2>2, <1>2 DEF Receive
  <2>3. ASSUME NEW d \in Links, GraceEnds(u, d)
        PROVE  <1>3!:
    BY <2>3, <1>2 DEF GraceEnds
  <2> QED
    BY <2>1, <2>2, <2>3
<1>4. Typed' /\ Queues'
  BY <1>1, <1>3 DEF IInv, Typed, Queues, askVars
<1>5. ASSUME NEW x \in Offers
      PROVE  (Phase(x) /\ OnePlace(x) /\ Asked(x))'
  BY <1>1 DEF IInv, Phase, OnePlace, Asked, Untouched, askVars
<1>6. ASSUME NEW x \in Offers
      PROVE  Answered(x)'
  <2>1. Answered(x) /\ \A v : Backed(v, x) => Backed(v, x)'
    BY <1>1 DEF IInv, Backed
  <2> QED
    BY <2>1, <1>1 DEF Answered, askVars
<1> QED
  BY <1>4, <1>5, <1>6 DEF IInv

---------------------------------------------------------------------------
\* Every step of the consent protocol keeps the invariant.
LEMMA StepKeeps ==
  ASSUME IInv, [Next]_vars
  PROVE  IInv'
<1>1. ASSUME NEW o \in Offers, OfferReceived(o) \/ Consider(o)
      PROVE  IInv'
  BY <1>1, OfferReceivedKeeps, CheckKeeps, PickKeeps, SendAskKeeps, DecideKeeps,
     TimeoutKeeps, ForgetKeeps DEF Consider
<1>2. ASSUME NEW u \in Uis, Attach(u) \/ Listen(u) \/ Detach(u)
      PROVE  IInv'
  BY <1>2, SeenKept DEF Attach, Listen, Detach, seen, askVars, uiVars
<1>3. ASSUME NEW u \in Uis,
             \/ Write(u) \/ WriteFails(u) \/ Leave(u) \/ answer(u) \/ TakeAsk(u)
             \/ HandleAnswer(u)
      PROVE  IInv'
  BY <1>3, WriteKeeps, WriteFailsKeeps, LeaveKeeps, AnswerKeeps, TakeAskKeeps,
     HandleAnswerKeeps
<1>4. ASSUME NEW u \in Uis,
             ReceiveEnds(u) \/ \E d \in Links : Receive(u, d) \/ GraceEnds(u, d)
      PROVE  IInv'
  BY <1>4, RequestKeeps
<1>5. ASSUME NEW u \in Uis, NEW o \in Offers,
             Prune(u, o) \/ \E v \in Verdicts : Prompt(u, o, v) \/ Click(u, o, v)
      PROVE  IInv'
  BY <1>5, PruneKeeps, PromptKeeps, ClickKeeps
<1>6. CASE UNCHANGED vars
  BY <1>6, SeenKept DEF vars, seen, askVars, connVars, uiVars
<1> QED
  BY <1>1, <1>2, <1>3, <1>4, <1>5, <1>6, PumpKeeps DEF Next

\* The invariant is one of the specification.
LEMMA ConsentInv == Spec => []IInv
<1>1. IInv /\ [Next]_vars => IInv'
  BY StepKeeps
<1> QED
  BY <1>1, InitInv, PTL DEF Spec

\* However clicks, timers, disconnections and other offers' answers
\* interleave, spawn_consent fetches only what the person's first word, their
\* own request for the drop, or auto_accept allows: silence is never consent.
THEOREM OnlyWithConsent == Spec => []ConsentHonest
<1>1. IInv => ConsentHonest
  <2> SUFFICES ASSUME IInv, NEW o \in Offers
               PROVE  /\ ask[o] = "fetch" =>
                           \/ said[o] # <<>> /\ Head(said[o]) = "yes"
                           \/ said[o] = <<>> /\ DropOf[o] \in wanted
                      /\ ask[o] = "auto" => auto_accept /\ said[o] = <<>>
    BY DEF ConsentHonest
  <2>1. ask[o] = "fetch" => Backed("yes", o)
    BY ConsentAssumption DEF IInv, Phase, Answered
  <2>2. ask[o] = "auto" => auto_accept /\ Untouched(o)
    BY DEF IInv, Phase, Asked, Early
  <2> QED
    BY <2>1, <2>2 DEF Backed, Untouched
<1> QED
  BY <1>1, ConsentInv, PTL

\* AskRouter: an answer that arrives while its question is open is the one
\* that decides; the timer of ask and answers to other questions never
\* replace it.
THEOREM TimelyAnswerDecides == Spec => []AnswerDecides
<1>1. IInv => AnswerDecides
  <2> SUFFICES ASSUME IInv, NEW o \in Offers, reached[o] # None, ask[o] # "wait"
               PROVE  ask[o] = IF reached[o] = "yes" THEN "fetch" ELSE "declined"
    BY DEF AnswerDecides
  <2>1. ask[o] \in {"fetch", "declined"}
    BY DEF IInv, Typed, Phase, Stages, Early
  <2> QED
    BY <2>1 DEF IInv, Phase
<1> QED
  BY <1>1, ConsentInv, PTL

---------------------------------------------------------------------------
(* Types and bounds. *)

\* A set that has 0 and with n also n + 1 has every natural number.
LEMMA Stepwise ==
  ASSUME NEW T, 0 \in T, \A n \in Nat : n \in T => n + 1 \in T
  PROVE  Nat \subseteq T
<1> DEFINE R == OpToRel(<, Nat)
           F == {n \in Nat : n \notin T}
<1> SUFFICES ASSUME F # {} PROVE FALSE
  OBVIOUS
<1>1. PICK x \in F : \A y \in F : ~(<<y, x>> \in R)
  BY WFMin, NatLessThanWellFounded
<1>2. \A y \in F : ~(y < x)
  BY <1>1 DEF OpToRel
<1>3. x \in Nat /\ x # 0
  BY <1>1
<1>4. PICK m \in Nat : x = m + 1 /\ m < x
  <2>1. x - 1 \in Nat /\ x = (x - 1) + 1 /\ x - 1 < x
    BY <1>3
  <2> QED BY <2>1
<1>5. m \in T
  BY <1>2, <1>4
<1> QED BY <1>1, <1>4, <1>5

\* g holds what is kept of the first 0, 1, ... n entries of q.
Kept(g, q, S, n) ==
  g = [i \in 0..n |-> IF i = 0 THEN <<>>
                      ELSE IF q[i] \in S THEN Append(g[i - 1], q[i]) ELSE g[i - 1]]

\* There is such a g.
LEMMA KeptExists ==
  ASSUME NEW q, NEW S, NEW N \in Nat
  PROVE  \E g : Kept(g, q, S, N)
<1> DEFINE T == {n \in Nat : \E g : Kept(g, q, S, n)}
<1>1. 0 \in T
  <2> DEFINE g == [i \in 0..0 |-> <<>>]
  <2>1. Kept(g, q, S, 0)
    BY DEF Kept
  <2> QED BY <2>1
<1>2. ASSUME NEW n \in Nat, n \in T PROVE n + 1 \in T
  <2>1. PICK g : Kept(g, q, S, n)
    BY <1>2
  <2>2. PICK x : x = IF q[n + 1] \in S THEN Append(g[n], q[n + 1]) ELSE g[n]
    OBVIOUS
  <2> DEFINE h == [i \in 0..(n + 1) |-> IF i = n + 1 THEN x ELSE g[i]]
  <2>3. \A i \in 0..n : g[i] = IF i = 0 THEN <<>>
                               ELSE IF q[i] \in S THEN Append(g[i - 1], q[i]) ELSE g[i - 1]
    BY <2>1 DEF Kept
  <2>4. (\A i \in 0..n : h[i] = g[i]) /\ h[n + 1] = x /\ h = [i \in 0..(n + 1) |-> h[i]]
    OBVIOUS
  <2> HIDE DEF h
  <2>5. ASSUME NEW i \in 0..(n + 1)
        PROVE  h[i] = IF i = 0 THEN <<>>
                      ELSE IF q[i] \in S THEN Append(h[i - 1], q[i]) ELSE h[i - 1]
    <3>1. CASE i = n + 1
      <4>1. i # 0 /\ i - 1 = n /\ n \in 0..n
        BY <3>1
      <4> QED BY <2>2, <2>4, <3>1, <4>1
    <3>2. CASE i # n + 1 /\ i # 0
      <4>1. i \in 0..n /\ i - 1 \in 0..n
        BY <3>2
      <4> QED BY <2>3, <2>4, <3>2, <4>1
    <3>3. CASE i = 0
      <4>1. i \in 0..n
        BY <3>3
      <4> QED BY <2>3, <2>4, <3>3, <4>1
    <3> QED BY <3>1, <3>2, <3>3
  <2>6. Kept(h, q, S, n + 1)
    BY <2>4, <2>5 DEF Kept
  <2> QED BY <2>6
<1>3. Nat \subseteq T
  <2> HIDE DEF T
  <2> QED BY <1>1, <1>2, Stepwise
<1> QED BY <1>3

\* Vec::retain keeps some of the entries, each as often as it was there.
LEMMA RetainLemma ==
  ASSUME NEW U, NEW q \in Seq(U), NEW S, Once(q)
  PROVE  /\ retain(q, S) \in Seq(U) /\ Once(retain(q, S))
         /\ \A x : Has(retain(q, S), x) => Has(q, x)
<1>0. PICK N : N = Len(q)
  OBVIOUS
<1>1. N \in Nat
  BY <1>0
<1>2. PICK g : Kept(g, q, S, Len(q)) /\ retain(q, S) = g[Len(q)]
  <2>1. retain(q, S) = (CHOOSE g : Kept(g, q, S, Len(q)))[Len(q)]
    BY DEF retain, Kept
  <2>2. Kept(CHOOSE g : Kept(g, q, S, Len(q)), q, S, Len(q))
    <3>1. \E g : Kept(g, q, S, Len(q))
      BY <1>0, <1>1, KeptExists
    <3> QED BY <3>1, Zenon
  <2> QED BY <2>1, <2>2
<1>3. \A i \in 0..N : g[i] = IF i = 0 THEN <<>>
                             ELSE IF q[i] \in S THEN Append(g[i - 1], q[i]) ELSE g[i - 1]
  BY <1>0, <1>2 DEF Kept
<1> DEFINE T == {n \in Nat : n <= N =>
                   /\ g[n] \in Seq(U) /\ Once(g[n])
                   /\ \A x : Has(g[n], x) => \E j \in 1..n : q[j] = x}
<1>4. 0 \in T
  <2>1. 0 \in 0..N
    BY <1>1
  <2>2. g[0] = <<>>
    BY <1>3, <2>1
  <2>3. g[0] \in Seq(U) /\ Once(g[0]) /\ \A x : ~Has(g[0], x)
    BY <2>2, Empty
  <2> QED BY <2>3
<1>5. ASSUME NEW n \in Nat, n \in T PROVE n + 1 \in T
  <2> SUFFICES ASSUME n + 1 <= N
               PROVE  /\ g[n + 1] \in Seq(U) /\ Once(g[n + 1])
                      /\ \A x : Has(g[n + 1], x) => \E j \in 1..(n + 1) : q[j] = x
    OBVIOUS
  <2>1. n <= N /\ n + 1 \in 0..N /\ n + 1 # 0 /\ (n + 1) - 1 = n /\ n + 1 \in 1..Len(q)
    BY <1>0, <1>1
  <2>2. /\ g[n] \in Seq(U) /\ Once(g[n])
        /\ \A x : Has(g[n], x) => \E j \in 1..n : q[j] = x
    BY <1>5, <2>1
  <2>3. g[n + 1] = IF q[n + 1] \in S THEN Append(g[n], q[n + 1]) ELSE g[n]
    BY <1>3, <2>1
  <2>4. \A j \in 1..n : j \in 1..(n + 1) /\ j \in 1..Len(q) /\ j # n + 1
    BY <1>0, <1>1, <2>1
  <2>5. ~Has(g[n], q[n + 1]) /\ q[n + 1] \in U
    BY <2>1, <2>2, <2>4 DEF Once
  <2>6. CASE q[n + 1] \in S
    <3>1. g[n + 1] = Append(g[n], q[n + 1])
      BY <2>3, <2>6
    <3>2. /\ g[n + 1] \in Seq(U) /\ Once(g[n + 1])
          /\ \A x : Has(g[n + 1], x) <=> Has(g[n], x) \/ x = q[n + 1]
      BY <2>2, <2>5, <3>1, HasAppend
    <3>3. n + 1 \in 1..(n + 1)
      OBVIOUS
    <3> QED BY <2>2, <2>4, <3>2, <3>3
  <2>7. CASE q[n + 1] \notin S
    BY <2>2, <2>3, <2>4, <2>7
  <2> QED BY <2>6, <2>7
<1>6. Nat \subseteq T
  <2> HIDE DEF T
  <2> QED BY <1>4, <1>5, Stepwise
<1>7. /\ g[N] \in Seq(U) /\ Once(g[N])
      /\ \A x : Has(g[N], x) => \E j \in 1..N : q[j] = x
  <2>1. N <= N
    BY <1>1
  <2>2. N \in T
    <3> HIDE DEF T
    <3> QED BY <1>1, <1>6
  <2> QED BY <2>1, <2>2
<1> QED BY <1>0, <1>2, <1>7 DEF Has

\* The channels keep their capacities.
LEMMA BroadcastBounded ==
  ASSUME NEW S, NEW q \in Seq(S), NEW x \in S, NEW cap \in Nat \ {0}, Len(q) <= cap
  PROVE  Len(Broadcast(q, x, cap)) <= cap
<1>1. CASE Len(q) = cap
  <2>1. q # <<>> /\ Len(q) \in Nat \ {0}
    BY <1>1
  <2>2. PICK t : t = Tail(q)
    OBVIOUS
  <2>3. t \in Seq(S) /\ Len(t) = Len(q) - 1
    BY <2>1, <2>2
  <2>4. Broadcast(q, x, cap) = Append(t, x) /\ Len(Append(t, x)) = Len(t) + 1
    BY <1>1, <2>2, <2>3 DEF Broadcast
  <2> QED BY <1>1, <2>1, <2>3, <2>4
<1>2. CASE Len(q) # cap
  <2>1. Broadcast(q, x, cap) = Append(q, x) /\ Len(Append(q, x)) = Len(q) + 1 /\ Len(q) \in Nat
    BY <1>2 DEF Broadcast
  <2> QED BY <1>2, <2>1
<1> QED BY <1>1, <1>2

\* The registered UIs: each once, and none that never attached.
Router ==
  /\ uis \in Seq(Uis) /\ Once(uis)
  /\ link \in [Uis -> {"new", "deaf", "up", "gone"}] /\ writer \in [Uis -> BOOLEAN]
  /\ \A u \in Uis : Has(uis, u) => link[u] # "new"

\* The channels.
Within ==
  /\ Len(pumpq) <= PumpCap
  /\ \A u \in Uis : Len(out[u]) <= OutCap /\ Len(inbox[u]) <= AskCap

\* Every entry of the pending map belongs to an ask that has not returned.
Open ==
  /\ target \in [Offers -> Uis \cup {None}]
  /\ \A o \in pending : ask[o] \in {"send", "wait", "expired"}

\* The UIs keep their order and stay registered once.
LEMMA RouterStep ==
  ASSUME IInv, Router, [Next]_vars
  PROVE  Router'
<1>1. CASE UNCHANGED <<uis, link, writer>>
  BY <1>1 DEF Router
<1>2. \A q \in Seq(Uis) : Once(q) =>
        /\ forget_closed(q) \in Seq(Uis) /\ Once(forget_closed(q))
        /\ \A x : Has(forget_closed(q), x) => Has(q, x)
  BY RetainLemma DEF forget_closed
<1>3. ASSUME NEW o \in Offers, Pick(o) PROVE Router'
  <2>1. uis' = forget_closed(uis) /\ UNCHANGED <<link, writer>>
    BY <1>3 DEF Pick
  <2> QED BY <1>2, <2>1 DEF Router
<1>4. ASSUME NEW u \in Uis, Attach(u) PROVE Router'
  <2>1. /\ link[u] = "new" /\ writer' = [writer EXCEPT ![u] = TRUE] /\ uis' = Append(uis, u)
        /\ link' = [link EXCEPT ![u] = IF Kind[u] = "app" THEN "deaf" ELSE "up"]
    BY <1>4 DEF Attach
  <2>2. ~Has(uis, u)
    BY <2>1 DEF Router
  <2>3. uis' \in Seq(Uis) /\ Once(uis') /\ \A x : Has(uis', x) <=> Has(uis, x) \/ x = u
    BY <2>1, <2>2, HasAppend DEF Router
  <2>4. /\ link' \in [Uis -> {"new", "deaf", "up", "gone"}] /\ writer' \in [Uis -> BOOLEAN]
        /\ link'[u] # "new" /\ \A v \in Uis : v # u => link'[v] = link[v]
    BY <2>1 DEF Router
  <2> QED BY <2>3, <2>4 DEF Router
<1>5. ASSUME NEW u \in Uis, Listen(u) \/ Leave(u) PROVE Router'
  <2>1. UNCHANGED <<uis, writer>> /\ \E s \in {"up", "gone"} : link' = [link EXCEPT ![u] = s]
    BY <1>5 DEF Listen, Leave
  <2> QED BY <2>1 DEF Router
<1>6. ASSUME NEW u \in Uis, WriteFails(u) PROVE Router'
  <2>1. UNCHANGED <<uis, link>> /\ writer' = [writer EXCEPT ![u] = FALSE]
    BY <1>6 DEF WriteFails
  <2> QED BY <2>1 DEF Router
<1>7. ASSUME NEW u \in Uis, Detach(u) PROVE Router'
  <2>1. UNCHANGED <<link, writer>> /\ uis' = forget_closed(unregister_ui(u))
    BY <1>7 DEF Detach
  <2>2. PICK q : q = unregister_ui(u)
    OBVIOUS
  <2>3. q \in Seq(Uis) /\ Once(q) /\ \A x : Has(q, x) => Has(uis, x)
    BY <2>2, RetainLemma DEF unregister_ui, Router
  <2> QED BY <1>2, <2>1, <2>2, <2>3 DEF Router
<1>8. ASSUME NEW o \in Offers,
             OfferReceived(o) \/ Check(o) \/ SendAsk(o) \/ Decide(o) \/ Timeout(o) \/ Forget(o)
      PROVE  UNCHANGED <<uis, link, writer>>
  BY <1>8 DEF OfferReceived, Check, SendAsk, Decide, Timeout, Forget, connVars
<1>9. Pump => UNCHANGED <<uis, link, writer>>
  BY DEF Pump, connVars
<1>10. ASSUME NEW u \in Uis, Write(u) \/ answer(u) \/ TakeAsk(u) \/ HandleAnswer(u) \/ ReceiveEnds(u)
       PROVE  UNCHANGED <<uis, link, writer>>
  BY <1>10 DEF Write, answer, TakeAsk, HandleAnswer, ReceiveEnds, connVars
<1>11. ASSUME NEW u \in Uis, NEW d, Receive(u, d) \/ GraceEnds(u, d)
       PROVE  UNCHANGED <<uis, link, writer>>
  BY <1>11 DEF Receive, GraceEnds, connVars
<1>12. ASSUME NEW u \in Uis, NEW o, NEW v, Prune(u, o) \/ Prompt(u, o, v) \/ Click(u, o, v)
       PROVE  UNCHANGED <<uis, link, writer>>
  BY <1>12 DEF Prune, Prompt, Click, connVars
<1>13. UNCHANGED vars => UNCHANGED <<uis, link, writer>>
  BY DEF vars, connVars
<1> QED BY <1>1, <1>3, <1>4, <1>5, <1>6, <1>7, <1>8, <1>9, <1>10, <1>11, <1>12, <1>13
        DEF Next, Consider

\* The channels stay within their capacities.
LEMMA WithinStep ==
  ASSUME IInv, Within, [Next]_vars
  PROVE  Within'
<1>0. /\ pumpq \in Seq(Offers) /\ out \in [Uis -> Seq(Offers)] /\ inbox \in [Uis -> Seq(Offers)]
      /\ PumpCap \in Nat \ {0} /\ OutCap \in Nat \ {0} /\ AskCap \in Nat \ {0}
  BY ConsentAssumption DEF IInv, Typed
<1>1. CASE UNCHANGED <<pumpq, out, inbox>>
  BY <1>1 DEF Within
<1>01. \A q \in Seq(Offers) : q # <<>> => Len(Tail(q)) = Len(q) - 1 /\ Len(q) \in Nat /\ Head(q) \in Offers
  OBVIOUS
<1>2. ASSUME NEW o \in Offers, OfferReceived(o) PROVE Within'
  <2>1. pumpq' = Broadcast(pumpq, o, PumpCap) /\ UNCHANGED <<out, inbox>>
    BY <1>2 DEF OfferReceived, connVars, uiVars
  <2> QED BY <1>0, <2>1, BroadcastBounded DEF Within
<1>3. CASE Pump
  <2>1. pumpq # <<>> /\ pumpq' = Tail(pumpq) /\ UNCHANGED <<out, inbox>>
    BY <1>3 DEF Pump, connVars, uiVars
  <2>2. Len(pumpq') = Len(pumpq) - 1 /\ Len(pumpq) \in Nat
    BY <1>0, <1>01, <2>1
  <2>3. Len(pumpq') <= PumpCap
    BY <1>0, <2>2 DEF Within
  <2> QED BY <2>1, <2>3 DEF Within
<1>4. ASSUME NEW o \in Offers, SendAsk(o) PROVE Within'
  <2>1. UNCHANGED <<pumpq, inbox>>
    BY <1>4 DEF SendAsk, uiVars
  <2>2. CASE UNCHANGED out
    BY <1>1, <2>1, <2>2
  <2>3. CASE /\ Len(out[target[o]]) < OutCap
             /\ out' = [out EXCEPT ![target[o]] = Append(out[target[o]], o)]
    <3>1. ASSUME NEW u \in Uis PROVE Len(out'[u]) <= OutCap
      <4>1. CASE u # target[o]
        <5>1. out'[u] = out[u]
          BY <1>0, <2>3, <4>1
        <5> QED BY <5>1 DEF Within
      <4>2. CASE u = target[o]
        <5>1. PICK q : q = out[u]
          OBVIOUS
        <5>2. q \in Seq(Offers) /\ out'[u] = Append(q, o) /\ Len(q) < OutCap
          BY <1>0, <2>3, <4>2, <5>1
        <5>3. Len(out'[u]) = Len(q) + 1 /\ Len(q) \in Nat
          BY <5>2
        <5> QED BY <1>0, <5>2, <5>3
      <4> QED BY <4>1, <4>2
    <3> QED BY <2>1, <3>1 DEF Within
  <2> QED BY <1>4, <2>2, <2>3 DEF SendAsk
<1>5. ASSUME NEW u \in Uis, Write(u) PROVE Within'
  <2>1. /\ out[u] # <<>> /\ out' = [out EXCEPT ![u] = Tail(out[u])] /\ UNCHANGED pumpq
        /\ Hear(u, Head(out[u]))
    BY <1>5 DEF Write, askVars
  <2>2. /\ Len(Tail(out[u])) = Len(out[u]) - 1 /\ Len(out[u]) \in Nat /\ Head(out[u]) \in Offers
    BY <1>0, <1>01, <2>1
  <2>3. \A v \in Uis : out'[v] = IF v = u THEN Tail(out[u]) ELSE out[v]
    BY <1>0, <2>1
  <2>4. Len(Tail(out[u])) <= OutCap
    BY <1>0, <2>2 DEF Within
  <2>5. \A v \in Uis : Len(out'[v]) <= OutCap
    BY <2>3, <2>4 DEF Within
  <2>6. PICK b : b = Broadcast(inbox[u], Head(out[u]), AskCap)
    OBVIOUS
  <2>7. Len(b) <= AskCap
    BY <1>0, <2>2, <2>6, BroadcastBounded DEF Within
  <2>8. UNCHANGED inbox \/ inbox' = [inbox EXCEPT ![u] = inbox[u]] \/ inbox' = [inbox EXCEPT ![u] = b]
    BY <2>1, <2>6 DEF Hear
  <2>9. \A v \in Uis : inbox'[v] = inbox[v] \/ inbox'[v] = b
    BY <1>0, <2>8
  <2> QED BY <2>1, <2>5, <2>7, <2>9 DEF Within
<1>6. ASSUME NEW u \in Uis, WriteFails(u) PROVE Within'
  <2>1. out' = [out EXCEPT ![u] = <<>>] /\ UNCHANGED <<pumpq, inbox>>
    BY <1>6 DEF WriteFails, askVars, uiVars
  <2>2. \A v \in Uis : out'[v] = out[v] \/ out'[v] = <<>>
    BY <1>0, <2>1
  <2> QED BY <1>0, <2>1, <2>2 DEF Within
<1>7. ASSUME NEW u \in Uis, Leave(u) PROVE Within'
  <2>1. inbox' = [inbox EXCEPT ![u] = <<>>] /\ UNCHANGED <<pumpq, out>>
    BY <1>7 DEF Leave, askVars
  <2>2. \A v \in Uis : inbox'[v] = inbox[v] \/ inbox'[v] = <<>>
    BY <1>0, <2>1
  <2> QED BY <1>0, <2>1, <2>2 DEF Within
<1>8. ASSUME NEW u \in Uis, TakeAsk(u) PROVE Within'
  <2>1. inbox[u] # <<>> /\ inbox' = [inbox EXCEPT ![u] = Tail(inbox[u])] /\ UNCHANGED <<pumpq, out>>
    BY <1>8 DEF TakeAsk, askVars, connVars
  <2>2. Len(Tail(inbox[u])) = Len(inbox[u]) - 1 /\ Len(inbox[u]) \in Nat
    BY <1>0, <1>01, <2>1
  <2>3. Len(Tail(inbox[u])) <= AskCap
    BY <1>0, <2>2 DEF Within
  <2>4. \A v \in Uis : inbox'[v] = inbox[v] \/ inbox'[v] = Tail(inbox[u])
    BY <1>0, <2>1
  <2> QED BY <2>1, <2>3, <2>4 DEF Within
<1>9. ASSUME NEW o \in Offers, Check(o) \/ Pick(o) \/ Decide(o) \/ Timeout(o) \/ Forget(o)
      PROVE  UNCHANGED <<pumpq, out, inbox>>
  BY <1>9 DEF Check, Pick, Decide, Timeout, Forget, connVars, uiVars
<1>10. ASSUME NEW u \in Uis, Attach(u) \/ Listen(u) \/ Detach(u) \/ answer(u) \/ HandleAnswer(u)
                             \/ ReceiveEnds(u)
       PROVE  UNCHANGED <<pumpq, out, inbox>>
  BY <1>10 DEF Attach, Listen, Detach, answer, HandleAnswer, ReceiveEnds, askVars, connVars, uiVars
<1>11. ASSUME NEW u \in Uis, NEW d, Receive(u, d) \/ GraceEnds(u, d)
       PROVE  UNCHANGED <<pumpq, out, inbox>>
  BY <1>11 DEF Receive, GraceEnds, askVars, connVars
<1>12. ASSUME NEW u \in Uis, NEW o, NEW v, Prune(u, o) \/ Prompt(u, o, v) \/ Click(u, o, v)
       PROVE  UNCHANGED <<pumpq, out, inbox>>
  BY <1>12 DEF Prune, Prompt, Click, askVars, connVars
<1>13. UNCHANGED vars => UNCHANGED <<pumpq, out, inbox>>
  BY DEF vars, askVars, connVars, uiVars
<1> QED BY <1>1, <1>2, <1>3, <1>4, <1>5, <1>6, <1>7, <1>8, <1>9, <1>10, <1>11, <1>12, <1>13
        DEF Next, Consider

\* ask leaves no entry behind, on any of its ways out.
LEMMA OpenStep ==
  ASSUME IInv, Router, Open, [Next]_vars
  PROVE  Open'
<1>0. /\ ask \in [Offers -> Stages] /\ pending \subseteq Offers /\ pumpq \in Seq(Offers)
      /\ \A o \in Offers : Has(pumpq, o) => ask[o] = "queued"
  BY DEF IInv, Typed, Phase
<1>1. CASE UNCHANGED <<ask, target, pending>>
  BY <1>1 DEF Open
<1>2. ASSUME NEW o \in Offers, NEW s \in Stages, Go(o, s), pending' \subseteq pending \cup {o},
             s \in {"send", "wait", "expired"} \/ o \notin pending',
             target' \in [Offers -> Uis \cup {None}]
      PROVE  Open'
  <2>1. ask'[o] = s /\ \A x \in Offers : x # o => ask'[x] = ask[x]
    BY <1>0, <1>2 DEF Go
  <2> QED BY <1>0, <1>2, <2>1 DEF Open
<1>3. ASSUME NEW o \in Offers PROVE [target EXCEPT ![o] = None] \in [Offers -> Uis \cup {None}]
  BY DEF Open
<1>4. ASSUME NEW o \in Offers, OfferReceived(o) PROVE Open'
  <2>1. /\ ask[o] = "none" /\ UNCHANGED <<target, pending>>
        /\ ask' = [x \in Offers |->
                     IF x = o THEN "queued"
                     ELSE IF Len(pumpq) = PumpCap /\ x = Head(pumpq) THEN "lost" ELSE ask[x]]
    BY <1>4 DEF OfferReceived
  <2>2. Len(pumpq) = PumpCap => Head(pumpq) \in Offers /\ Has(pumpq, Head(pumpq))
    <3>1. Len(pumpq) = PumpCap => pumpq # <<>>
      BY <1>0, ConsentAssumption
    <3> QED BY <1>0, <3>1, HasTail
  <2>3. \A x \in pending : x # o /\ ~(Len(pumpq) = PumpCap /\ x = Head(pumpq))
    BY <1>0, <2>1, <2>2 DEF Open
  <2>4. \A x \in pending : ask'[x] = ask[x]
    BY <1>0, <2>1, <2>3
  <2> QED BY <2>1, <2>4 DEF Open
<1>5. CASE Pump
  <2>1. pumpq # <<>> /\ Go(Head(pumpq), "check") /\ UNCHANGED <<target, pending>>
    BY <1>5 DEF Pump
  <2>2. Head(pumpq) \in Offers /\ ask[Head(pumpq)] = "queued"
    BY <1>0, <2>1, HasTail
  <2>3. Head(pumpq) \notin pending
    BY <2>2 DEF Open
  <2> QED BY <1>2, <2>1, <2>2, <2>3 DEF Open, Stages
<1>6. ASSUME NEW o \in Offers, Check(o) PROVE Open'
  <2>1. ask[o] = "check" /\ UNCHANGED <<target, pending>> /\ \E s \in {"auto", "pick"} : Go(o, s)
    BY <1>6 DEF Check
  <2>2. o \notin pending
    BY <2>1 DEF Open
  <2> QED BY <1>2, <2>1, <2>2 DEF Open, Stages
<1>7. ASSUME NEW o \in Offers, Pick(o) PROVE Open'
  <2>1. PICK q : q = forget_closed(uis)
    OBVIOUS
  <2>2. q \in Seq(Uis)
    BY <2>1, RetainLemma DEF forget_closed, Router
  <2>3. CASE Go(o, "declined") /\ UNCHANGED <<target, pending>> /\ ask[o] = "pick"
    BY <1>2, <2>3 DEF Open, Stages
  <2>4. CASE /\ q # <<>> /\ target' = [target EXCEPT ![o] = Last(q)]
             /\ pending' = pending \cup {o} /\ Go(o, "send")
    <3>1. Last(q) \in Uis
      <4>1. Len(q) \in 1..Len(q)
        BY <2>2, <2>4
      <4> QED BY <2>2, <4>1 DEF Last
    <3>2. target' \in [Offers -> Uis \cup {None}]
      BY <2>4, <3>1 DEF Open
    <3> QED BY <1>2, <2>4, <3>2 DEF Stages
  <2> QED BY <1>7, <2>1, <2>3, <2>4 DEF Pick
<1>8. ASSUME NEW o \in Offers, SendAsk(o) PROVE Open'
  <2>1. CASE Go(o, "declined") /\ Done(o) /\ pending' = pending \ {o}
    BY <1>2, <1>3, <2>1 DEF Done, Stages
  <2>2. CASE Go(o, "wait") /\ UNCHANGED <<pending, target>>
    BY <1>2, <2>2 DEF Open, Stages
  <2> QED BY <1>8, <2>1, <2>2 DEF SendAsk
<1>9. ASSUME NEW o \in Offers, Decide(o) \/ Forget(o) PROVE Open'
  <2>1. /\ \E s \in {"fetch", "declined"} : Go(o, s)
        /\ pending' = pending \ {o} /\ target' = [target EXCEPT ![o] = None]
    BY <1>9 DEF Decide, Forget, Done
  <2> QED BY <1>2, <1>3, <2>1 DEF Stages
<1>10. ASSUME NEW o \in Offers, Timeout(o) PROVE Open'
  <2>1. Go(o, "expired") /\ UNCHANGED <<target, pending>>
    BY <1>10 DEF Timeout
  <2> QED BY <1>2, <2>1 DEF Open, Stages
<1>11. ASSUME NEW u \in Uis, answer(u) PROVE Open'
  <2>1. pending' \subseteq pending /\ UNCHANGED <<ask, target>>
    BY <1>11 DEF answer
  <2> QED BY <2>1 DEF Open
<1>12. ASSUME NEW u \in Uis, Attach(u) \/ Listen(u) \/ Write(u) \/ WriteFails(u) \/ Leave(u) \/ Detach(u)
                             \/ TakeAsk(u) \/ HandleAnswer(u) \/ ReceiveEnds(u)
       PROVE  UNCHANGED <<ask, target, pending>>
  BY <1>12 DEF Attach, Listen, Write, WriteFails, Leave, Detach, TakeAsk, HandleAnswer, ReceiveEnds, askVars
<1>13. ASSUME NEW u \in Uis, NEW d, Receive(u, d) \/ GraceEnds(u, d)
       PROVE  UNCHANGED <<ask, target, pending>>
  BY <1>13 DEF Receive, GraceEnds, askVars
<1>14. ASSUME NEW u \in Uis, NEW o, NEW v, Prune(u, o) \/ Prompt(u, o, v) \/ Click(u, o, v)
       PROVE  UNCHANGED <<ask, target, pending>>
  BY <1>14 DEF Prune, Prompt, Click, askVars
<1>15. UNCHANGED vars => UNCHANGED <<ask, target, pending>>
  BY DEF vars, askVars
<1> QED BY <1>1, <1>4, <1>5, <1>6, <1>7, <1>8, <1>9, <1>10, <1>11, <1>12, <1>13, <1>14, <1>15
        DEF Next, Consider

\* Consent.TypeOK: types; the pump's queue, the outbound channels and the
\* bridges' queues keep within their capacities, no UI is registered twice,
\* and the pending map never holds a question whose asker has returned, so it
\* cannot grow with the daemon's life; for any capacities.
THEOREM NoQuestionLeaks == Spec => []TypeOK
<1>1. Init => IInv /\ Router /\ Within /\ Open
  <2> SUFFICES ASSUME Init PROVE Router /\ Within /\ Open
    BY InitInv
  <2>1. Router
    BY Empty DEF Init, Router
  <2>2. Within
    BY ConsentAssumption DEF Init, Within
  <2>3. Open
    BY DEF Init, Open
  <2> QED BY <2>1, <2>2, <2>3
<1>2. IInv /\ Router /\ Within /\ Open /\ [Next]_vars => (IInv /\ Router /\ Within /\ Open)'
  BY StepKeeps, RouterStep, WithinStep, OpenStep
<1>3. IInv /\ Router /\ Within /\ Open => TypeOK
  <2> SUFFICES ASSUME IInv, Router, Within, Open PROVE TypeOK
    OBVIOUS
  <2>1. Typed /\ Queues
    BY DEF IInv
  <2>2. \A S : \A q \in Seq(S) : SeqOver(q, S)
    BY DEF SeqOver, ToSet
  <2>3. /\ SeqOver(pumpq, Offers) /\ SeqOver(uis, Uis)
        /\ \A u \in Uis : SeqOver(out[u], Offers) /\ SeqOver(inbox[u], Offers)
        /\ \A o \in Offers : SeqOver(said[o], Verdicts)
    BY <2>1, <2>2 DEF Typed, Router
  <2>4. IsInjective(uis)
    BY DEF Router, Once, IsInjective
  <2>5. pending \subseteq {o \in Offers : ask[o] \in {"send", "wait", "expired"}}
    BY <2>1 DEF Typed, Open
  <2>6. ASSUME NEW u \in Uis
        PROVE  /\ cards[u] \subseteq Offers
               /\ \A a \in ToSet(cmds[u]) \cup ToSet(ans[u]) : a.id \in Offers /\ a.verdict \in Verdicts
               /\ busy[u] \in Drops \cup {None} /\ requested[u] \subseteq wanted
    <3>1. cmds[u] \in Seq(Answer) /\ ans[u] \in Seq(Answer)
      BY <2>1 DEF Typed
    <3>2. ToSet(cmds[u]) \cup ToSet(ans[u]) \subseteq Answer
      BY <3>1 DEF ToSet
    <3>3. \A a \in Answer : a.id \in Offers /\ a.verdict \in Verdicts
      BY DEF Answer
    <3> QED BY <2>1, <3>2, <3>3 DEF Typed, Queues
  <2> QED BY <2>1, <2>3, <2>4, <2>5, <2>6 DEF TypeOK, Typed, Router, Within, Open
<1> QED BY <1>1, <1>2, <1>3, PTL DEF Spec

---------------------------------------------------------------------------
(* Every offer is decided once: the part of OfferDecided without fairness. *)

Decided == {"auto", "fetch", "declined", "lost"}

\* How far an offer is from its decision.
Undecided(s) ==
  IF s \in Decided THEN 0
  ELSE IF s = "expired" THEN 1
  ELSE IF s = "wait" THEN 2
  ELSE IF s = "send" THEN 3
  ELSE IF s = "pick" THEN 4
  ELSE IF s = "check" THEN 5
  ELSE IF s = "queued" THEN 6
  ELSE 7

\* Offers stay where they are or come nearer to a decision.
Deciding ==
  \A o \in Offers :
    \/ ask'[o] = ask[o]
    \/ Undecided(ask'[o]) \in Nat /\ Undecided(ask'[o]) < Undecided(ask[o])

\* Once the session has announced an offer, at most six steps of the pump and
\* the consent task decide it, none of them is taken twice, and no late
\* answer, timer, reconnecting UI or lagging pump reopens what is decided.
THEOREM DecidedOnce == Spec => [][Deciding]_vars
<1>1. ASSUME IInv, [Next]_vars
      PROVE  Deciding
  <2> USE <1>1
  <2>0. ask \in [Offers -> Stages]
    BY DEF IInv, Typed
  <2>1. ASSUME NEW o \in Offers, NEW s, Go(o, s),
               Undecided(s) \in Nat, Undecided(s) < Undecided(ask[o])
        PROVE  Deciding
    BY <2>0, <2>1 DEF Go, Deciding
  <2>2. ASSUME NEW o \in Offers, OfferReceived(o) PROVE Deciding
    <3>1. ASSUME NEW x \in Offers, ask'[x] # ask[x]
          PROVE  \/ ask[x] = "none" /\ ask'[x] = "queued"
                 \/ ask[x] = "queued" /\ ask'[x] = "lost"
      <4>1. CASE x = o
        BY <2>0, <2>2, <4>1 DEF OfferReceived
      <4>2. CASE x # o
        <5>1. Len(pumpq) = PumpCap /\ x = Head(pumpq) /\ ask'[x] = "lost"
          BY <2>2, <3>1, <4>2 DEF OfferReceived
        <5>2. pumpq \in Seq(Offers) /\ Len(pumpq) >= 1
          BY <5>1, ConsentAssumption DEF IInv, Typed
        <5>3. Has(pumpq, x)
          BY <5>1, <5>2 DEF Has
        <5> QED BY <5>1, <5>3 DEF IInv, Phase
      <4> QED BY <4>1, <4>2
    <3> QED BY <3>1 DEF Deciding, Undecided, Decided
  <2>3. CASE Pump
    <3>1. Head(pumpq) \in Offers /\ Has(pumpq, Head(pumpq))
      BY <2>3, HasTail DEF IInv, Typed, Queues, Pump
    <3>2. ask[Head(pumpq)] = "queued"
      BY <3>1 DEF IInv, Phase
    <3> QED BY <2>1, <2>3, <3>1, <3>2 DEF Pump, Undecided, Decided
  <2>4. ASSUME NEW o \in Offers, Consider(o) PROVE Deciding
    <3>1. \/ ask[o] = "check" /\ (Go(o, "auto") \/ Go(o, "pick"))
          \/ ask[o] = "pick" /\ (Go(o, "declined") \/ Go(o, "send"))
          \/ ask[o] = "send" /\ (Go(o, "declined") \/ Go(o, "wait"))
          \/ ask[o] = "wait" /\ (Go(o, "fetch") \/ Go(o, "declined") \/ Go(o, "expired"))
          \/ ask[o] = "expired" /\ Go(o, "declined")
      BY <2>4 DEF Consider, Check, Pick, SendAsk, Decide, Timeout, Forget
    <3> QED BY <2>1, <3>1 DEF Undecided, Decided
  <2>5. CASE ask' = ask
    BY <2>5 DEF Deciding
  <2>6. ASSUME NEW u \in Uis,
               \/ Attach(u) \/ Listen(u) \/ Write(u) \/ WriteFails(u) \/ Leave(u) \/ Detach(u)
               \/ answer(u) \/ TakeAsk(u) \/ HandleAnswer(u) \/ ReceiveEnds(u)
        PROVE  ask' = ask
    BY <2>6 DEF Attach, Listen, Write, WriteFails, Leave, Detach, answer, TakeAsk,
                HandleAnswer, ReceiveEnds, askVars
  <2>7. ASSUME NEW u \in Uis, NEW d \in Links, Receive(u, d) \/ GraceEnds(u, d)
        PROVE  ask' = ask
    BY <2>7 DEF Receive, GraceEnds, askVars
  <2>8. ASSUME NEW u \in Uis, NEW o \in Offers,
               Prune(u, o) \/ \E v \in Verdicts : Prompt(u, o, v) \/ Click(u, o, v)
        PROVE  ask' = ask
    BY <2>8 DEF Prune, Prompt, Click, askVars
  <2>9. CASE UNCHANGED vars
    BY <2>5, <2>9 DEF vars, askVars
  <2> QED
    BY <2>2, <2>3, <2>4, <2>5, <2>6, <2>7, <2>8, <2>9 DEF Next
<1>2. IInv /\ [Next]_vars => [Deciding]_vars
  BY <1>1
<1> QED BY <1>2, ConsentInv, PTL DEF Spec
=============================================================================
