---------------------------- MODULE Wire_proofs ----------------------------
(***************************************************************************)
(* Proofs about Wire for any peers, drops, bodies and limits, any number   *)
(* of frames, tickets and restarts: a frame is accepted only in its drop   *)
(* and family, what is sent is taken, a subscriber misses no retained      *)
(* extension, and a ticket names the peer that hands it out.               *)
(***************************************************************************)
EXTENDS Wire, SequenceTheorems, FiniteSetTheorems, WellFoundedInduction, NaturalsInduction, TLAPS

Future == [k |-> "future", len |-> 10]
Sent == Bodies \cup {Provider, Request, Future}

\* What the invariant keeps of a ticket: all but its nodes and its name.
IsRecord(t) ==
  t = [topic |-> t.topic, nodes |-> t.nodes, name |-> t.name, mode |-> t.mode, key |-> t.key]
GoodTicket(t) ==
  /\ IsRecord(t) /\ t.topic \in Drops /\ t.mode \in {"public", "sealed"}
  /\ t.key = NoKey \/ (t.mode = "sealed" /\ t.key = KeyOf(t.topic))

Frame ==
  [id : Nat, author : Peers \cup {None}, domain : {"v2", "v3", "v4"}, topic : Drops \cup {None},
   version : Nat, body : Sent, key : {None} \cup {KeyOf(d) : d \in Drops},
   payload : Nat, size : Nat]

\* A frame is as one of the encoders built it, or comes from an older build.
Genuine(f) ==
  /\ f.size <= MAX_MESSAGE_SIZE
  /\ \/ f.domain = "v2" /\ f.topic = None
     \/ /\ f.domain = "v3" /\ f.topic \in Drops /\ f.version = WIRE_VERSION
        /\ f.payload = PayloadSize(f.body)
     \/ /\ f.domain = "v4" /\ f.topic \in Drops /\ f.version = SEALED_WIRE_VERSION
        /\ f.key = KeyOf(f.topic)
        /\ f.payload = SealedSize(EnvelopeSize(PayloadSize(f.body)))
        /\ EnvelopeSize(PayloadSize(f.body)) <= MAX_BODY_SIZE

Family(mode) == IF mode = "sealed" THEN "v4" ELSE "v3"

\* Whoever holds a ticket of a drop agrees with the frames of that drop on
\* the family, replies apart.
Held(t) == t \in tickets \/ \E p \in Peers : Up(p) /\ t = session[p]
Agrees(t) ==
  \A i \in DOMAIN net : net[i].topic = t.topic =>
    net[i].domain = IF i \in replies THEN "v3" ELSE Family(t.mode)

FrameInv ==
  /\ net \in Seq(Frame) /\ replies \subseteq DOMAIN net
  /\ \A i \in DOMAIN net : Genuine(net[i])
  /\ DOMAIN session = Peers
  /\ \A t : Held(t) => GoodTicket(t) /\ Agrees(t)
  /\ \A t, u : Held(t) /\ Held(u) /\ t.topic = u.topic => t.mode = u.mode

\* What a session has seen of others it accepts, and its subscriber gets the
\* extensions among it.
HeardOK(p) ==
  /\ ~Up(p) => seen[p] = {} /\ due[p] = {} /\ sub[p] = "no"
  /\ seen[p] \subseteq DOMAIN net
  /\ \A i \in seen[p] : net[i].author # p => decode_for_session(p, net[i]).ok
  /\ sub[p] = "replayed" =>
       \A i \in seen[p] \ due[p] :
         net[i].body.k = "ext" /\ net[i].author # p /\ ~Blind(p) => i \in heard[p]

HeardInv ==
  /\ DOMAIN seen = Peers /\ DOMAIN due = Peers /\ DOMAIN sub = Peers /\ DOMAIN heard = Peers
  /\ \A p \in Peers : HeardOK(p)

---------------------------------------------------------------------------
\* The bodies of this build and of a later one have a size.
LEMMA SizesAreNaturals == \A b \in Sent : PayloadSize(b) \in Nat
<1>1. \A n \in Nat : Varint(n) \in Nat /\ Counted(n) \in Nat
  BY DEF Varint, Counted
<1>2. ASSUME NEW m \in Nat, NEW n \in Nat PROVE m * n \in Nat
  BY <1>2
<1>3. ASSUME NEW b \in Offers PROVE PayloadSize(b) \in Nat
  <2>1. b.k = "offer" /\ b.name \in Nat /\ b.entries \in Nat /\ b.key \in Nat /\ b.value \in Nat
    BY <1>3 DEF Offers
  <2>2. Counted(b.key) + Counted(b.value) \in Nat
    BY <1>1, <2>1
  <2>3. b.entries * (Counted(b.key) + Counted(b.value)) \in Nat
    BY <1>2, <2>1, <2>2
  <2>4. Counted(b.name) \in Nat /\ Varint(b.entries) \in Nat
    BY <1>1, <2>1
  <2>5. PayloadSize(b) = Hash + Counted(b.name) + 2 + 1 + Millis + Varint(b.entries)
                           + b.entries * (Counted(b.key) + Counted(b.value))
    BY <2>1 DEF PayloadSize
  <2> QED BY <2>3, <2>4, <2>5 DEF Hash, Millis
<1>4. ASSUME NEW b \in Extensions PROVE PayloadSize(b) \in Nat
  <2>1. b.k = "ext" /\ b.len \in Nat
    BY <1>4 DEF Extensions
  <2>2. PayloadSize(b) = 16 + 1 + 1 + Counted(b.len)
    BY <2>1 DEF PayloadSize
  <2> QED BY <1>1, <2>1, <2>2
<1>5. PayloadSize(Provider) \in Nat /\ PayloadSize(Request) \in Nat /\ PayloadSize(Future) \in Nat
  BY DEF PayloadSize, Provider, Request, Future, Hash, Millis
<1> QED BY <1>3, <1>4, <1>5, WireAssumption DEF Sent

\* A reply and an older build's request always fit in a frame.
LEMMA SmallFramesFit ==
  /\ PayloadSize(Provider) = 40 /\ PayloadSize(Request) = 32
  /\ SignedSize(40) <= MAX_MESSAGE_SIZE /\ SignedSize(32) <= MAX_MESSAGE_SIZE
<1>1. PayloadSize(Provider) = 40 /\ PayloadSize(Request) = 32
  BY DEF PayloadSize, Provider, Request, Hash, Millis
<1>2. SignedSize(40) = 163 /\ SignedSize(32) = 155
  BY DEF SignedSize, EnvelopeSize, Counted, Varint, Millis
<1> QED BY <1>1, <1>2, FramesAssumption

\* Frame sizes are numbers.
LEMMA SignedSizeNatural ==
  ASSUME NEW n \in Nat
  PROVE  SignedSize(n) \in Nat /\ EnvelopeSize(n) \in Nat /\ SealedSize(n) \in Nat
<1>1. \A m \in Nat : Varint(m) \in Nat /\ Counted(m) \in Nat
  BY DEF Varint, Counted
<1>2. EnvelopeSize(n) \in Nat
  BY <1>1 DEF EnvelopeSize
<1>3. 1 + 16 + Millis + EnvelopeSize(n) \in Nat
  BY <1>2 DEF Millis
<1>4. Counted(1 + 16 + Millis + EnvelopeSize(n)) \in Nat
  BY <1>1, <1>3
<1> QED BY <1>2, <1>4 DEF SignedSize, SealedSize

\* Refreshing, shortening and stripping a ticket keep its drop and its mode,
\* and give it no key it did not have.
LEMMA FormsAreGood ==
  ASSUME NEW t, GoodTicket(t), NEW self, NEW peers
  PROVE  LET r == refresh(t, self, peers) IN
         /\ GoodTicket(r) /\ r.topic = t.topic /\ r.mode = t.mode /\ r.key = t.key
         /\ \A u \in Forms(r) : GoodTicket(u) /\ u.topic = t.topic /\ u.mode = t.mode
<1>1. ASSUME NEW s, GoodTicket(s), NEW X
      PROVE  LET r == [s EXCEPT !.nodes = X] IN
             GoodTicket(r) /\ r.topic = s.topic /\ r.mode = s.mode /\ r.key = s.key
  BY <1>1 DEF GoodTicket, IsRecord
<1>2. \E X : refresh(t, self, peers) = [t EXCEPT !.nodes = X]
  BY Zenon DEF refresh
<1>3. PICK r : /\ r = refresh(t, self, peers) /\ GoodTicket(r)
               /\ r.topic = t.topic /\ r.mode = t.mode /\ r.key = t.key
  BY <1>1, <1>2
<1>4. \E X : shorten(r) = [r EXCEPT !.nodes = X]
  BY Zenon DEF shorten
<1>5. GoodTicket(shorten(r)) /\ shorten(r).topic = r.topic /\ shorten(r).mode = r.mode
  BY <1>1, <1>3, <1>4
<1>6. GoodTicket(without_key(r)) /\ without_key(r).topic = r.topic /\ without_key(r).mode = r.mode
  BY <1>3 DEF without_key, GoodTicket, IsRecord
<1> QED BY <1>3, <1>5, <1>6 DEF Forms

\* A running session has a good ticket, which agrees with the frames.
LEMMA SessionGood ==
  ASSUME FrameInv, NEW p \in Peers, Up(p)
  PROVE  Held(session[p]) /\ GoodTicket(session[p]) /\ Agrees(session[p])
BY DEF FrameInv, Held

\* encode and encode_sealed build genuine frames of their family.
LEMMA EncodersGenuine ==
  ASSUME NEW id \in Nat, NEW p \in Peers, NEW d \in Drops, NEW b \in Sent
  PROVE  /\ encode(id, p, d, b) # None =>
              LET f == encode(id, p, d, b) IN
              /\ f \in Frame /\ Genuine(f) /\ f.topic = d /\ f.domain = "v3"
              /\ f.author = p /\ f.body = b
         /\ encode_sealed(id, p, d, KeyOf(d), b) # None =>
              LET f == encode_sealed(id, p, d, KeyOf(d), b) IN
              /\ f \in Frame /\ Genuine(f) /\ f.topic = d /\ f.domain = "v4"
              /\ f.author = p /\ f.body = b
<1> DEFINE n == PayloadSize(b)
           e == EnvelopeSize(n)
           z == SealedSize(e)
           pub == Signed(id, p, "v3", d, WIRE_VERSION, b, None, n)
           sea == Signed(id, p, "v4", d, SEALED_WIRE_VERSION, b, KeyOf(d), z)
<1>1. n \in Nat /\ e \in Nat /\ z \in Nat /\ SignedSize(n) \in Nat /\ SignedSize(z) \in Nat
  BY SizesAreNaturals, SignedSizeNatural
<1>2. /\ pub \in Frame /\ pub.topic = d /\ pub.domain = "v3" /\ pub.author = p /\ pub.body = b
      /\ pub.size = SignedSize(n) /\ pub.version = WIRE_VERSION /\ pub.payload = n
  <2> HIDE DEF n
  <2> QED BY <1>1 DEF Signed, Frame, WIRE_VERSION
<1>3. /\ sea \in Frame /\ sea.topic = d /\ sea.domain = "v4" /\ sea.author = p /\ sea.body = b
      /\ sea.size = SignedSize(z) /\ sea.version = SEALED_WIRE_VERSION /\ sea.payload = z
      /\ sea.key = KeyOf(d)
  <2> HIDE DEF z
  <2> QED BY <1>1 DEF Signed, Frame, SEALED_WIRE_VERSION
<1>4. encode(id, p, d, b) = IF pub.size > MAX_MESSAGE_SIZE THEN None ELSE pub
  BY DEF encode
<1>5. encode_sealed(id, p, d, KeyOf(d), b) =
        IF e > MAX_BODY_SIZE \/ sea.size > MAX_MESSAGE_SIZE THEN None ELSE sea
  BY DEF encode_sealed
<1> HIDE DEF pub, sea, z, e, n
<1>6. /\ ~(pub.size > MAX_MESSAGE_SIZE) => pub.size <= MAX_MESSAGE_SIZE
      /\ ~(sea.size > MAX_MESSAGE_SIZE) => sea.size <= MAX_MESSAGE_SIZE
      /\ ~(e > MAX_BODY_SIZE) => e <= MAX_BODY_SIZE
  BY <1>1, <1>2, <1>3, FramesAssumption DEF MAX_BODY_SIZE
<1>7. ~(pub.size > MAX_MESSAGE_SIZE) => Genuine(pub)
  BY <1>2, <1>6 DEF Genuine, n
<1>8. ~(e > MAX_BODY_SIZE) /\ ~(sea.size > MAX_MESSAGE_SIZE) => Genuine(sea)
  BY <1>3, <1>6 DEF Genuine, n, e, z
<1> QED BY <1>2, <1>3, <1>4, <1>5, <1>7, <1>8

\* broadcast_signed builds a genuine frame of the session's drop and family.
LEMMA EncodedGenuine ==
  ASSUME FrameInv, NEW p \in Peers, Up(p), NEW id \in Nat, NEW b \in Sent,
         NEW f, f = Encoded(p, id, b), f # None
  PROVE  /\ f \in Frame /\ Genuine(f) /\ f.topic = session[p].topic
         /\ f.domain = Family(session[p].mode) /\ f.author = p /\ f.body = b
<1>1. GoodTicket(session[p])
  BY SessionGood
<1>2. session[p].topic \in Drops
  BY <1>1 DEF GoodTicket
<1>3. CASE session[p].mode = "sealed"
  <2>1. ~Blind(p) /\ f = encode_sealed(id, p, session[p].topic, session[p].key, b)
    BY <1>3 DEF Encoded
  <2>2. session[p].key = KeyOf(session[p].topic)
    BY <1>1, <1>3, <2>1 DEF GoodTicket, Blind
  <2> QED BY <1>2, <1>3, <2>1, <2>2, EncodersGenuine DEF Family
<1>4. CASE session[p].mode # "sealed"
  BY <1>2, <1>4, EncodersGenuine DEF Encoded, Family
<1> QED BY <1>3, <1>4

\* A growing net: the frames there are stay, the new ones are genuine and of
\* the family of whoever holds a ticket of their drop.
LEMMA NetGrows ==
  ASSUME FrameInv, net' \in Seq(Frame), Len(net) <= Len(net'),
         \A i \in DOMAIN net : net'[i] = net[i],
         replies \subseteq replies', replies' \subseteq DOMAIN net',
         \A i \in DOMAIN net : i \in replies' => i \in replies,
         \A i \in DOMAIN net' : i \notin DOMAIN net =>
           /\ Genuine(net'[i])
           /\ \A t : Held(t) /\ net'[i].topic = t.topic =>
                net'[i].domain = IF i \in replies' THEN "v3" ELSE Family(t.mode),
         UNCHANGED <<session, tickets>>
  PROVE  FrameInv'
<1>1. \A t : Held(t)' <=> Held(t)
  BY DEF Held, Up
<1>2. ASSUME NEW i \in DOMAIN net' PROVE Genuine(net[i])'
  <2>1. CASE i \in DOMAIN net
    BY <2>1 DEF FrameInv, Genuine
  <2>2. CASE i \notin DOMAIN net
    BY <2>2 DEF Genuine
  <2> QED BY <2>1, <2>2
<1>3. ASSUME NEW t, Held(t) PROVE Agrees(t)'
  <2>1. ASSUME NEW i \in DOMAIN net', net'[i].topic = t.topic
        PROVE  net'[i].domain = IF i \in replies' THEN "v3" ELSE Family(t.mode)
    <3>1. CASE i \in DOMAIN net
      <4>1. net[i].domain = IF i \in replies THEN "v3" ELSE Family(t.mode)
        BY <1>3, <2>1, <3>1 DEF FrameInv, Agrees
      <4>2. i \in replies' <=> i \in replies
        BY <3>1
      <4> QED BY <3>1, <4>1, <4>2
    <3>2. CASE i \notin DOMAIN net
      BY <1>3, <2>1, <3>2
    <3> QED BY <3>1, <3>2
  <2> QED BY <2>1 DEF Agrees
<1>4. \A t : Held(t) => GoodTicket(t)
  BY DEF FrameInv
<1>5. \A t, u : Held(t) /\ Held(u) /\ t.topic = u.topic => t.mode = u.mode
  BY DEF FrameInv
<1> QED BY <1>1, <1>2, <1>3, <1>4, <1>5 DEF FrameInv

\* broadcast keeps the frame invariant, and adds only p's own frames.
LEMMA BroadcastKeepsFrames ==
  ASSUME FrameInv, NEW p \in Peers, NEW bodies \in Seq(Sent), broadcast(p, bodies)
  PROVE  /\ FrameInv' /\ UNCHANGED <<session, replies>>
         /\ \A i \in DOMAIN net : i \in DOMAIN net' /\ net'[i] = net[i]
         /\ \A i \in DOMAIN net' : i \notin DOMAIN net => net'[i].author = p
         /\ seen' = [seen EXCEPT ![p] = @ \cup ((Len(net) + 1)..(Len(net) + Len(bodies)))]
         /\ DOMAIN net' = 1..(Len(net) + Len(bodies))
<1> DEFINE frames == [i \in DOMAIN bodies |-> Encoded(p, Len(net) + i, bodies[i])]
<1>1. /\ Up(p) /\ net' = net \o frames /\ \A i \in DOMAIN frames : frames[i] # None
      /\ UNCHANGED <<session, tickets, replies>>
      /\ seen' = [seen EXCEPT ![p] = @ \cup ((Len(net) + 1)..(Len(net) + Len(bodies)))]
  BY DEF broadcast, ticketVars
<1>2. net \in Seq(Frame) /\ Len(net) \in Nat /\ DOMAIN net = 1..Len(net) /\ replies \subseteq DOMAIN net
  BY DEF FrameInv
<1>3. DOMAIN bodies = 1..Len(bodies) /\ Len(bodies) \in Nat
  OBVIOUS
<1>4. ASSUME NEW i \in 1..Len(bodies)
      PROVE  /\ frames[i] \in Frame /\ Genuine(frames[i]) /\ frames[i].topic = session[p].topic
             /\ frames[i].domain = Family(session[p].mode) /\ frames[i].author = p
  <2>1. bodies[i] \in Sent /\ Len(net) + i \in Nat
    BY <1>2, <1>3
  <2>2. frames[i] = Encoded(p, Len(net) + i, bodies[i]) /\ frames[i] # None
    BY <1>1, <1>3
  <2> HIDE DEF frames
  <2> QED BY <1>1, <2>1, <2>2, EncodedGenuine
<1>5. frames \in Seq(Frame) /\ Len(frames) = Len(bodies)
  BY <1>3, <1>4
<1> HIDE DEF frames
<1>6. /\ net' \in Seq(Frame) /\ Len(net') = Len(net) + Len(bodies)
      /\ \A i \in 1..Len(net) : net'[i] = net[i]
      /\ \A i \in (Len(net) + 1)..(Len(net) + Len(bodies)) : net'[i] = frames[i - Len(net)]
  BY <1>1, <1>2, <1>3, <1>5, ConcatProperties
<1>7. DOMAIN net' = 1..(Len(net) + Len(bodies))
  BY <1>6
<1>8. ASSUME NEW i \in DOMAIN net', i \notin DOMAIN net
      PROVE  /\ Genuine(net'[i]) /\ net'[i].topic = session[p].topic
             /\ net'[i].domain = Family(session[p].mode) /\ net'[i].author = p
  <2>1. i \in (Len(net) + 1)..(Len(net) + Len(bodies)) /\ i - Len(net) \in 1..Len(bodies)
    BY <1>2, <1>3, <1>7, <1>8
  <2> QED BY <1>4, <1>6, <2>1
<1>9. ASSUME NEW i \in DOMAIN net', i \notin DOMAIN net, NEW t, Held(t), net'[i].topic = t.topic
      PROVE  net'[i].domain = IF i \in replies' THEN "v3" ELSE Family(t.mode)
  <2>1. Held(session[p]) /\ t.mode = session[p].mode
    BY <1>1, <1>8, <1>9, SessionGood DEF FrameInv
  <2> QED BY <1>1, <1>2, <1>8, <1>9, <2>1
<1>10. FrameInv'
  BY <1>1, <1>2, <1>6, <1>7, <1>8, <1>9, <1>3, NetGrows
<1> QED BY <1>1, <1>2, <1>3, <1>6, <1>7, <1>8, <1>10

\* Tickets that travel stand for the same drop in the same mode.
LEMMA TicketsMove ==
  ASSUME FrameInv, UNCHANGED <<net, replies>>, DOMAIN session' = Peers,
         \A t : Held(t)' => GoodTicket(t) /\ \E u : Held(u) /\ u.topic = t.topic /\ u.mode = t.mode
  PROVE  FrameInv'
<1>1. \A i \in DOMAIN net' : Genuine(net[i])'
  BY DEF FrameInv, Genuine
<1>2. ASSUME NEW t, Held(t)' PROVE GoodTicket(t) /\ Agrees(t)'
  <2>1. PICK u : Held(u) /\ u.topic = t.topic /\ u.mode = t.mode
    BY <1>2
  <2>2. Agrees(u)
    BY <2>1 DEF FrameInv
  <2> QED BY <1>2, <2>1, <2>2 DEF Agrees
<1>3. ASSUME NEW t, NEW u, Held(t)', Held(u)', t.topic = u.topic PROVE t.mode = u.mode
  <2>1. PICK t0 : Held(t0) /\ t0.topic = t.topic /\ t0.mode = t.mode
    BY <1>3
  <2>2. PICK u0 : Held(u0) /\ u0.topic = u.topic /\ u0.mode = u.mode
    BY <1>3
  <2>3. t0.mode = u0.mode
    BY <1>3, <2>1, <2>2 DEF FrameInv
  <2> QED BY <2>1, <2>2, <2>3
<1> QED BY <1>1, <1>2, <1>3 DEF FrameInv

\* create: a drop nobody has a ticket or a frame of.
LEMMA CreateKeepsFrames ==
  ASSUME FrameInv, NEW p \in Peers, NEW d \in Drops, NEW private \in BOOLEAN, create(p, d, private)
  PROVE  FrameInv'
<1> DEFINE n == IF private THEN new_private(d, <<Self(p)>>, Name[d]) ELSE new(d, <<Self(p)>>, Name[d])
<1>1. /\ session' = [session EXCEPT ![p] = n] /\ UNCHANGED <<tickets, net, replies>>
      /\ DOMAIN session = Peers
  BY DEF create, ticketVars, frameVars, FrameInv
<1>2. GoodTicket(n) /\ n.topic = d
  BY DEF GoodTicket, IsRecord, new, new_private
<1>3. ASSUME NEW t, Held(t) PROVE t.topic # d
  BY <1>3 DEF create, Held
<1>4. \A i \in DOMAIN net : net[i].topic # d
  BY DEF create
<1> HIDE DEF n
<1>5. \A t : Held(t)' => Held(t) \/ t = n
  BY <1>1 DEF Held, Up
<1>6. \A i \in DOMAIN net' : Genuine(net[i])'
  BY <1>1 DEF FrameInv, Genuine
<1>7. ASSUME NEW t, Held(t)' PROVE GoodTicket(t) /\ Agrees(t)'
  BY <1>1, <1>2, <1>4, <1>5, <1>7 DEF FrameInv, Agrees
<1>8. ASSUME NEW t, NEW u, Held(t)', Held(u)', t.topic = u.topic PROVE t.mode = u.mode
  BY <1>2, <1>3, <1>5, <1>8 DEF FrameInv
<1> QED BY <1>1, <1>6, <1>7, <1>8 DEF FrameInv

\* drop.ticket, join and restart pass tickets on.
LEMMA TicketsKeepFrames ==
  ASSUME FrameInv, NEW p \in Peers, ticket(p) \/ (\E t \in tickets : join(p, t)) \/ Restart(p)
  PROVE  FrameInv'
<1>1. DOMAIN session = Peers /\ \A t : Held(t) => GoodTicket(t)
  BY DEF FrameInv
<1>2. CASE ticket(p)
  <2>0. PICK peers : \E t \in Forms(Fresh(p, peers)) : tickets' = tickets \cup {t}
    BY <1>2 DEF ticket
  <2>1. PICK t \in Forms(Fresh(p, peers)) : tickets' = tickets \cup {t}
    BY <2>0
  <2>2. Up(p) /\ UNCHANGED <<session, net, replies>>
    BY <1>2 DEF ticket, frameVars
  <2>3. Held(session[p]) /\ GoodTicket(session[p])
    BY <2>2, SessionGood
  <2>4. GoodTicket(t) /\ t.topic = session[p].topic /\ t.mode = session[p].mode
    BY <2>1, <2>3, FormsAreGood DEF Fresh
  <2>5. \A u : Held(u)' => Held(u) \/ u = t
    BY <2>1, <2>2 DEF Held, Up
  <2> QED BY <1>1, <2>2, <2>3, <2>4, <2>5, TicketsMove
<1>3. ASSUME NEW t \in tickets, join(p, t) PROVE FrameInv'
  <2>1. session' = [session EXCEPT ![p] = t] /\ UNCHANGED <<tickets, net, replies>>
    BY <1>3 DEF join, ticketVars, frameVars
  <2>2. \A u : Held(u)' => Held(u)
    BY <1>1, <2>1 DEF Held, Up
  <2> QED BY <1>1, <2>1, <2>2, TicketsMove
<1>4. CASE Restart(p)
  <2>1. PICK peers : session' = [session EXCEPT ![p] =
                       IF from_string_prefixed(Fresh(p, peers)) THEN Fresh(p, peers) ELSE None]
    BY <1>4 DEF Restart
  <2>2. Up(p) /\ UNCHANGED <<tickets, net, replies>>
    BY <1>4 DEF Restart
  <2>3. Held(session[p]) /\ GoodTicket(session[p])
    BY <2>2, SessionGood
  <2>4. /\ GoodTicket(Fresh(p, peers)) /\ Fresh(p, peers).topic = session[p].topic
        /\ Fresh(p, peers).mode = session[p].mode
    BY <2>3, FormsAreGood DEF Fresh
  <2>5. \A u : Held(u)' => Held(u) \/ u = Fresh(p, peers)
    BY <1>1, <2>1, <2>2 DEF Held, Up
  <2>6. DOMAIN session' = Peers
    BY <1>1, <2>1
  <2> QED BY <1>1, <2>2, <2>3, <2>4, <2>5, <2>6, TicketsMove
<1> QED BY <1>2, <1>3, <1>4

\* One more frame: from an older build, or the reply to a request.
LEMMA OneMoreFrame ==
  ASSUME FrameInv, NEW f \in Frame, Genuine(f), net' = Append(net, f),
         replies' \in {replies, replies \cup {Len(net) + 1}},
         \A t : Held(t) /\ f.topic = t.topic => f.domain = "v3" /\ Len(net) + 1 \in replies',
         UNCHANGED <<session, tickets>>
  PROVE  FrameInv' /\ \A i \in DOMAIN net : i \in DOMAIN net' /\ net'[i] = net[i]
<1>1. net \in Seq(Frame) /\ Len(net) \in Nat /\ DOMAIN net = 1..Len(net) /\ replies \subseteq DOMAIN net
  BY DEF FrameInv
<1>2. /\ net' \in Seq(Frame) /\ Len(net') = Len(net) + 1 /\ DOMAIN net' = 1..(Len(net) + 1)
      /\ \A i \in 1..Len(net) : net'[i] = net[i]
      /\ net'[Len(net) + 1] = f
  BY <1>1, AppendProperties
<1>3. \A i \in DOMAIN net' : i \notin DOMAIN net => i = Len(net) + 1
  BY <1>1, <1>2
<1>4. /\ replies \subseteq replies' /\ replies' \subseteq DOMAIN net'
      /\ \A i \in DOMAIN net : i \in replies' => i \in replies
  BY <1>1, <1>2
<1>5. FrameInv'
  BY <1>1, <1>2, <1>3, <1>4, NetGrows
<1> QED BY <1>1, <1>2, <1>5

\* An older build's frame belongs to no drop.
LEMMA LegacyKeepsFrames ==
  ASSUME FrameInv, SendLegacy
  PROVE  /\ FrameInv' /\ UNCHANGED <<session, seen, due, sub, heard>>
         /\ \A i \in DOMAIN net : i \in DOMAIN net' /\ net'[i] = net[i]
<1> DEFINE f == Signed(Len(net) + 1, None, "v2", None, 1, Request, None, PayloadSize(Request))
<1>1. /\ net' = Append(net, f) /\ UNCHANGED <<session, tickets, replies, seen, due, sub, heard>>
  BY DEF SendLegacy, ticketVars, extVars
<1>2. Len(net) + 1 \in Nat
  BY DEF FrameInv
<1>3. f \in Frame /\ f.domain = "v2" /\ f.topic = None /\ f.size = SignedSize(32)
  BY <1>2, SmallFramesFit, SignedSizeNatural DEF Signed, Frame, Sent
<1> HIDE DEF f
<1>4. Genuine(f)
  BY <1>3, SmallFramesFit DEF Genuine
<1>5. \A t : Held(t) => t.topic # f.topic
  BY <1>3, WireAssumption DEF FrameInv, GoodTicket
<1> QED BY <1>1, <1>3, <1>4, <1>5, OneMoreFrame

\* A reply is a frame of the public family of the session's drop.
LEMMA ReceivedKeepsFrames ==
  ASSUME FrameInv, NEW p \in Peers, NEW i \in DOMAIN net, Received(p, i)
  PROVE  /\ FrameInv' /\ UNCHANGED session
         /\ \A j \in DOMAIN net : j \in DOMAIN net' /\ net'[j] = net[j]
<1>1. Up(p) /\ UNCHANGED <<session, tickets>> /\ (handle_request(p) \/ UNCHANGED <<net, replies>>)
  BY DEF Received, handle_message, ticketVars
<1>2. CASE UNCHANGED <<net, replies>>
  <2>1. \A t : Held(t)' <=> Held(t)
    BY <1>1 DEF Held, Up
  <2>2. \A t : Held(t) => GoodTicket(t)
    BY DEF FrameInv
  <2> QED BY <1>1, <1>2, <2>1, <2>2, TicketsMove DEF FrameInv
<1> DEFINE f == encode(Len(net) + 1, p, session[p].topic, Provider)
<1>3. CASE net' = Append(net, f) /\ replies' = replies \cup {Len(net) + 1}
  <2>1. session[p].topic \in Drops /\ Len(net) + 1 \in Nat /\ Provider \in Sent
    BY <1>1, SessionGood DEF GoodTicket, FrameInv, Sent
  <2> DEFINE g == Signed(Len(net) + 1, p, "v3", session[p].topic, WIRE_VERSION, Provider, None, 40)
  <2>2. f = IF g.size > MAX_MESSAGE_SIZE THEN None ELSE g
    BY SmallFramesFit DEF encode
  <2>3. /\ g.size = SignedSize(40) /\ g.topic = session[p].topic /\ g.domain = "v3"
        /\ g.version = WIRE_VERSION /\ g.payload = 40 /\ g.body = Provider
        /\ SignedSize(40) \in Nat
    BY SignedSizeNatural DEF Signed
  <2>4. f = g
    BY <2>2, <2>3, SmallFramesFit, FramesAssumption
  <2>5. g \in Frame
    BY <2>1, SignedSizeNatural DEF Signed, Frame, WIRE_VERSION
  <2> HIDE DEF f, g
  <2>6. Genuine(g)
    BY <2>1, <2>3, SmallFramesFit DEF Genuine
  <2>7. Len(net) + 1 \in replies'
    BY <1>3
  <2> QED BY <1>1, <1>3, <2>3, <2>4, <2>5, <2>6, <2>7, OneMoreFrame
<1> QED BY <1>1, <1>2, <1>3 DEF handle_request

---------------------------------------------------------------------------
\* The sequences of bodies the callers of broadcast give it.
LEMMA BodiesSent ==
  /\ Provider \in Sent /\ Request \in Sent /\ Future \in Sent /\ Bodies \subseteq Sent
  /\ \A b \in Sent : <<b>> \in Seq(Sent)
  /\ \A b \in Sent, c \in Sent : <<b, c>> \in Seq(Sent)
BY DEF Sent

\* Every call that sends is a broadcast of bodies known here.
LEMMA SendersBroadcast ==
  ASSUME NEW p \in Peers,
         (\E b \in Bodies : publish(p, b) \/ send_extension(p, b)) \/ request(p) \/ SendFuture(p)
  PROVE  \E bodies \in Seq(Sent) : broadcast(p, bodies)
<1>1. ASSUME NEW b \in Bodies, publish(p, b) PROVE \E bodies \in Seq(Sent) : broadcast(p, bodies)
  <2>1. broadcast(p, <<b, Provider>>)
    BY <1>1 DEF publish
  <2> QED BY <2>1, BodiesSent
<1>2. ASSUME NEW b \in Bodies, send_extension(p, b) PROVE \E bodies \in Seq(Sent) : broadcast(p, bodies)
  <2>1. broadcast(p, <<b>>)
    BY <1>2 DEF send_extension
  <2> QED BY <2>1, BodiesSent
<1>3. CASE request(p)
  BY <1>3, BodiesSent DEF request
<1>4. CASE SendFuture(p)
  BY <1>4, BodiesSent DEF SendFuture, Future
<1> QED BY <1>1, <1>2, <1>3, <1>4

\* At first there is no frame and no ticket.
LEMMA InitFrames == Init => FrameInv
<1> SUFFICES ASSUME Init PROVE FrameInv
  OBVIOUS
<1>1. \A t : ~Held(t)
  BY DEF Init, Held, Up
<1>2. net = <<>> /\ replies = {} /\ DOMAIN session = Peers
  BY DEF Init
<1>3. net \in Seq(Frame) /\ DOMAIN net = {}
  BY <1>2
<1> QED BY <1>1, <1>2, <1>3 DEF FrameInv

\* Steps that move neither frames nor tickets.
LEMMA OthersKeepFrames ==
  ASSUME FrameInv, UNCHANGED <<session, tickets, net, replies>>
  PROVE  FrameInv'
<1>1. \A t : Held(t)' <=> Held(t)
  BY DEF Held, Up
<1>2. \A t : Held(t) => GoodTicket(t)
  BY DEF FrameInv
<1>3. DOMAIN session' = Peers
  BY DEF FrameInv
<1> QED BY <1>1, <1>2, <1>3, TicketsMove

\* Every step keeps the frame invariant.
LEMMA FrameStep == FrameInv /\ [Next]_vars => FrameInv'
<1> SUFFICES ASSUME FrameInv, [Next]_vars PROVE FrameInv'
  OBVIOUS
<1>1. ASSUME NEW p \in Peers, NEW d \in Drops, NEW private \in BOOLEAN, create(p, d, private)
      PROVE  FrameInv'
  BY <1>1, CreateKeepsFrames
<1>2. ASSUME NEW p \in Peers, ticket(p) \/ (\E t \in tickets : join(p, t)) \/ Restart(p)
      PROVE  FrameInv'
  BY <1>2, TicketsKeepFrames
<1>3. ASSUME NEW p \in Peers,
             (\E b \in Bodies : publish(p, b) \/ send_extension(p, b)) \/ request(p) \/ SendFuture(p)
      PROVE  FrameInv'
  <2>1. PICK bodies \in Seq(Sent) : broadcast(p, bodies)
    BY <1>3, SendersBroadcast
  <2> QED BY <2>1, BroadcastKeepsFrames
<1>4. ASSUME NEW p \in Receivers, on_extension(p) PROVE FrameInv'
  BY <1>4, OthersKeepFrames DEF on_extension, ticketVars, frameVars
<1>5. ASSUME NEW p \in Receivers, NEW i \in DOMAIN net, Received(p, i) PROVE FrameInv'
  BY <1>5, ReceivedKeepsFrames, WireAssumption
<1>6. ASSUME NEW p \in Receivers, NEW i \in DOMAIN net, SendToSink(p, i) PROVE FrameInv'
  BY <1>6, OthersKeepFrames DEF SendToSink, ticketVars, frameVars
<1>7. CASE SendLegacy
  BY <1>7, LegacyKeepsFrames
<1>8. CASE UNCHANGED vars
  BY <1>8, OthersKeepFrames DEF vars, ticketVars, frameVars
<1> QED BY <1>1, <1>2, <1>3, <1>4, <1>5, <1>6, <1>7, <1>8, Zenon DEF Next

\* The frame invariant holds throughout.
LEMMA FramesStayGenuine == Spec => []FrameInv
BY InitFrames, FrameStep, PTL DEF Spec

---------------------------------------------------------------------------
\* A ticket's key is the drop's or none, and these differ.
LEMMA KeysDiffer == \A d : KeyOf(d) # NoKey
BY DEF KeyOf, NoKey

\* What a running session does with a frame: one of three decoders.
LEMMA DecodersOfSession ==
  ASSUME FrameInv, NEW p \in Peers, Up(p), NEW f
  PROVE  \/ /\ session[p].mode = "public" /\ ~Blind(p)
            /\ decode_for_session(p, f) = decode(f, session[p].topic)
         \/ /\ session[p].mode = "sealed" /\ Blind(p)
            /\ decode_for_session(p, f) = verify_sealed_outer(f, session[p].topic)
         \/ /\ session[p].mode = "sealed" /\ ~Blind(p) /\ session[p].key = KeyOf(session[p].topic)
            /\ decode_for_session(p, f) = decode_sealed(f, session[p].key, session[p].topic)
<1>1. GoodTicket(session[p])
  BY SessionGood
<1>2. CASE session[p].mode = "public"
  BY <1>2 DEF decode_for_session, Blind
<1>3. CASE session[p].mode = "sealed" /\ session[p].key = NoKey
  BY <1>3 DEF decode_for_session, Blind
<1>4. CASE session[p].mode = "sealed" /\ session[p].key # NoKey
  BY <1>1, <1>4 DEF decode_for_session, Blind, GoodTicket
<1> QED BY <1>1, <1>2, <1>3, <1>4 DEF GoodTicket

\* What Opened answers.
LEMMA OpenedAnswers ==
  ASSUME NEW n, NEW b
  PROVE  /\ Opened(n, b).ok \in BOOLEAN
         /\ Opened(n, b).ok => /\ Known(b) => Opened(n, b) = Accepted(b)
                               /\ ~Known(b) => Opened(n, b) = Accepted(None)
BY DEF Opened, Accepted, Refused

\* The frame invariant keeps families and drops apart.
LEMMA FramesApart == FrameInv => NoCrossTalk
<1> SUFFICES ASSUME FrameInv, NEW p \in Peers, NEW i \in DOMAIN net, Up(p), NEW f, f = net[i],
                    NEW res, res = decode_for_session(p, f),
                    NEW family, family = IF session[p].mode = "sealed" THEN "v4" ELSE "v3"
             PROVE  /\ res.ok => f.topic = session[p].topic /\ f.domain = family
                    /\ Kind(res) # "none" /\ family = "v4" => session[p].key = KeyOf(f.topic)
                    /\ f.domain # family /\ f.topic \in {None, session[p].topic} /\ ~Blind(p)
                         => res = Refused("UnsupportedVersion")
  BY DEF NoCrossTalk
<1>1. f \in Frame /\ Genuine(f) /\ GoodTicket(session[p])
  BY SessionGood DEF FrameInv
<1>2. /\ f.domain \in {"v2", "v3", "v4"} /\ (f.domain # "v2" => f.topic \in Drops)
      /\ ~(f.size > MAX_MESSAGE_SIZE) /\ session[p].topic \in Drops
  <2>1. f.size \in Nat
    BY <1>1 DEF Frame
  <2> QED BY <1>1, <2>1, FramesAssumption DEF Genuine, GoodTicket
<1>3. \A w : Refused(w).ok = FALSE /\ Kind(Refused(w)) = "none"
  BY DEF Refused, Kind
<1>4. CASE session[p].mode = "public" /\ res = decode(f, session[p].topic)
  <2>1. family = "v3"
    BY <1>4
  <2>2. ~verify_outer(f, "v3", session[p].topic)
          => res = diagnose_other_family(f, {"v2", "v4"}, session[p].topic)
    BY <1>2, <1>4 DEF decode
  <2>3. \E w : diagnose_other_family(f, {"v2", "v4"}, session[p].topic) = Refused(w)
    BY DEF diagnose_other_family
  <2>4. res.ok => verify_outer(f, "v3", session[p].topic)
    BY <1>3, <2>2, <2>3
  <2>5. ASSUME f.domain # "v3", f.topic \in {None, session[p].topic}
        PROVE  res = Refused("UnsupportedVersion")
    <3>1. ~verify_outer(f, "v3", session[p].topic)
      BY <2>5 DEF verify_outer
    <3>2. CASE f.domain = "v2"
      BY <2>2, <3>1, <3>2 DEF diagnose_other_family, verify_legacy
    <3>3. CASE f.domain = "v4"
      <4>1. verify_outer(f, "v4", session[p].topic)
        BY <1>2, <2>5, <3>3, WireAssumption DEF verify_outer
      <4> QED BY <2>2, <3>1, <4>1 DEF diagnose_other_family
    <3> QED BY <1>2, <2>5, <3>2, <3>3
  <2> QED BY <2>1, <2>4, <2>5 DEF verify_outer
<1>5. CASE session[p].mode = "sealed" /\ Blind(p) /\ res = verify_sealed_outer(f, session[p].topic)
  <2>1. family = "v4"
    BY <1>5
  <2>2. ~verify_outer(f, "v4", session[p].topic) => res = Refused("InvalidSignature")
    BY <1>2, <1>5 DEF verify_sealed_outer
  <2>3. (\E w : res = Refused(w)) \/ res = Accepted(None)
    BY <1>5 DEF verify_sealed_outer
  <2>4. Kind(Accepted(None)) = "none"
    BY DEF Kind, Accepted
  <2> QED BY <1>3, <1>5, <2>1, <2>2, <2>3, <2>4 DEF verify_outer
<1>6. CASE /\ session[p].mode = "sealed" /\ session[p].key = KeyOf(session[p].topic)
           /\ res = decode_sealed(f, session[p].key, session[p].topic)
  <2>1. family = "v4"
    BY <1>6
  <2>2. ~verify_outer(f, "v4", session[p].topic)
          => res = diagnose_other_family(f, {"v3", "v2"}, session[p].topic)
    BY <1>2, <1>6 DEF decode_sealed
  <2>3. \E w : diagnose_other_family(f, {"v3", "v2"}, session[p].topic) = Refused(w)
    BY DEF diagnose_other_family
  <2>4. res.ok \/ Kind(res) # "none" => verify_outer(f, "v4", session[p].topic)
    BY <1>3, <2>2, <2>3
  <2>5. ASSUME f.domain # "v4", f.topic \in {None, session[p].topic}
        PROVE  res = Refused("UnsupportedVersion")
    <3>1. ~verify_outer(f, "v4", session[p].topic)
      BY <2>5 DEF verify_outer
    <3>2. CASE f.domain = "v2"
      BY <2>2, <3>1, <3>2 DEF diagnose_other_family, verify_legacy
    <3>3. CASE f.domain = "v3"
      <4>1. verify_outer(f, "v3", session[p].topic)
        BY <1>2, <2>5, <3>3, WireAssumption DEF verify_outer
      <4> QED BY <2>2, <3>1, <4>1 DEF diagnose_other_family
    <3> QED BY <1>2, <2>5, <3>2, <3>3
  <2> QED BY <1>6, <2>1, <2>4, <2>5 DEF verify_outer
<1> QED BY <1>4, <1>5, <1>6, DecodersOfSession

\* Drops and families stay apart (message.rs:361): a frame is accepted only
\* in the drop and the family it was signed for and read only with the key,
\* and a member reports another family of its drop by its version.
THEOREM DropsDoNotTalk == Spec => []NoCrossTalk
BY FramesStayGenuine, FramesApart, PTL

---------------------------------------------------------------------------
\* The frame invariant makes every session of a drop take its frames.
LEMMA FramesTaken == FrameInv => SentIsTaken
<1> SUFFICES ASSUME FrameInv, NEW p \in Peers, NEW i \in DOMAIN net, Up(p), ~Exempt(p, i),
                    NEW f, f = net[i], f.topic = session[p].topic
             PROVE  decode_for_session(p, f)
                      = Accepted(IF Blind(p) \/ ~Known(f.body) THEN None ELSE f.body)
  BY DEF SentIsTaken
<1>1. f \in Frame /\ Genuine(f) /\ GoodTicket(session[p]) /\ Agrees(session[p])
  BY SessionGood DEF FrameInv
<1>2. /\ validate_body(f.body) /\ ~(PayloadSize(f.body) > MAX_BODY_SIZE)
      /\ Blind(p) => ~(f.payload > MAX_BODY_SIZE)
      /\ session[p].mode = "sealed" => i \notin replies
  BY DEF Exempt
<1>3. f.topic \in Drops /\ f.size \in Nat /\ PayloadSize(f.body) \in Nat
  BY <1>1, SizesAreNaturals DEF Frame, GoodTicket
<1>4. ~(f.size > MAX_MESSAGE_SIZE)
  BY <1>1, <1>3, FramesAssumption DEF Genuine
<1>5. f.domain = Family(session[p].mode)
  BY <1>1, <1>2 DEF Agrees, Family, GoodTicket
<1>6. Opened(PayloadSize(f.body), f.body) = Accepted(IF ~Known(f.body) THEN None ELSE f.body)
  BY <1>2 DEF Opened
<1>7. CASE /\ session[p].mode = "public" /\ ~Blind(p)
           /\ decode_for_session(p, f) = decode(f, session[p].topic)
  <2>1. f.domain = "v3" /\ f.version = WIRE_VERSION /\ f.payload = PayloadSize(f.body)
    BY <1>1, <1>5, <1>7 DEF Genuine, Family
  <2>2. verify_outer(f, "v3", session[p].topic)
    BY <2>1 DEF verify_outer
  <2>3. decode(f, session[p].topic) = Opened(f.payload, f.body)
    BY <1>4, <2>1, <2>2 DEF decode
  <2> QED BY <1>6, <1>7, <2>1, <2>3
<1>8. f.domain = "v4" => /\ verify_outer(f, "v4", session[p].topic)
                         /\ f.version = SEALED_WIRE_VERSION
  BY <1>1 DEF Genuine, verify_outer
<1>9. CASE /\ session[p].mode = "sealed" /\ Blind(p)
           /\ decode_for_session(p, f) = verify_sealed_outer(f, session[p].topic)
  <2>1. f.domain = "v4"
    BY <1>5, <1>9 DEF Family
  <2> QED BY <1>2, <1>4, <1>8, <1>9, <2>1 DEF verify_sealed_outer
<1>10. CASE /\ session[p].mode = "sealed" /\ ~Blind(p) /\ session[p].key = KeyOf(session[p].topic)
            /\ decode_for_session(p, f) = decode_sealed(f, session[p].key, session[p].topic)
  <2>1. f.domain = "v4"
    BY <1>5, <1>10 DEF Family
  <2>2. /\ f.key = session[p].key /\ f.payload = SealedSize(EnvelopeSize(PayloadSize(f.body)))
        /\ EnvelopeSize(PayloadSize(f.body)) <= MAX_BODY_SIZE
    BY <1>1, <1>10, <2>1 DEF Genuine
  <2>3. EnvelopeSize(PayloadSize(f.body)) \in Nat
    BY <1>3, SignedSizeNatural
  <2>4. f.payload - SealedSize(0) = EnvelopeSize(PayloadSize(f.body))
    BY <2>2, <2>3 DEF SealedSize
  <2>5. ~(f.payload - SealedSize(0) > MAX_BODY_SIZE)
    BY <2>2, <2>3, <2>4, FramesAssumption DEF MAX_BODY_SIZE
  <2>6. decode_sealed(f, session[p].key, session[p].topic) = Opened(PayloadSize(f.body), f.body)
    BY <1>4, <1>8, <2>1, <2>2, <2>5 DEF decode_sealed
  <2> QED BY <1>6, <1>10, <2>6
<1> QED BY <1>7, <1>9, <1>10, DecodersOfSession

\* What a session lets its application send, everyone in the drop takes, but
\* for the frames Exempt lists: the encoders' size checks and the choice of
\* family match what decode_for_session asks, whatever tickets travelled.
THEOREM WhatIsSentIsTaken == Spec => []SentIsTaken
BY FramesStayGenuine, FramesTaken, PTL

---------------------------------------------------------------------------
\* An accepted extension frame is told by its kind, unless the body is closed.
LEMMA AcceptedExtension ==
  ASSUME FrameInv, NEW p \in Peers, Up(p), ~Blind(p), NEW f \in Frame,
         decode_for_session(p, f).ok, f.body.k = "ext"
  PROVE  Kind(decode_for_session(p, f)) = "ext"
<1>1. f.body \in Sent
  BY DEF Frame
<1>2. f.body # None /\ Known(f.body)
  BY <1>1, WireAssumption DEF Sent, Provider, Request, Future, Known
<1>3. \A w : Refused(w).ok = FALSE
  BY DEF Refused
<1>4. \A w : w # None => Kind(Accepted(w)) = w.k
  BY DEF Accepted, Kind
<1>5. \E w : diagnose_other_family(f, {"v2", "v4"}, session[p].topic) = Refused(w)
  BY DEF diagnose_other_family
<1>6. \E w : diagnose_other_family(f, {"v3", "v2"}, session[p].topic) = Refused(w)
  BY DEF diagnose_other_family
<1>7. \E n : decode_for_session(p, f) = Opened(n, f.body)
  <2>1. CASE decode_for_session(p, f) = decode(f, session[p].topic)
    BY <1>3, <1>5, <2>1 DEF decode
  <2>2. CASE decode_for_session(p, f) = decode_sealed(f, session[p].key, session[p].topic)
    BY <1>3, <1>6, <2>2 DEF decode_sealed
  <2> QED BY <2>1, <2>2, DecodersOfSession
<1>8. decode_for_session(p, f) = Accepted(f.body)
  BY <1>2, <1>7, OpenedAnswers
<1> QED BY <1>2, <1>4, <1>8

\* A session that keeps its drop, mode and key judges frames as before.
LEMMA SameJudgement ==
  ASSUME NEW p, session'[p].topic = session[p].topic, session'[p].mode = session[p].mode,
         session'[p].key = session[p].key
  PROVE  /\ Blind(p)' <=> Blind(p)
         /\ \A i : net'[i] = net[i] =>
              decode_for_session(p, net[i])' = decode_for_session(p, net[i])
<1>1. Blind(p)' <=> Blind(p)
  BY DEF Blind
<1>2. ASSUME NEW i, net'[i] = net[i]
      PROVE  decode_for_session(p, net[i])' = decode_for_session(p, net[i])
  BY <1>2 DEF decode_for_session
<1> QED BY <1>1, <1>2

\* A peer that does nothing while frames are added.
LEMMA BystanderHears ==
  ASSUME NEW p, HeardOK(p), session'[p] = session[p], seen'[p] = seen[p], due'[p] = due[p],
         sub'[p] = sub[p], heard'[p] = heard[p],
         \A i \in DOMAIN net : i \in DOMAIN net' /\ net'[i] = net[i]
  PROVE  HeardOK(p)'
<1>1. Blind(p)' <=> Blind(p)
  BY SameJudgement
<1>2. \A i : net'[i] = net[i] =>
        decode_for_session(p, net[i])' = decode_for_session(p, net[i])
  BY SameJudgement
<1>3. Up(p)' <=> Up(p)
  BY DEF Up
<1>4. \A i \in seen[p] : i \in DOMAIN net' /\ net'[i] = net[i]
  BY DEF HeardOK
<1>5. \A i \in seen'[p] : net'[i].author # p => decode_for_session(p, net[i])'.ok
  BY <1>2, <1>4 DEF HeardOK
<1> QED BY <1>1, <1>3, <1>4, <1>5 DEF HeardOK

\* No peer has seen anything at first.
LEMMA InitHeard == Init => HeardInv
<1> SUFFICES ASSUME Init PROVE HeardInv
  OBVIOUS
<1>1. /\ DOMAIN seen = Peers /\ DOMAIN due = Peers /\ DOMAIN sub = Peers /\ DOMAIN heard = Peers
      /\ \A p \in Peers : seen[p] = {} /\ due[p] = {} /\ sub[p] = "no"
  BY DEF Init, Nothing
<1> QED BY <1>1 DEF HeardInv, HeardOK

\* A step of one peer p: it is enough to look at p.
LEMMA OnePeerHears ==
  ASSUME HeardInv, DOMAIN session = Peers, NEW p \in Peers,
         \A q \in Peers : q # p => session'[q] = session[q],
         seen' = seen \/ \E S : seen' = [seen EXCEPT ![p] = S],
         due' = due \/ \E S : due' = [due EXCEPT ![p] = S],
         sub' = sub \/ \E S : sub' = [sub EXCEPT ![p] = S],
         heard' = heard \/ \E S : heard' = [heard EXCEPT ![p] = S],
         \A i \in DOMAIN net : i \in DOMAIN net' /\ net'[i] = net[i], HeardOK(p)'
  PROVE  HeardInv'
<1>1. /\ DOMAIN seen = Peers /\ DOMAIN due = Peers /\ DOMAIN sub = Peers /\ DOMAIN heard = Peers
      /\ \A q \in Peers : HeardOK(q)
  BY DEF HeardInv
<1>2. DOMAIN seen' = Peers /\ \A q \in Peers : q # p => seen'[q] = seen[q]
  BY <1>1
<1>3. DOMAIN due' = Peers /\ \A q \in Peers : q # p => due'[q] = due[q]
  BY <1>1
<1>4. DOMAIN sub' = Peers /\ \A q \in Peers : q # p => sub'[q] = sub[q]
  BY <1>1
<1>5. DOMAIN heard' = Peers /\ \A q \in Peers : q # p => heard'[q] = heard[q]
  BY <1>1
<1>6. /\ DOMAIN seen' = Peers /\ DOMAIN due' = Peers /\ DOMAIN sub' = Peers /\ DOMAIN heard' = Peers
      /\ \A q \in Peers : q # p => /\ seen'[q] = seen[q] /\ due'[q] = due[q]
                                   /\ sub'[q] = sub[q] /\ heard'[q] = heard[q]
  BY <1>1, <1>2, <1>3, <1>4, <1>5
<1>7. ASSUME NEW q \in Peers, q # p PROVE HeardOK(q)'
  BY <1>1, <1>6, <1>7, BystanderHears
<1> QED BY <1>6, <1>7 DEF HeardInv

\* create and join: the session is new and has seen nothing.
LEMMA NewSessionHears ==
  ASSUME FrameInv, HeardInv, NEW p \in Peers, ~Up(p), NEW t, session' = [session EXCEPT ![p] = t],
         UNCHANGED <<net, seen, due, sub, heard>>
  PROVE  HeardInv'
<1>1. DOMAIN session = Peers /\ \A q \in Peers : q # p => session'[q] = session[q]
  BY DEF FrameInv
<1>2. seen'[p] = {} /\ due'[p] = {} /\ sub'[p] = "no"
  BY DEF HeardInv, HeardOK
<1>3. HeardOK(p)'
  BY <1>2 DEF HeardOK
<1> QED BY <1>1, <1>3, OnePeerHears

\* restart: the drop, its mode and its key are those of the saved ticket.
LEMMA RestartHears ==
  ASSUME FrameInv, HeardInv, NEW p \in Peers, Restart(p)
  PROVE  HeardInv'
<1>1. PICK peers : session' = [session EXCEPT ![p] =
                     IF from_string_prefixed(Fresh(p, peers)) THEN Fresh(p, peers) ELSE None]
  BY DEF Restart
<1>2. /\ Up(p) /\ UNCHANGED net
      /\ due' = [due EXCEPT ![p] = {}] /\ sub' = [sub EXCEPT ![p] = "no"]
      /\ heard' = [heard EXCEPT ![p] = {}]
      /\ \/ seen' = [seen EXCEPT ![p] = IF session'[p] = None THEN {} ELSE @ \cap Kept(p)]
         \/ seen' = [seen EXCEPT ![p] = {}]
  BY DEF Restart
<1>3. /\ DOMAIN session = Peers /\ DOMAIN seen = Peers /\ DOMAIN due = Peers /\ DOMAIN sub = Peers
      /\ HeardOK(p)
  BY DEF FrameInv, HeardInv
<1>4. /\ Fresh(p, peers).topic = session[p].topic /\ Fresh(p, peers).mode = session[p].mode
      /\ Fresh(p, peers).key = session[p].key
  BY <1>2, SessionGood, FormsAreGood DEF Fresh
<1>5. due'[p] = {} /\ sub'[p] = "no" /\ seen'[p] \subseteq seen[p]
  BY <1>2, <1>3
<1>6. session'[p] = None => seen'[p] = {}
  BY <1>2, <1>3
<1>7. session'[p] # None => session'[p] = Fresh(p, peers)
  BY <1>1, <1>3
<1>8. session'[p] # None =>
        \A i : decode_for_session(p, net[i])' = decode_for_session(p, net[i])
  BY <1>2, <1>4, <1>7, SameJudgement
<1>9. ASSUME NEW i \in seen'[p], net'[i].author # p PROVE decode_for_session(p, net[i])'.ok
  BY <1>2, <1>3, <1>5, <1>6, <1>8, <1>9 DEF HeardOK
<1>10. HeardOK(p)'
  BY <1>2, <1>3, <1>5, <1>6, <1>9 DEF HeardOK, Up
<1>11. \A q \in Peers : q # p => session'[q] = session[q]
  BY <1>1, <1>3
<1>12. \E S : seen' = [seen EXCEPT ![p] = S]
  BY <1>2
<1> QED BY <1>2, <1>3, <1>10, <1>11, <1>12, OnePeerHears

\* broadcast: what is new in seen is the peer's own.
LEMMA BroadcastHears ==
  ASSUME FrameInv, HeardInv, NEW p \in Peers, NEW bodies \in Seq(Sent), broadcast(p, bodies)
  PROVE  HeardInv'
<1> DEFINE ids == (Len(net) + 1)..(Len(net) + Len(bodies))
<1>1. /\ UNCHANGED session /\ seen' = [seen EXCEPT ![p] = @ \cup ids]
      /\ \A i \in DOMAIN net : i \in DOMAIN net' /\ net'[i] = net[i]
      /\ \A i \in DOMAIN net' : i \notin DOMAIN net => net'[i].author = p
      /\ DOMAIN net' = 1..(Len(net) + Len(bodies))
  BY BroadcastKeepsFrames
<1>2. Up(p) /\ UNCHANGED <<due, sub, heard>>
  BY DEF broadcast, extVars
<1>3. /\ DOMAIN session = Peers /\ DOMAIN seen = Peers /\ HeardOK(p)
      /\ Len(net) \in Nat /\ DOMAIN net = 1..Len(net)
  BY DEF FrameInv, HeardInv
<1>4. \A i \in ids : i \in DOMAIN net' /\ i \notin DOMAIN net /\ net'[i].author = p
  BY <1>1, <1>3
<1> HIDE DEF ids
<1>5. seen'[p] = seen[p] \cup ids
  BY <1>1, <1>3
<1>6. Up(p)' /\ (Blind(p)' <=> Blind(p))
  BY <1>1, <1>2, SameJudgement DEF Up
<1>7. \A i : net'[i] = net[i] => decode_for_session(p, net[i])' = decode_for_session(p, net[i])
  BY <1>1, SameJudgement
<1>8. \A i \in seen[p] : i \in DOMAIN net' /\ net'[i] = net[i]
  BY <1>1, <1>3 DEF HeardOK
<1>9. \A i \in seen'[p] : net'[i].author # p => i \in seen[p]
  BY <1>4, <1>5
<1>10. \A i \in seen'[p] : net'[i].author # p => decode_for_session(p, net[i])'.ok
  BY <1>3, <1>7, <1>8, <1>9 DEF HeardOK
<1>11. seen'[p] \subseteq DOMAIN net'
  BY <1>4, <1>5, <1>8
<1>12. sub'[p] = "replayed" =>
         \A i \in seen'[p] \ due'[p] :
           net'[i].body.k = "ext" /\ net'[i].author # p /\ ~Blind(p)' => i \in heard'[p]
  BY <1>2, <1>3, <1>6, <1>8, <1>9 DEF HeardOK
<1>13. HeardOK(p)'
  BY <1>6, <1>10, <1>11, <1>12 DEF HeardOK
<1>14. \E S : seen' = [seen EXCEPT ![p] = S]
  BY <1>1
<1> QED BY <1>1, <1>2, <1>3, <1>13, <1>14, OnePeerHears

\* handle_message: an extension that is accepted is due to the sink.
LEMMA ReceivedHears ==
  ASSUME FrameInv, HeardInv, NEW p \in Peers, NEW i \in DOMAIN net, Received(p, i)
  PROVE  HeardInv'
<1> DEFINE res == decode_for_session(p, net[i])
<1>1. /\ Up(p) /\ res.ok /\ seen' = [seen EXCEPT ![p] = @ \cup {i}]
      /\ due' = [due EXCEPT ![p] = IF Kind(res) = "ext" THEN @ \cup {i} ELSE @]
      /\ UNCHANGED <<session, sub, heard>>
  BY DEF Received, handle_message
<1>2. \A j \in DOMAIN net : j \in DOMAIN net' /\ net'[j] = net[j]
  BY ReceivedKeepsFrames
<1>3. /\ DOMAIN session = Peers /\ DOMAIN seen = Peers /\ DOMAIN due = Peers /\ HeardOK(p)
      /\ net[i] \in Frame
  BY DEF FrameInv, HeardInv
<1>4. seen'[p] = seen[p] \cup {i} /\ due[p] \subseteq due'[p] /\ (Kind(res) = "ext" => i \in due'[p])
  BY <1>1, <1>3
<1>5. net[i].body.k = "ext" /\ ~Blind(p) => Kind(res) = "ext"
  BY <1>1, <1>3, AcceptedExtension
<1>6. Up(p)' /\ (Blind(p)' <=> Blind(p))
  BY <1>1, SameJudgement DEF Up
<1>7. \A j : net'[j] = net[j] => decode_for_session(p, net[j])' = decode_for_session(p, net[j])
  BY <1>1, SameJudgement
<1>8. \A j \in seen'[p] : j \in DOMAIN net' /\ net'[j] = net[j]
  BY <1>2, <1>3, <1>4 DEF HeardOK
<1>9. \A j \in seen'[p] : net'[j].author # p => decode_for_session(p, net[j])'.ok
  BY <1>1, <1>3, <1>4, <1>7, <1>8 DEF HeardOK
<1> HIDE DEF res
<1>10. ASSUME sub'[p] = "replayed", NEW j \in seen'[p] \ due'[p],
              net'[j].body.k = "ext", net'[j].author # p, ~Blind(p)'
       PROVE  j \in heard'[p]
  <2>1. j # i
    BY <1>4, <1>5, <1>6, <1>8, <1>10
  <2>2. j \in seen[p] \ due[p]
    BY <1>4, <1>10, <2>1
  <2> QED BY <1>1, <1>3, <1>6, <1>8, <1>10, <2>2 DEF HeardOK
<1>11. HeardOK(p)'
  BY <1>6, <1>8, <1>9, <1>10 DEF HeardOK
<1>12. (\E S : seen' = [seen EXCEPT ![p] = S]) /\ (\E S : due' = [due EXCEPT ![p] = S])
  BY <1>1
<1> QED BY <1>1, <1>2, <1>3, <1>11, <1>12, OnePeerHears

\* The sink and on_extension: what is taken off `due`, or replayed, is heard.
LEMMA SubscriberHears ==
  ASSUME FrameInv, HeardInv, NEW p \in Peers, on_extension(p) \/ \E i \in DOMAIN net : SendToSink(p, i)
  PROVE  HeardInv'
<1>1. UNCHANGED <<session, net, seen>>
  BY DEF on_extension, SendToSink, ticketVars, frameVars
<1>2. /\ DOMAIN session = Peers /\ DOMAIN due = Peers /\ DOMAIN sub = Peers /\ DOMAIN heard = Peers
      /\ HeardOK(p) /\ \A i \in DOMAIN net : net[i] \in Frame
  BY DEF FrameInv, HeardInv
<1>3. (Up(p)' <=> Up(p)) /\ (Blind(p)' <=> Blind(p))
  BY <1>1, SameJudgement DEF Up
<1>4. \A i : decode_for_session(p, net[i])' = decode_for_session(p, net[i])
  BY <1>1, SameJudgement
<1>5. CASE on_extension(p)
  <2>1. Up(p) /\ UNCHANGED due
    BY <1>5 DEF on_extension
  <2>2. CASE sub' = [sub EXCEPT ![p] = "subscribed"] /\ UNCHANGED heard
    <3>1. HeardOK(p)'
      BY <1>1, <1>2, <1>3, <1>4, <2>1, <2>2 DEF HeardOK
    <3>2. \E S : sub' = [sub EXCEPT ![p] = S]
      BY <2>2
    <3> QED BY <1>1, <1>2, <2>1, <2>2, <3>1, <3>2, OnePeerHears
  <2> DEFINE R == {i \in Kept(p) : Kind(decode_for_session(p, net[i])) = "ext"}
  <2>3. CASE sub' = [sub EXCEPT ![p] = "replayed"] /\ heard' = [heard EXCEPT ![p] = @ \cup R]
    <3>1. heard'[p] = heard[p] \cup R
      BY <1>2, <2>3
    <3>2. ASSUME NEW i \in seen[p], net[i].body.k = "ext", net[i].author # p, ~Blind(p)
          PROVE  i \in R
      <4>1. i \in Kept(p)
        BY <3>2 DEF Kept
      <4>2. i \in DOMAIN net /\ decode_for_session(p, net[i]).ok
        BY <1>2, <3>2 DEF HeardOK
      <4>3. Kind(decode_for_session(p, net[i])) = "ext"
        BY <1>2, <2>1, <3>2, <4>2, AcceptedExtension
      <4> QED BY <4>1, <4>3
    <3> HIDE DEF R
    <3>3. HeardOK(p)'
      BY <1>1, <1>2, <1>3, <1>4, <2>1, <3>1, <3>2 DEF HeardOK
    <3>4. (\E S : sub' = [sub EXCEPT ![p] = S]) /\ (\E S : heard' = [heard EXCEPT ![p] = S])
      BY <2>3
    <3> QED BY <1>1, <1>2, <2>1, <3>3, <3>4, OnePeerHears
  <2> QED BY <1>5, <2>2, <2>3 DEF on_extension
<1>6. ASSUME NEW i \in DOMAIN net, SendToSink(p, i) PROVE HeardInv'
  <2>1. /\ i \in due[p] /\ due' = [due EXCEPT ![p] = @ \ {i}] /\ UNCHANGED sub
        /\ heard' = [heard EXCEPT ![p] = IF sub[p] = "no" THEN @ ELSE @ \cup {i}]
    BY <1>6 DEF SendToSink
  <2>2. due'[p] = due[p] \ {i} /\ (sub[p] = "replayed" => heard'[p] = heard[p] \cup {i})
    BY <1>2, <2>1
  <2>3. HeardOK(p)'
    BY <1>1, <1>2, <1>3, <1>4, <2>1, <2>2 DEF HeardOK
  <2>4. (\E S : due' = [due EXCEPT ![p] = S]) /\ (\E S : heard' = [heard EXCEPT ![p] = S])
    BY <2>1
  <2> QED BY <1>1, <1>2, <2>1, <2>3, <2>4, OnePeerHears
<1> QED BY <1>5, <1>6

\* Every step keeps what sessions saw and subscribers heard in agreement.
LEMMA HeardStep == FrameInv /\ HeardInv /\ [Next]_vars => HeardInv'
<1> SUFFICES ASSUME FrameInv, HeardInv, [Next]_vars PROVE HeardInv'
  OBVIOUS
<1>0. ASSUME UNCHANGED <<session, seen, due, sub, heard>>,
             \A i \in DOMAIN net : i \in DOMAIN net' /\ net'[i] = net[i]
      PROVE  HeardInv'
  <2>1. ASSUME NEW p \in Peers PROVE HeardOK(p)'
    BY <1>0, BystanderHears DEF HeardInv
  <2> QED BY <1>0, <2>1 DEF HeardInv
<1>1. ASSUME NEW p \in Peers, NEW d \in Drops, NEW private \in BOOLEAN, create(p, d, private)
      PROVE  HeardInv'
  BY <1>1, NewSessionHears DEF create, frameVars, extVars
<1>2. ASSUME NEW p \in Peers, ticket(p) PROVE HeardInv'
  BY <1>0, <1>2 DEF ticket, frameVars, extVars
<1>3. ASSUME NEW p \in Peers, NEW t \in tickets, join(p, t) PROVE HeardInv'
  BY <1>3, NewSessionHears DEF join, frameVars, extVars
<1>4. ASSUME NEW p \in Peers, Restart(p) PROVE HeardInv'
  BY <1>4, RestartHears
<1>5. ASSUME NEW p \in Peers,
             (\E b \in Bodies : publish(p, b) \/ send_extension(p, b)) \/ request(p) \/ SendFuture(p)
      PROVE  HeardInv'
  <2>1. PICK bodies \in Seq(Sent) : broadcast(p, bodies)
    BY <1>5, SendersBroadcast
  <2> QED BY <2>1, BroadcastHears
<1>6. ASSUME NEW p \in Receivers, on_extension(p) \/ \E i \in DOMAIN net : SendToSink(p, i)
      PROVE  HeardInv'
  BY <1>6, SubscriberHears, WireAssumption
<1>7. ASSUME NEW p \in Receivers, NEW i \in DOMAIN net, Received(p, i) PROVE HeardInv'
  BY <1>7, ReceivedHears, WireAssumption
<1>8. CASE SendLegacy
  BY <1>0, <1>8, LegacyKeepsFrames
<1>9. CASE UNCHANGED vars
  BY <1>0, <1>9 DEF vars, frameVars, extVars
<1> QED BY <1>1, <1>2, <1>3, <1>4, <1>5, <1>6, <1>7, <1>8, <1>9, Zenon DEF Next

\* "Subscribe before replaying" (session.rs:1223): on_extension misses no
\* retained extension frame of another, whether it came before, during or
\* after the call, and whatever was received, restarted or sent meanwhile.
THEOREM SubscribersHear == Spec => []ExtensionsHeard
<1>1. HeardInv => ExtensionsHeard
  BY DEF HeardInv, HeardOK, ExtensionsHeard, Kept
<1>2. Init => FrameInv /\ HeardInv
  BY InitFrames, InitHeard
<1>3. FrameInv /\ HeardInv /\ [Next]_vars => (FrameInv /\ HeardInv)'
  BY FrameStep, HeardStep
<1> QED BY <1>1, <1>2, <1>3, PTL DEF Spec

---------------------------------------------------------------------------
(* Tickets: the nodes they name, and their length. *)

\* A set that has 0 and with n also n + 1 has every natural number.
LEMMA Stepwise ==
  ASSUME NEW T, 0 \in T, \A n \in Nat : n \in T => n + 1 \in T
  PROVE  Nat \subseteq T
<1> DEFINE R == OpToRel(<, Nat)
           F == {n \in Nat : n \notin T}
<1> SUFFICES ASSUME F # {} PROVE FALSE
  OBVIOUS
<1>1. PICK x \in F : \A y \in F : ~(<<y, x>> \in R)
  BY WFMin, NatLessThanWellFounded
<1>2. \A y \in F : ~(y < x)
  BY <1>1 DEF OpToRel
<1>3. x \in Nat /\ x # 0
  BY <1>1
<1>4. PICK m \in Nat : x = m + 1 /\ m < x
  <2>1. x - 1 \in Nat /\ x = (x - 1) + 1 /\ x - 1 < x
    BY <1>3
  <2> QED BY <2>1
<1>5. m \in T
  BY <1>2, <1>4
<1> QED BY <1>1, <1>4, <1>5

\* g holds what is kept of the first 0, 1, ... n entries of q.
Filtered(g, q, S, n) ==
  g = [i \in 0..n |-> IF i = 0 THEN <<>>
                      ELSE IF q[i] \in S THEN Append(g[i - 1], q[i]) ELSE g[i - 1]]

\* There is such a g.
LEMMA FilteredExists ==
  ASSUME NEW q, NEW S, NEW N \in Nat
  PROVE  \E g : Filtered(g, q, S, N)
<1> DEFINE T == {n \in Nat : \E g : Filtered(g, q, S, n)}
<1>1. 0 \in T
  <2> DEFINE g == [i \in 0..0 |-> <<>>]
  <2>1. Filtered(g, q, S, 0)
    BY DEF Filtered
  <2> QED BY <2>1
<1>2. ASSUME NEW n \in Nat, n \in T PROVE n + 1 \in T
  <2>1. PICK g : Filtered(g, q, S, n)
    BY <1>2
  <2> DEFINE e == IF q[n + 1] \in S THEN Append(g[n], q[n + 1]) ELSE g[n]
             h == [i \in 0..(n + 1) |-> IF i = n + 1 THEN e ELSE g[i]]
  <2>2. n + 1 # 0 /\ (n + 1) - 1 = n
    OBVIOUS
  <2>3. \A i \in 0..n : g[i] = IF i = 0 THEN <<>>
                               ELSE IF q[i] \in S THEN Append(g[i - 1], q[i]) ELSE g[i - 1]
    BY <2>1 DEF Filtered
  <2>4. /\ h = [i \in 0..(n + 1) |-> h[i]] /\ h[n + 1] = e
        /\ \A i \in 0..n : h[i] = g[i]
    OBVIOUS
  <2> HIDE DEF h
  <2>5. ASSUME NEW i \in 0..(n + 1)
        PROVE  h[i] = IF i = 0 THEN <<>>
                      ELSE IF q[i] \in S THEN Append(h[i - 1], q[i]) ELSE h[i - 1]
    <3>1. CASE i = n + 1
      <4>1. i - 1 = n /\ n \in 0..n /\ i # 0
        BY <3>1
      <4> QED BY <2>2, <2>4, <3>1, <4>1
    <3>2. CASE i # n + 1 /\ i # 0
      <4>1. i \in 0..n /\ i - 1 \in 0..n
        BY <3>2
      <4> QED BY <2>3, <2>4, <3>2, <4>1
    <3>3. CASE i = 0
      <4>1. i \in 0..n
        BY <3>3
      <4> QED BY <2>3, <2>4, <3>3, <4>1
    <3> QED BY <3>1, <3>2, <3>3
  <2>6. Filtered(h, q, S, n + 1)
    BY <2>4, <2>5 DEF Filtered
  <2> QED BY <2>6
<1>3. Nat \subseteq T
  <2> HIDE DEF T
  <2> QED BY <1>1, <1>2, Stepwise
<1> QED BY <1>3

\* Vec::retain keeps entries of the sequence, and only those asked for.
LEMMA RetainEntries ==
  ASSUME NEW U, NEW q \in Seq(U), NEW S
  PROVE  retain(q, S) \in Seq(U \cap S)
<1>0. PICK N \in Nat : N = Len(q)
  OBVIOUS
<1>1. PICK g : Filtered(g, q, S, N) /\ retain(q, S) = g[N]
  <2>1. retain(q, S) = (CHOOSE g : Filtered(g, q, S, Len(q)))[Len(q)]
    BY DEF retain, Filtered
  <2>2. Filtered(CHOOSE g : Filtered(g, q, S, N), q, S, N)
    <3>1. \E g : Filtered(g, q, S, N)
      BY FilteredExists
    <3> QED BY <3>1, Zenon
  <2> QED BY <1>0, <2>1, <2>2
<1>2. \A i \in 0..N : g[i] = IF i = 0 THEN <<>>
                             ELSE IF q[i] \in S THEN Append(g[i - 1], q[i]) ELSE g[i - 1]
  BY <1>1 DEF Filtered
<1> DEFINE T == {n \in Nat : n <= N => g[n] \in Seq(U \cap S)}
<1>3. 0 \in T
  <2>1. 0 \in 0..N
    OBVIOUS
  <2>2. g[0] = <<>>
    BY <1>2, <2>1
  <2>3. g[0] \in Seq(U \cap S)
    BY <2>2, EmptySeq
  <2> QED BY <2>3
<1>4. ASSUME NEW n \in Nat, n \in T PROVE n + 1 \in T
  <2> SUFFICES ASSUME n + 1 <= N PROVE g[n + 1] \in Seq(U \cap S)
    OBVIOUS
  <2>1. n <= N /\ n + 1 \in 0..N /\ n + 1 # 0 /\ (n + 1) - 1 = n /\ n + 1 \in 1..Len(q)
    BY <1>0
  <2>2. g[n + 1] = IF q[n + 1] \in S THEN Append(g[n], q[n + 1]) ELSE g[n]
    BY <1>2, <2>1
  <2>3. g[n] \in Seq(U \cap S) /\ q[n + 1] \in U
    BY <1>4, <2>1
  <2> QED BY <2>2, <2>3
<1>5. Nat \subseteq T
  <2> HIDE DEF T
  <2> QED BY <1>3, <1>4, Stepwise
<1>6. N \in T /\ N <= N
  <2> HIDE DEF T
  <2> QED BY <1>5
<1> QED BY <1>1, <1>6

\* A node of a ticket, and the tickets whose nodes are in order: at least the
\* one who wrote it, no more than fit.
Node == [id : Peers, gen : Nat]
GoodNodes(t) ==
  /\ t.nodes \in Seq(Node) /\ Len(t.nodes) \in 1..MAX_BOOTSTRAP_NODES
  /\ t.name = Name[t.topic]

\* DropSession::ticket names the caller first and nowhere else.
LEMMA RefreshLemma ==
  ASSUME NEW t, IsRecord(t), t.nodes \in Seq(Node), NEW self \in Node, NEW peers \in Seq(Peers)
  PROVE  LET r == refresh(t, self, peers) IN
         /\ r.nodes \in Seq(Node) /\ Len(r.nodes) \in 1..MAX_BOOTSTRAP_NODES
         /\ r.nodes[1] = self /\ \A i \in 2..Len(r.nodes) : r.nodes[i].id # self.id
<1> DEFINE kept  == retain(t.nodes, {n \in ToSet(t.nodes) : n.id # self.id})
           nodes == <<self>> \o kept
           have  == {n.id : n \in ToSet(nodes)}
           fresh == retain(peers, ToSet(peers) \ have)
           named == [i \in DOMAIN fresh |-> [id |-> fresh[i], gen |-> 0]]
           all   == nodes \o named
           m     == IF Len(all) < MAX_BOOTSTRAP_NODES THEN Len(all) ELSE MAX_BOOTSTRAP_NODES
           X     == SubSeq(all, 1, m)
           Other == {n \in Node : n.id # self.id}
<1>1. refresh(t, self, peers).nodes = X
  <2>1. refresh(t, self, peers) = [t EXCEPT !.nodes = X]
    BY Zenon DEF refresh
  <2>2. \A x : [t EXCEPT !.nodes = x].nodes = x
    BY DEF IsRecord
  <2> QED BY <2>1, <2>2
<1>2. kept \in Seq(Other)
  <2>1. kept \in Seq(Node \cap {n \in ToSet(t.nodes) : n.id # self.id})
    BY RetainEntries
  <2>2. Node \cap {n \in ToSet(t.nodes) : n.id # self.id} \subseteq Other
    OBVIOUS
  <2> HIDE DEF kept, Other
  <2> QED BY <2>1, <2>2
<1>3. self.id \in have
  <2>1. <<self>>[1] = self /\ Len(<<self>>) = 1 /\ <<self>> \in Seq(Node)
    OBVIOUS
  <2>2. kept \in Seq(Node)
    BY <1>2
  <2> HIDE DEF kept
  <2>3. nodes[1] = self /\ 1 \in DOMAIN nodes
    BY <2>1, <2>2, ConcatProperties
  <2> QED BY <2>3 DEF ToSet
<1>4. fresh \in Seq(Peers \ {self.id})
  <2>1. fresh \in Seq(Peers \cap (ToSet(peers) \ have))
    BY RetainEntries
  <2>2. Peers \cap (ToSet(peers) \ have) \subseteq Peers \ {self.id}
    BY <1>3
  <2> HIDE DEF fresh, have
  <2> QED BY <2>1, <2>2
<1> HIDE DEF kept, have, fresh
<1>5. named \in Seq(Other)
  <2>1. DOMAIN fresh = 1..Len(fresh) /\ Len(fresh) \in Nat
    BY <1>4
  <2>2. \A i \in 1..Len(fresh) : fresh[i] \in Peers /\ fresh[i] # self.id
    BY <1>4
  <2>3. \A i \in 1..Len(fresh) : [id |-> fresh[i], gen |-> 0] \in Other
    BY <2>2 DEF Node
  <2>4. named = [i \in 1..Len(fresh) |-> [id |-> fresh[i], gen |-> 0]]
    BY <2>1
  <2> HIDE DEF Other
  <2> QED BY <2>1, <2>3, <2>4, IsASeq
<1> HIDE DEF named
<1>6. /\ all \in Seq(Node) /\ Len(all) \in Nat \ {0} /\ all[1] = self
      /\ \A i \in 2..Len(all) : all[i] \in Other
  <2> DEFINE rest == kept \o named
  <2>1. rest \in Seq(Other)
    <3> HIDE DEF Other
    <3> QED BY <1>2, <1>5
  <2>2. all = <<self>> \o rest
    <3>1. <<self>> \in Seq(Node) /\ kept \in Seq(Node) /\ named \in Seq(Node)
      BY <1>2, <1>5
    <3> QED BY <3>1, ConcatAssociative
  <2> HIDE DEF rest, all
  <2>3. rest \in Seq(Node) /\ Len(rest) \in Nat
    BY <2>1
  <2>4. /\ <<self>> \in Seq(Node) /\ Len(<<self>>) = 1 /\ <<self>>[1] = self
    OBVIOUS
  <2>5. /\ all \in Seq(Node) /\ Len(all) = 1 + Len(rest)
        /\ \A i \in 1..(1 + Len(rest)) : all[i] = IF i <= 1 THEN <<self>>[i] ELSE rest[i - 1]
    BY <2>2, <2>3, <2>4, ConcatProperties
  <2>6. ASSUME NEW i \in 2..Len(all) PROVE all[i] \in Other
    <3>1. all[i] = rest[i - 1] /\ i - 1 \in 1..Len(rest)
      BY <2>3, <2>5
    <3> QED BY <2>1, <3>1
  <2>7. 1 \in 1..(1 + Len(rest))
    BY <2>3
  <2> QED BY <2>3, <2>4, <2>5, <2>6, <2>7
<1> HIDE DEF all
<1>7. m \in 1..MAX_BOOTSTRAP_NODES /\ m \in 1..Len(all)
  BY <1>6, TicketsAssumption
<1> HIDE DEF m
<1>8. /\ X \in Seq(Node) /\ Len(X) = m /\ \A i \in 1..m : X[i] = all[i]
  BY <1>6, <1>7
<1> HIDE DEF X
<1>9. ASSUME NEW i \in 2..Len(X) PROVE X[i].id # self.id
  <2>1. i \in 1..m /\ i \in 2..Len(all)
    BY <1>6, <1>7, <1>8
  <2> QED BY <1>6, <1>8, <2>1
<1>10. X[1] = self
  BY <1>6, <1>7, <1>8
<1> QED BY <1>1, <1>7, <1>8, <1>9, <1>10

\* The peers a session knows, in some order.
LEMMA KnownPeersAreSeqs ==
  ASSUME NEW p \in Peers, NEW peers \in KnownPeers(p)
  PROVE  peers \in Seq(Peers)
<1>1. PICK S \in SUBSET Peers : peers \in SetToSeqs(S)
  BY Zenon DEF KnownPeers
<1>2. Cardinality(S) \in Nat
  <2>1. IsFiniteSet(S)
    BY WireAssumption, FS_Subset
  <2> QED BY <2>1, FS_CardinalityType
<1>3. peers \in [1..Cardinality(S) -> S]
  BY <1>1 DEF SetToSeqs
<1> HIDE DEF SetToSeqs
<1> QED BY <1>2, <1>3

\* Refreshing, shortening and stripping a ticket leave its nodes in order.
LEMMA FormsNodes ==
  ASSUME NEW t, GoodTicket(t), GoodNodes(t), NEW self \in Node, NEW peers \in Seq(Peers)
  PROVE  LET r == refresh(t, self, peers) IN
         /\ GoodNodes(r) /\ \A u \in Forms(r) : GoodNodes(u)
         /\ shorten(r).nodes = [i \in 1..Len(r.nodes) |-> [id |-> r.nodes[i].id, gen |-> 0]]
         /\ without_key(r).nodes = r.nodes
<1>0. IsRecord(t) /\ t.nodes \in Seq(Node) /\ t.name = Name[t.topic]
  BY DEF GoodTicket, GoodNodes
<1>1. PICK r : /\ r = refresh(t, self, peers) /\ IsRecord(r)
               /\ r.topic = t.topic /\ r.name = t.name
  <2>1. \E X : refresh(t, self, peers) = [t EXCEPT !.nodes = X]
    BY Zenon DEF refresh
  <2>2. \A X : LET r == [t EXCEPT !.nodes = X] IN
               IsRecord(r) /\ r.topic = t.topic /\ r.name = t.name
    BY <1>0 DEF IsRecord
  <2> QED BY <2>1, <2>2
<1>2. r.nodes \in Seq(Node) /\ Len(r.nodes) \in 1..MAX_BOOTSTRAP_NODES
  BY <1>0, <1>1, RefreshLemma
<1>3. GoodNodes(r)
  BY <1>0, <1>1, <1>2 DEF GoodNodes
<1> DEFINE X == [i \in 1..Len(r.nodes) |-> [id |-> r.nodes[i].id, gen |-> 0]]
<1>4. X \in Seq(Node) /\ Len(X) = Len(r.nodes)
  <2>0. \A i \in 1..Len(r.nodes) : r.nodes[i] \in Node
    BY <1>2
  <2>1. \A i \in 1..Len(r.nodes) : [id |-> r.nodes[i].id, gen |-> 0] \in Node
    BY <2>0 DEF Node
  <2>2. Len(r.nodes) \in Nat
    BY <1>2
  <2> HIDE DEF Node
  <2> QED BY <2>1, <2>2, IsASeq
<1>5. DOMAIN r.nodes = 1..Len(r.nodes)
  BY <1>2
<1>6. shorten(r) = [r EXCEPT !.nodes = X]
  BY <1>5 DEF shorten
<1> HIDE DEF X
<1>7. /\ shorten(r).nodes = X /\ shorten(r).topic = r.topic /\ shorten(r).name = r.name
  BY <1>1, <1>6 DEF IsRecord
<1>8. GoodNodes(shorten(r))
  BY <1>2, <1>3, <1>4, <1>7 DEF GoodNodes
<1>9. /\ without_key(r).nodes = r.nodes /\ without_key(r).topic = r.topic
      /\ without_key(r).name = r.name
  BY <1>1 DEF without_key, IsRecord
<1>10. GoodNodes(without_key(r))
  BY <1>3, <1>9 DEF GoodNodes
<1>11. \A u \in Forms(r) : GoodNodes(u)
  BY <1>3, <1>8, <1>10 DEF Forms
<1> QED BY <1>1, <1>3, <1>7, <1>9, <1>11 DEF X

\* Every ticket there is has its nodes in order.
NodesInv ==
  /\ life \in [Peers -> Nat \ {0}]
  /\ \A t : Held(t) => GoodNodes(t)

\* What a running session would hand out now.
LEMMA FreshNodes ==
  ASSUME FrameInv, NodesInv, NEW p \in Peers, Up(p), NEW peers \in KnownPeers(p)
  PROVE  LET t == Fresh(p, peers) IN
         /\ GoodTicket(t) /\ GoodNodes(t)
         /\ \A u \in Forms(t) : GoodTicket(u) /\ GoodNodes(u)
         /\ t.nodes[1] = Self(p) /\ \A i \in 2..Len(t.nodes) : t.nodes[i].id # p
         /\ shorten(t).nodes = [i \in 1..Len(t.nodes) |-> [id |-> t.nodes[i].id, gen |-> 0]]
         /\ without_key(t).nodes = t.nodes
<1>1. GoodTicket(session[p]) /\ GoodNodes(session[p])
  BY SessionGood DEF NodesInv
<1>2. Self(p) \in Node /\ Self(p).id = p
  BY DEF Self, Node, NodesInv
<1>3. peers \in Seq(Peers)
  BY KnownPeersAreSeqs
<1>4. IsRecord(session[p]) /\ session[p].nodes \in Seq(Node)
  BY <1>1 DEF GoodTicket, GoodNodes
<1>5. LET t == Fresh(p, peers) IN
      /\ GoodNodes(t) /\ \A u \in Forms(t) : GoodNodes(u)
      /\ shorten(t).nodes = [i \in 1..Len(t.nodes) |-> [id |-> t.nodes[i].id, gen |-> 0]]
      /\ without_key(t).nodes = t.nodes
  BY <1>1, <1>2, <1>3, FormsNodes DEF Fresh
<1>6. LET t == Fresh(p, peers) IN GoodTicket(t) /\ \A u \in Forms(t) : GoodTicket(u)
  BY <1>1, FormsAreGood DEF Fresh
<1>7. LET t == Fresh(p, peers) IN
      t.nodes[1] = Self(p) /\ \A i \in 2..Len(t.nodes) : t.nodes[i].id # p
  BY <1>2, <1>3, <1>4, RefreshLemma DEF Fresh
<1> QED BY <1>5, <1>6, <1>7

\* No step gives anybody a ticket without nodes, or with too many.
LEMMA NodesStep == FrameInv /\ NodesInv /\ [Next]_vars => NodesInv'
<1> SUFFICES ASSUME FrameInv, NodesInv, [Next]_vars PROVE NodesInv'
  OBVIOUS
<1>0. ASSUME UNCHANGED <<life, session, tickets>> PROVE NodesInv'
  BY <1>0 DEF NodesInv, Held, Up
<1>00. DOMAIN session = Peers /\ DOMAIN life = Peers
  BY DEF FrameInv, NodesInv
<1>1. ASSUME NEW p \in Peers, NEW d \in Drops, NEW private \in BOOLEAN, create(p, d, private)
      PROVE  NodesInv'
  <2> DEFINE n == IF private THEN new_private(d, <<Self(p)>>, Name[d])
                  ELSE new(d, <<Self(p)>>, Name[d])
  <2>1. session' = [session EXCEPT ![p] = n] /\ UNCHANGED <<life, tickets>>
    BY <1>1 DEF create, ticketVars
  <2>2. Self(p) \in Node
    BY DEF Self, Node, NodesInv
  <2>3. n.nodes = <<Self(p)>> /\ n.topic = d /\ n.name = Name[d]
    BY DEF new, new_private
  <2>4. <<Self(p)>> \in Seq(Node) /\ Len(<<Self(p)>>) = 1 /\ 1 \in 1..MAX_BOOTSTRAP_NODES
    BY <2>2, TicketsAssumption
  <2>5. GoodNodes(n)
    BY <2>3, <2>4 DEF GoodNodes
  <2> HIDE DEF n
  <2>6. \A t : Held(t)' => Held(t) \/ t = n
    BY <1>00, <2>1 DEF Held, Up
  <2> QED BY <2>1, <2>5, <2>6 DEF NodesInv, GoodNodes
<1>2. ASSUME NEW p \in Peers, ticket(p) PROVE NodesInv'
  <2>1. PICK peers \in KnownPeers(p) : \E t \in Forms(Fresh(p, peers)) : tickets' = tickets \cup {t}
    BY <1>2 DEF ticket
  <2>2. PICK t \in Forms(Fresh(p, peers)) : tickets' = tickets \cup {t}
    BY <2>1
  <2>3. Up(p) /\ UNCHANGED <<life, session>>
    BY <1>2 DEF ticket
  <2>4. GoodNodes(t)
    BY <2>2, <2>3, FreshNodes
  <2>5. \A u : Held(u)' => Held(u) \/ u = t
    BY <2>2, <2>3 DEF Held, Up
  <2> QED BY <2>3, <2>4, <2>5 DEF NodesInv
<1>3. ASSUME NEW p \in Peers, NEW t \in tickets, join(p, t) PROVE NodesInv'
  <2>1. session' = [session EXCEPT ![p] = t] /\ UNCHANGED <<life, tickets>>
    BY <1>3 DEF join, ticketVars
  <2>2. \A u : Held(u)' => Held(u)
    BY <1>00, <2>1 DEF Held, Up
  <2> QED BY <2>1, <2>2 DEF NodesInv
<1>4. ASSUME NEW p \in Peers, Restart(p) PROVE NodesInv'
  <2>1. PICK peers \in KnownPeers(p) : session' = [session EXCEPT ![p] =
                       IF from_string_prefixed(Fresh(p, peers)) THEN Fresh(p, peers) ELSE None]
    BY <1>4 DEF Restart
  <2>2. Up(p) /\ UNCHANGED tickets /\ life' = [life EXCEPT ![p] = @ + 1]
    BY <1>4 DEF Restart
  <2>3. GoodNodes(Fresh(p, peers))
    BY <2>2, FreshNodes
  <2>4. \A u : Held(u)' => Held(u) \/ u = Fresh(p, peers)
    BY <1>00, <2>1, <2>2 DEF Held, Up
  <2>5. life' \in [Peers -> Nat \ {0}]
    BY <2>2 DEF NodesInv
  <2> QED BY <2>3, <2>4, <2>5 DEF NodesInv
<1>5. ASSUME NEW p \in Peers,
             (\E b \in Bodies : publish(p, b) \/ send_extension(p, b)) \/ request(p) \/ SendFuture(p)
      PROVE  NodesInv'
  <2>1. PICK bodies \in Seq(Sent) : broadcast(p, bodies)
    BY <1>5, SendersBroadcast
  <2> QED BY <1>0, <2>1 DEF broadcast, ticketVars
<1>6. ASSUME NEW p \in Receivers, on_extension(p) PROVE NodesInv'
  BY <1>0, <1>6 DEF on_extension, ticketVars
<1>7. ASSUME NEW p \in Receivers, NEW i \in DOMAIN net, Received(p, i) \/ SendToSink(p, i)
      PROVE  NodesInv'
  BY <1>0, <1>7 DEF Received, SendToSink, ticketVars
<1>8. CASE SendLegacy
  BY <1>0, <1>8 DEF SendLegacy, ticketVars
<1>9. CASE UNCHANGED vars
  BY <1>0, <1>9 DEF vars, ticketVars
<1> QED BY <1>1, <1>2, <1>3, <1>4, <1>5, <1>6, <1>7, <1>8, <1>9, Zenon DEF Next

\* There are no tickets at first.
LEMMA InitNodes == Init => NodesInv
<1> SUFFICES ASSUME Init PROVE NodesInv
  OBVIOUS
<1>1. \A t : ~Held(t)
  BY DEF Init, Held, Up
<1>2. life \in [Peers -> Nat \ {0}]
  BY DEF Init
<1> QED BY <1>1, <1>2 DEF NodesInv

\* The restarts so far.
Lives == {x \in Peers \X (1..MaxRestarts) : x[2] < life[x[1]]}

\* Restart counts itself once: the bound on restarts is one.
LEMMA RestartsStep == NodesInv /\ Restarts <= MaxRestarts /\ [Next]_vars => (Restarts <= MaxRestarts)'
<1> SUFFICES ASSUME NodesInv, Restarts <= MaxRestarts, [Next]_vars PROVE (Restarts <= MaxRestarts)'
  OBVIOUS
<1>0. Restarts = Cardinality(Lives) /\ Restarts' = Cardinality(Lives')
  BY DEF Restarts, Lives
<1>1. ASSUME UNCHANGED life PROVE (Restarts <= MaxRestarts)'
  BY <1>1 DEF Restarts
<1>2. ASSUME NEW p \in Peers, Restart(p) PROVE (Restarts <= MaxRestarts)'
  <2>1. Restarts < MaxRestarts /\ life' = [life EXCEPT ![p] = @ + 1]
    BY <1>2 DEF Restart
  <2>2. MaxRestarts \in Nat /\ IsFiniteSet(Peers)
    BY WireAssumption
  <2>3. IsFiniteSet(Peers \X (1..MaxRestarts))
    <3>1. IsFiniteSet(1..MaxRestarts)
      BY <2>2, FS_Interval
    <3> QED BY <2>2, <3>1, FS_Product
  <2>4. IsFiniteSet(Lives)
    BY <2>3, FS_Subset DEF Lives
  <2>5. Lives' \subseteq Lives \cup {<<p, life[p]>>}
    <3>1. \A q \in Peers : life[q] \in Nat /\ life'[q] = IF q = p THEN life[q] + 1 ELSE life[q]
      BY <2>1 DEF NodesInv
    <3>2. ASSUME NEW q \in Peers, NEW n \in 1..MaxRestarts, n < life'[q]
          PROVE  n < life[q] \/ <<q, n>> = <<p, life[p]>>
      <4>1. n \in Nat
        BY <2>2
      <4> QED BY <3>1, <3>2, <4>1
    <3>3. ASSUME NEW x \in Lives' PROVE x \in Lives \cup {<<p, life[p]>>}
      <4>1. PICK q \in Peers, n \in 1..MaxRestarts : x = <<q, n>>
        BY DEF Lives
      <4>2. n < life'[q]
        BY <4>1 DEF Lives
      <4> QED BY <3>2, <4>1, <4>2 DEF Lives
    <3> QED BY <3>3
  <2> HIDE DEF Lives
  <2>6. /\ IsFiniteSet(Lives \cup {<<p, life[p]>>})
        /\ Cardinality(Lives \cup {<<p, life[p]>>}) \in {Cardinality(Lives), Cardinality(Lives) + 1}
    BY <2>4, FS_AddElement
  <2>7. Cardinality(Lives') <= Cardinality(Lives \cup {<<p, life[p]>>}) /\ IsFiniteSet(Lives')
    BY <2>5, <2>6, FS_Subset
  <2>8. Cardinality(Lives) \in Nat /\ Cardinality(Lives') \in Nat
    BY <2>4, <2>7, FS_CardinalityType
  <2> QED BY <1>0, <2>1, <2>2, <2>6, <2>7, <2>8
<1>3. ASSUME NEW p \in Peers, NEW d \in Drops, NEW private \in BOOLEAN, create(p, d, private)
      PROVE  (Restarts <= MaxRestarts)'
  BY <1>1, <1>3 DEF create, ticketVars
<1>4. ASSUME NEW p \in Peers, ticket(p) PROVE (Restarts <= MaxRestarts)'
  BY <1>1, <1>4 DEF ticket
<1>5. ASSUME NEW p \in Peers, NEW t \in tickets, join(p, t) PROVE (Restarts <= MaxRestarts)'
  BY <1>1, <1>5 DEF join, ticketVars
<1>6. ASSUME NEW p \in Peers,
             (\E b \in Bodies : publish(p, b) \/ send_extension(p, b)) \/ request(p) \/ SendFuture(p)
      PROVE  (Restarts <= MaxRestarts)'
  <2>1. PICK bodies \in Seq(Sent) : broadcast(p, bodies)
    BY <1>6, SendersBroadcast
  <2> QED BY <1>1, <2>1 DEF broadcast, ticketVars
<1>7. ASSUME NEW p \in Receivers, on_extension(p) PROVE (Restarts <= MaxRestarts)'
  BY <1>1, <1>7 DEF on_extension, ticketVars
<1>8. ASSUME NEW p \in Receivers, NEW i \in DOMAIN net, Received(p, i) \/ SendToSink(p, i)
      PROVE  (Restarts <= MaxRestarts)'
  BY <1>1, <1>8 DEF Received, SendToSink, ticketVars
<1>9. CASE SendLegacy
  BY <1>1, <1>9 DEF SendLegacy, ticketVars
<1>10. CASE UNCHANGED vars
  BY <1>1, <1>10 DEF vars, ticketVars
<1> QED BY <1>2, <1>3, <1>4, <1>5, <1>6, <1>7, <1>8, <1>9, <1>10, Zenon DEF Next

\* At first nobody has restarted.
LEMMA InitRestarts == Init => Restarts <= MaxRestarts
<1> SUFFICES ASSUME Init PROVE Restarts <= MaxRestarts
  OBVIOUS
<1>1. \A q \in Peers : life[q] = 1
  BY DEF Init
<1>2. ASSUME NEW x \in Lives PROVE FALSE
  <2>1. PICK q \in Peers, n \in 1..MaxRestarts : x = <<q, n>>
    BY DEF Lives
  <2>2. n < life[q]
    BY <2>1 DEF Lives
  <2> QED BY <1>1, <2>2, WireAssumption
<1>3. Cardinality(Lives) = 0
  BY <1>2, FS_EmptySet
<1> QED BY <1>3, WireAssumption DEF Restarts, Lives

---------------------------------------------------------------------------
(* Frames are known by their place in net. *)

InPlace == \A i \in DOMAIN net : net[i].id = i

\* What an encoder builds has the id it was given.
LEMMA EncodersName ==
  ASSUME NEW id, NEW p, NEW d, NEW k, NEW b
  PROVE  /\ encode(id, p, d, b) # None => encode(id, p, d, b).id = id
         /\ encode_sealed(id, p, d, k, b) # None => encode_sealed(id, p, d, k, b).id = id
<1>1. \A e, t, v, c, n : Signed(id, p, e, t, v, b, c, n).id = id
  BY DEF Signed
<1>2. encode(id, p, d, b) # None =>
        encode(id, p, d, b) = Signed(id, p, "v3", d, WIRE_VERSION, b, None, PayloadSize(b))
  BY Zenon DEF encode
<1>3. encode_sealed(id, p, d, k, b) # None =>
        encode_sealed(id, p, d, k, b) =
          Signed(id, p, "v4", d, SEALED_WIRE_VERSION, b, k, SealedSize(EnvelopeSize(PayloadSize(b))))
  BY Zenon DEF encode_sealed
<1> QED BY <1>1, <1>2, <1>3

\* broadcast numbers its frames from the end of net.
LEMMA BroadcastPlaces ==
  ASSUME FrameInv, InPlace, NEW p \in Peers, NEW bodies \in Seq(Sent), broadcast(p, bodies)
  PROVE  InPlace'
<1> DEFINE frames == [i \in DOMAIN bodies |-> Encoded(p, Len(net) + i, bodies[i])]
<1>1. net' = net \o frames /\ \A i \in DOMAIN frames : frames[i] # None
  BY DEF broadcast
<1>2. net \in Seq(Frame) /\ Len(net) \in Nat /\ DOMAIN net = 1..Len(net)
  BY DEF FrameInv
<1>3. DOMAIN bodies = 1..Len(bodies) /\ Len(bodies) \in Nat
  OBVIOUS
<1>4. ASSUME NEW i \in 1..Len(bodies) PROVE frames[i].id = Len(net) + i
  <2>1. frames[i] = Encoded(p, Len(net) + i, bodies[i]) /\ frames[i] # None
    BY <1>1, <1>3
  <2> HIDE DEF frames
  <2> QED BY <2>1, EncodersName DEF Encoded
<1>5. DOMAIN net' = 1..(Len(net) + Len(bodies)) /\ \A i \in DOMAIN net : net'[i] = net[i]
  BY BroadcastKeepsFrames
<1>6. \A i \in 1..Len(bodies) : net'[Len(net) + i] = frames[i]
  <2>1. DOMAIN frames = 1..Len(bodies)
    BY <1>3
  <2>2. frames \in Seq({frames[i] : i \in 1..Len(bodies)}) /\ Len(frames) = Len(bodies)
    <3>1. frames = [i \in 1..Len(bodies) |-> frames[i]]
      BY <1>3
    <3> HIDE DEF frames
    <3> QED BY <1>3, <2>1, <3>1
  <2> HIDE DEF frames
  <2> QED BY <1>1, <1>2, <1>3, <2>1, <2>2
<1> HIDE DEF frames
<1>7. ASSUME NEW i \in DOMAIN net', i \notin DOMAIN net PROVE net'[i].id = i
  <2>1. i - Len(net) \in 1..Len(bodies) /\ i = Len(net) + (i - Len(net))
    BY <1>2, <1>3, <1>5, <1>7
  <2> QED BY <1>4, <1>6, <2>1
<1> QED BY <1>5, <1>7 DEF InPlace

\* So do an older build and a peer that replies.
LEMMA OneMorePlaces ==
  ASSUME FrameInv, InPlace, NEW f, f.id = Len(net) + 1, net' = Append(net, f)
  PROVE  InPlace'
<1>1. net \in Seq(Frame) /\ Len(net) \in Nat /\ DOMAIN net = 1..Len(net)
  BY DEF FrameInv
<1>2. net \in Seq(Frame \cup {f})
  BY <1>1
<1>3. /\ DOMAIN net' = 1..(Len(net) + 1) /\ net'[Len(net) + 1] = f
      /\ \A i \in 1..Len(net) : net'[i] = net[i]
  BY <1>1, <1>2, AppendProperties
<1>4. \A i \in DOMAIN net' : i = Len(net) + 1 \/ i \in 1..Len(net)
  BY <1>1, <1>3
<1> QED BY <1>1, <1>3, <1>4 DEF InPlace

\* Every step leaves each frame at the place it is known by.
LEMMA PlacesStep ==
  FrameInv /\ InPlace /\ [Next]_vars
    => InPlace' /\ \A i \in DOMAIN net : i \in DOMAIN net' /\ net'[i] = net[i]
<1> DEFINE Stay == \A i \in DOMAIN net : i \in DOMAIN net' /\ net'[i] = net[i]
<1> SUFFICES ASSUME FrameInv, InPlace, [Next]_vars PROVE InPlace' /\ Stay
  OBVIOUS
<1>0. ASSUME UNCHANGED net PROVE InPlace' /\ Stay
  BY <1>0 DEF InPlace
<1>1. ASSUME NEW p \in Peers, NEW d \in Drops, NEW private \in BOOLEAN, create(p, d, private)
      PROVE  InPlace' /\ Stay
  BY <1>0, <1>1 DEF create, frameVars
<1>2. ASSUME NEW p \in Peers, ticket(p) PROVE InPlace' /\ Stay
  BY <1>0, <1>2 DEF ticket, frameVars
<1>3. ASSUME NEW p \in Peers, NEW t \in tickets, join(p, t) PROVE InPlace' /\ Stay
  BY <1>0, <1>3 DEF join, frameVars
<1>4. ASSUME NEW p \in Peers, Restart(p) PROVE InPlace' /\ Stay
  BY <1>0, <1>4 DEF Restart
<1>5. ASSUME NEW p \in Peers,
             (\E b \in Bodies : publish(p, b) \/ send_extension(p, b)) \/ request(p) \/ SendFuture(p)
      PROVE  InPlace' /\ Stay
  <2>1. PICK bodies \in Seq(Sent) : broadcast(p, bodies)
    BY <1>5, SendersBroadcast
  <2> QED BY <2>1, BroadcastPlaces, BroadcastKeepsFrames
<1>6. ASSUME NEW p \in Receivers, on_extension(p) PROVE InPlace' /\ Stay
  BY <1>0, <1>6 DEF on_extension, frameVars
<1>7. ASSUME NEW p \in Receivers, NEW i \in DOMAIN net, SendToSink(p, i) PROVE InPlace' /\ Stay
  BY <1>0, <1>7 DEF SendToSink, frameVars
<1>8. ASSUME NEW p \in Receivers, NEW i \in DOMAIN net, Received(p, i) PROVE InPlace' /\ Stay
  <2>1. p \in Peers
    BY WireAssumption
  <2>2. Stay
    BY <1>8, <2>1, ReceivedKeepsFrames
  <2>3. UNCHANGED net \/ net' = Append(net, encode(Len(net) + 1, p, session[p].topic, Provider))
    BY <1>8 DEF Received, handle_message, handle_request
  <2> DEFINE f == encode(Len(net) + 1, p, session[p].topic, Provider)
             g == Signed(Len(net) + 1, p, "v3", session[p].topic, WIRE_VERSION, Provider, None, 40)
  <2>4. f = IF g.size > MAX_MESSAGE_SIZE THEN None ELSE g
    BY SmallFramesFit DEF encode
  <2>5. g.size = SignedSize(40) /\ g.id = Len(net) + 1 /\ SignedSize(40) \in Nat
    BY SignedSizeNatural DEF Signed
  <2>6. f.id = Len(net) + 1
    BY <2>4, <2>5, SmallFramesFit, FramesAssumption
  <2> HIDE DEF f, g
  <2> QED BY <1>0, <2>2, <2>3, <2>6, OneMorePlaces DEF f
<1>9. CASE SendLegacy
  <2> DEFINE f == Signed(Len(net) + 1, None, "v2", None, 1, Request, None, PayloadSize(Request))
  <2>1. net' = Append(net, f)
    BY <1>9 DEF SendLegacy
  <2>2. f.id = Len(net) + 1
    BY DEF Signed
  <2> HIDE DEF f
  <2> QED BY <1>9, <2>1, <2>2, OneMorePlaces, LegacyKeepsFrames
<1>10. CASE UNCHANGED vars
  BY <1>0, <1>10 DEF vars, frameVars
<1> HIDE DEF Stay
<1> QED BY <1>1, <1>2, <1>3, <1>4, <1>5, <1>6, <1>7, <1>8, <1>9, <1>10, Zenon DEF Next

\* What is due to a sink is an extension the session has seen; what was heard
\* was sent.
ExtOK(p) ==
  /\ due[p] \subseteq seen[p] /\ \A i \in due[p] : net[i].body.k = "ext"
  /\ sub[p] \in {"no", "subscribed", "replayed"} /\ heard[p] \subseteq DOMAIN net
ExtInv == \A p \in Peers : ExtOK(p)

\* What a decoder reads is the body that was sent.
LEMMA ReadIsSent ==
  ASSUME FrameInv, NEW p \in Peers, Up(p), NEW f, Kind(decode_for_session(p, f)) = "ext"
  PROVE  f.body.k = "ext"
<1> DEFINE res == decode_for_session(p, f)
<1>1. \A w : Kind(Refused(w)) = "none"
  BY DEF Refused, Kind
<1>2. Kind(Accepted(None)) = "none" /\ \A w : Kind(Accepted(w)) # "none" => Kind(Accepted(w)) = w.k
  BY DEF Accepted, Kind
<1>3. \A D : \E w : diagnose_other_family(f, D, session[p].topic) = Refused(w)
  BY DEF diagnose_other_family
<1>4. \A n : (\E w : Opened(n, f.body) = Refused(w)) \/ Opened(n, f.body) \in {Accepted(None), Accepted(f.body)}
  BY DEF Opened
<1>5. ASSUME res = decode(f, session[p].topic)
      PROVE  (\E w : res = Refused(w)) \/ \E n : res = Opened(n, f.body)
  BY <1>3, <1>5 DEF decode
<1>6. ASSUME res = decode_sealed(f, session[p].key, session[p].topic)
      PROVE  (\E w : res = Refused(w)) \/ \E n : res = Opened(n, f.body)
  BY <1>3, <1>6 DEF decode_sealed
<1>7. ASSUME res = verify_sealed_outer(f, session[p].topic)
      PROVE  (\E w : res = Refused(w)) \/ res = Accepted(None)
  BY <1>7 DEF verify_sealed_outer
<1> HIDE DEF res
<1>8. (\E w : res = Refused(w)) \/ res \in {Accepted(None), Accepted(f.body)}
  BY <1>4, <1>5, <1>6, <1>7, DecodersOfSession DEF res
<1>9. Kind(res) = "ext"
  BY DEF res
<1> QED BY <1>1, <1>2, <1>8, <1>9

\* A peer whose subscription does not move.
LEMMA BystanderExt ==
  ASSUME HeardInv, NEW p \in Peers, ExtOK(p), due'[p] \subseteq due[p], seen[p] \subseteq seen'[p],
         sub'[p] = sub[p], heard'[p] = heard[p],
         \A i \in DOMAIN net : i \in DOMAIN net' /\ net'[i] = net[i]
  PROVE  ExtOK(p)'
<1>1. \A i \in due'[p] : i \in DOMAIN net /\ net'[i] = net[i]
  BY DEF ExtOK, HeardInv, HeardOK
<1> QED BY <1>1 DEF ExtOK

\* Every step keeps that.
LEMMA ExtStep ==
  FrameInv /\ HeardInv /\ InPlace /\ ExtInv /\ [Next]_vars => ExtInv'
<1> SUFFICES ASSUME FrameInv, HeardInv, InPlace, ExtInv, [Next]_vars PROVE ExtInv'
  OBVIOUS
<1>s. \A i \in DOMAIN net : i \in DOMAIN net' /\ net'[i] = net[i]
  BY PlacesStep
<1>d. /\ DOMAIN seen = Peers /\ DOMAIN due = Peers /\ DOMAIN sub = Peers /\ DOMAIN heard = Peers
      /\ \A q \in Peers : ExtOK(q) /\ seen[q] \subseteq DOMAIN net
  BY DEF HeardInv, HeardOK, ExtInv
<1>0. ASSUME UNCHANGED <<due, sub, heard>>, \A q \in Peers : seen[q] \subseteq seen'[q] PROVE ExtInv'
  BY <1>s, <1>d, <1>0, BystanderExt DEF ExtInv
<1>1. ASSUME NEW p \in Peers, NEW d \in Drops, NEW private \in BOOLEAN, create(p, d, private)
      PROVE  ExtInv'
  BY <1>0, <1>1 DEF create, frameVars, extVars
<1>2. ASSUME NEW p \in Peers, ticket(p) PROVE ExtInv'
  BY <1>0, <1>2 DEF ticket, frameVars, extVars
<1>3. ASSUME NEW p \in Peers, NEW t \in tickets, join(p, t) PROVE ExtInv'
  BY <1>0, <1>3 DEF join, frameVars, extVars
<1>4. ASSUME NEW p \in Peers, Restart(p) PROVE ExtInv'
  <2>1. /\ due' = [due EXCEPT ![p] = {}] /\ sub' = [sub EXCEPT ![p] = "no"]
        /\ heard' = [heard EXCEPT ![p] = {}] /\ \E S : seen' = [seen EXCEPT ![p] = S]
    BY <1>4 DEF Restart
  <2>2. ExtOK(p)'
    BY <1>d, <2>1 DEF ExtOK
  <2>3. ASSUME NEW q \in Peers, q # p PROVE ExtOK(q)'
    <3>1. /\ due'[q] = due[q] /\ sub'[q] = sub[q] /\ heard'[q] = heard[q] /\ seen'[q] = seen[q]
      BY <1>d, <2>1, <2>3
    <3> QED BY <1>s, <1>d, <3>1, BystanderExt
  <2> QED BY <2>2, <2>3 DEF ExtInv
<1>5. ASSUME NEW p \in Peers,
             (\E b \in Bodies : publish(p, b) \/ send_extension(p, b)) \/ request(p) \/ SendFuture(p)
      PROVE  ExtInv'
  <2>1. PICK bodies \in Seq(Sent) : broadcast(p, bodies)
    BY <1>5, SendersBroadcast
  <2>2. UNCHANGED <<due, sub, heard>> /\ \E S : seen' = [seen EXCEPT ![p] = @ \cup S]
    BY <2>1 DEF broadcast, extVars
  <2> QED BY <1>0, <1>d, <2>2
<1>6. ASSUME NEW p \in Receivers, on_extension(p) PROVE ExtInv'
  <2>0. p \in Peers
    BY WireAssumption
  <2>1. /\ UNCHANGED <<net, seen, due>>
        /\ \E s \in {"subscribed", "replayed"} : sub' = [sub EXCEPT ![p] = s]
        /\ \/ UNCHANGED heard
           \/ \E S \in SUBSET Kept(p) : heard' = [heard EXCEPT ![p] = @ \cup S]
    BY <1>6 DEF on_extension, frameVars
  <2>2. Kept(p) \subseteq DOMAIN net
    BY <1>d, <2>0 DEF Kept
  <2>3. heard'[p] \subseteq DOMAIN net /\ sub'[p] \in {"subscribed", "replayed"}
    BY <1>d, <2>0, <2>1, <2>2 DEF ExtOK
  <2>4. ExtOK(p)'
    BY <1>d, <2>0, <2>1, <2>3 DEF ExtOK
  <2>5. ASSUME NEW q \in Peers, q # p PROVE ExtOK(q)'
    <3>1. due'[q] = due[q] /\ sub'[q] = sub[q] /\ heard'[q] = heard[q] /\ seen'[q] = seen[q]
      BY <1>d, <2>1, <2>5
    <3> QED BY <1>s, <1>d, <3>1, BystanderExt
  <2> QED BY <2>4, <2>5 DEF ExtInv
<1>7. ASSUME NEW p \in Receivers, NEW i \in DOMAIN net, SendToSink(p, i) PROVE ExtInv'
  <2>0. p \in Peers
    BY WireAssumption
  <2>1. /\ i \in due[p] /\ due' = [due EXCEPT ![p] = @ \ {i}] /\ UNCHANGED <<net, seen, sub>>
        /\ heard' = [heard EXCEPT ![p] = IF sub[p] = "no" THEN @ ELSE @ \cup {i}]
    BY <1>7 DEF SendToSink, frameVars
  <2>2. due'[p] \subseteq due[p] /\ heard'[p] \subseteq heard[p] \cup {i}
    BY <1>d, <2>0, <2>1
  <2>3. ExtOK(p)'
    BY <1>d, <2>0, <2>1, <2>2 DEF ExtOK
  <2>4. ASSUME NEW q \in Peers, q # p PROVE ExtOK(q)'
    <3>1. due'[q] = due[q] /\ sub'[q] = sub[q] /\ heard'[q] = heard[q] /\ seen'[q] = seen[q]
      BY <1>d, <2>1, <2>4
    <3> QED BY <1>s, <1>d, <3>1, BystanderExt
  <2> QED BY <2>3, <2>4 DEF ExtInv
<1>8. ASSUME NEW p \in Receivers, NEW i \in DOMAIN net, Received(p, i) PROVE ExtInv'
  <2> DEFINE res == decode_for_session(p, net[i])
  <2>0. p \in Peers
    BY WireAssumption
  <2>1. /\ Up(p) /\ seen' = [seen EXCEPT ![p] = @ \cup {i}] /\ UNCHANGED <<sub, heard>>
        /\ due' = [due EXCEPT ![p] = IF Kind(res) = "ext" THEN @ \cup {i} ELSE @]
    BY <1>8 DEF Received, handle_message
  <2>2. Kind(res) = "ext" => net[i].body.k = "ext"
    BY <2>0, <2>1, ReadIsSent
  <2> HIDE DEF res
  <2>3. seen'[p] = seen[p] \cup {i} /\ due'[p] = IF Kind(res) = "ext" THEN due[p] \cup {i} ELSE due[p]
    BY <1>d, <2>0, <2>1
  <2>4. ExtOK(p)'
    <3>1. \A j \in seen'[p] : j \in DOMAIN net /\ net'[j] = net[j]
      BY <1>s, <1>d, <2>0, <2>3
    <3>2. due'[p] \subseteq seen'[p] /\ \A j \in due'[p] : net[j].body.k = "ext"
      BY <1>d, <2>0, <2>2, <2>3 DEF ExtOK
    <3>3. heard'[p] \subseteq DOMAIN net'
      BY <1>s, <1>d, <2>0, <2>1 DEF ExtOK
    <3> QED BY <1>d, <2>0, <2>1, <3>1, <3>2, <3>3 DEF ExtOK
  <2>5. ASSUME NEW q \in Peers, q # p PROVE ExtOK(q)'
    <3>1. due'[q] = due[q] /\ sub'[q] = sub[q] /\ heard'[q] = heard[q] /\ seen'[q] = seen[q]
      BY <1>d, <2>1, <2>5
    <3> QED BY <1>s, <1>d, <3>1, BystanderExt
  <2> QED BY <2>4, <2>5 DEF ExtInv
<1>9. CASE SendLegacy
  BY <1>0, <1>9 DEF SendLegacy, extVars
<1>10. CASE UNCHANGED vars
  BY <1>0, <1>10 DEF vars, frameVars, extVars
<1> QED BY <1>1, <1>2, <1>3, <1>4, <1>5, <1>6, <1>7, <1>8, <1>9, <1>10, Zenon DEF Next

\* The inductive invariant of the whole module.
WireInv == FrameInv /\ HeardInv /\ NodesInv /\ Restarts <= MaxRestarts /\ InPlace /\ ExtInv

\* It holds throughout.
LEMMA WireStays == Spec => []WireInv
<1>1. Init => WireInv
  <2>1. Init => InPlace /\ ExtInv
    BY DEF Init, Nothing, InPlace, ExtInv, ExtOK
  <2> QED BY <2>1, InitFrames, InitHeard, InitNodes, InitRestarts DEF WireInv
<1>2. WireInv /\ [Next]_vars => WireInv'
  BY FrameStep, HeardStep, NodesStep, RestartsStep, PlacesStep, ExtStep DEF WireInv
<1> QED BY <1>1, <1>2, PTL DEF Spec

\* Types, and with them: every ticket anybody holds names between one and
\* MAX_BOOTSTRAP_NODES nodes and keeps the name and the mode its creator
\* chose, every frame fits, and what waits for a subscriber is retained.
THEOREM WireTypes == Spec => []TypeOK
<1>1. ASSUME WireInv PROVE TypeOK
  <2>0. FrameInv /\ HeardInv /\ NodesInv /\ Restarts <= MaxRestarts /\ InPlace /\ ExtInv
    BY <1>1 DEF WireInv
  <2>1. \A t : Held(t) => IsTicket(t)
    BY <2>0 DEF FrameInv, NodesInv, GoodTicket, GoodNodes, IsTicket
  <2>2. \A i \in DOMAIN net : net[i].id = i /\ net[i].size <= MAX_MESSAGE_SIZE
    BY <2>0 DEF FrameInv, Genuine, InPlace
  <2>3. ASSUME NEW p \in Peers
        PROVE  /\ session[p] = None \/ IsTicket(session[p])
               /\ seen[p] \subseteq DOMAIN net /\ due[p] \subseteq Kept(p)
               /\ sub[p] \in {"no", "subscribed", "replayed"} /\ heard[p] \subseteq DOMAIN net
    <3>1. session[p] = None \/ IsTicket(session[p])
      BY <2>1 DEF Held, Up
    <3>2. due[p] \subseteq Kept(p)
      BY <2>0 DEF ExtInv, ExtOK, Kept
    <3> QED BY <2>0, <3>1, <3>2 DEF HeardInv, HeardOK, ExtInv, ExtOK
  <2>4. \A t \in tickets : IsTicket(t)
    BY <2>1 DEF Held
  <2> QED BY <2>0, <2>2, <2>3, <2>4 DEF TypeOK, NodesInv, FrameInv
<1> QED BY <1>1, WireStays, PTL

---------------------------------------------------------------------------
(* How long a ticket is. *)

\* g holds the bytes of the first 0, 1, ... n nodes of q.
Summed(g, q, n) == g = [i \in 0..n |-> IF i = 0 THEN 0 ELSE g[i - 1] + NodeBytes(q[i])]

\* There is such a g.
LEMMA SummedExists ==
  ASSUME NEW q, NEW N \in Nat
  PROVE  \E g : Summed(g, q, N)
<1> DEFINE T == {n \in Nat : \E g : Summed(g, q, n)}
<1>1. 0 \in T
  <2> DEFINE g == [i \in 0..0 |-> 0]
  <2>1. Summed(g, q, 0)
    BY DEF Summed
  <2> QED BY <2>1
<1>2. ASSUME NEW n \in Nat, n \in T PROVE n + 1 \in T
  <2>1. PICK g : Summed(g, q, n)
    BY <1>2
  <2> DEFINE e == g[n] + NodeBytes(q[n + 1])
             h == [i \in 0..(n + 1) |-> IF i = n + 1 THEN e ELSE g[i]]
  <2>2. n + 1 # 0 /\ (n + 1) - 1 = n
    OBVIOUS
  <2>3. \A i \in 0..n : g[i] = IF i = 0 THEN 0 ELSE g[i - 1] + NodeBytes(q[i])
    BY <2>1 DEF Summed
  <2>4. /\ h = [i \in 0..(n + 1) |-> h[i]] /\ h[n + 1] = e
        /\ \A i \in 0..n : h[i] = g[i]
    OBVIOUS
  <2> HIDE DEF h
  <2>5. ASSUME NEW i \in 0..(n + 1)
        PROVE  h[i] = IF i = 0 THEN 0 ELSE h[i - 1] + NodeBytes(q[i])
    <3>1. CASE i = n + 1
      <4>1. i - 1 = n /\ n \in 0..n /\ i # 0
        BY <3>1
      <4> QED BY <2>2, <2>4, <3>1, <4>1
    <3>2. CASE i # n + 1 /\ i # 0
      <4>1. i \in 0..n /\ i - 1 \in 0..n
        BY <3>2
      <4> QED BY <2>3, <2>4, <3>2, <4>1
    <3>3. CASE i = 0
      <4>1. i \in 0..n
        BY <3>3
      <4> QED BY <2>3, <2>4, <3>3, <4>1
    <3> QED BY <3>1, <3>2, <3>3
  <2>6. Summed(h, q, n + 1)
    BY <2>4, <2>5 DEF Summed
  <2> QED BY <2>6
<1>3. Nat \subseteq T
  <2> HIDE DEF T
  <2> QED BY <1>1, <1>2, Stepwise
<1> QED BY <1>3

\* If as many nodes as a ticket may name, all like any one of q, take at most
\* K bytes, so do the nodes of q.
LEMMA NodesFit ==
  ASSUME NEW q, NEW N \in Nat, NEW M \in Nat \ {0}, N <= M, NEW K \in Nat, NEW g, Summed(g, q, N),
         \A i \in 1..N : NodeBytes(q[i]) \in Nat /\ M * NodeBytes(q[i]) <= K
  PROVE  g[N] \in Nat /\ g[N] <= K
<1>1. \A i \in 0..N : g[i] = IF i = 0 THEN 0 ELSE g[i - 1] + NodeBytes(q[i])
  BY DEF Summed
<1> DEFINE T == {n \in Nat : n <= N => g[n] \in Nat /\ M * g[n] <= n * K}
<1>2. 0 \in T
  <2>1. 0 \in 0..N /\ M * 0 = 0 /\ 0 * K = 0
    OBVIOUS
  <2>2. g[0] = 0
    BY <1>1, <2>1
  <2> QED BY <2>1, <2>2
<1>3. ASSUME NEW n \in Nat, n \in T PROVE n + 1 \in T
  <2> SUFFICES ASSUME n + 1 <= N PROVE g[n + 1] \in Nat /\ M * g[n + 1] <= (n + 1) * K
    OBVIOUS
  <2>1. n <= N /\ n + 1 \in 0..N /\ n + 1 \in 1..N /\ n + 1 # 0 /\ (n + 1) - 1 = n
    OBVIOUS
  <2>2. g[n + 1] = g[n] + NodeBytes(q[n + 1])
    BY <1>1, <2>1
  <2>3. g[n] \in Nat /\ M * g[n] <= n * K
    BY <1>3, <2>1
  <2>4. PICK b \in Nat : b = NodeBytes(q[n + 1]) /\ M * b <= K
    BY <2>1
  <2>5. PICK a \in Nat : a = g[n]
    BY <2>3
  <2>6. M * (a + b) = M * a + M * b /\ (n + 1) * K = n * K + K
    OBVIOUS
  <2>7. M * a \in Nat /\ M * b \in Nat /\ n * K \in Nat
    OBVIOUS
  <2> QED BY <2>2, <2>3, <2>4, <2>5, <2>6, <2>7
<1>4. Nat \subseteq T
  <2> HIDE DEF T
  <2> QED BY <1>2, <1>3, Stepwise
<1>5. g[N] \in Nat /\ M * g[N] <= N * K
  BY <1>4
<1>6. PICK a \in Nat : a = g[N]
  BY <1>5
<1>7. N * K <= M * K
  OBVIOUS
<1>8. M * a <= M * K
  BY <1>5, <1>6, <1>7
<1>9. a <= K
  BY <1>8
<1> QED BY <1>6, <1>9

\* A peer's addresses take no less than its id alone.
LEMMA NodeSizes ==
  ASSUME NEW p \in Peers, NEW n \in Node, n.id = p
  PROVE  /\ NodeBytes([id |-> p, gen |-> 1]) \in Nat /\ NodeBytes(n) \in Nat
         /\ NodeBytes(n) <= NodeBytes([id |-> p, gen |-> 1])
<1> DEFINE a == Addr[p]
           B == 32 + 1 + (IF a.url > 0 THEN Str(a.url) ELSE 0) + 1 + 7 * a.v4 + 1 + 19 * a.v6
<1>1. a.url \in Nat /\ a.v4 \in Nat /\ a.v6 \in Nat
  BY WireAssumption
<1>2. NodeBytes([id |-> p, gen |-> 1]) = B
  BY DEF NodeBytes
<1>3. NodeBytes(n) = IF n.gen = 0 THEN 35 ELSE B
  BY DEF NodeBytes
<1> HIDE DEF a
<1>4. B \in Nat /\ 35 <= B
  BY <1>1 DEF Str
<1> QED BY <1>2, <1>3, <1>4

\* A ticket of addresses that fit parses, if its name is not too long.
LEMMA TicketsFit ==
  ASSUME AddressesFit, NEW t, GoodTicket(t), GoodNodes(t), t.name <= MAX_DISPLAY_NAME_LEN
  PROVE  from_string_prefixed(t)
<1>1. PICK N \in Nat, M \in Nat \ {0}, L \in Nat, D \in Nat :
        N = Len(t.nodes) /\ M = MAX_BOOTSTRAP_NODES /\ L = MAX_TICKET_LEN /\ D = MAX_DISPLAY_NAME_LEN
  <2>1. Len(t.nodes) \in Nat
    BY DEF GoodNodes
  <2>2. MAX_BOOTSTRAP_NODES \in Nat \ {0} /\ MAX_TICKET_LEN \in Nat /\ MAX_DISPLAY_NAME_LEN \in Nat
    BY TicketsAssumption
  <2> QED BY <2>1, <2>2
<1>2. N \in 1..M /\ N <= M /\ \A i \in 1..N : t.nodes[i] \in Node /\ t.nodes[i].id \in Peers
  <2>1. t.nodes \in Seq(Node) /\ N \in 1..M
    BY <1>1 DEF GoodNodes
  <2>2. \A i \in 1..N : t.nodes[i] \in Node
    BY <1>1, <2>1
  <2> QED BY <2>1, <2>2 DEF Node
<1>3. t.name \in Nat /\ t.name <= D
  BY <1>1, WireAssumption DEF GoodNodes, GoodTicket
<1> DEFINE C == 1 + 32 + 1 + 1 + 1 + Str(D) + 1 + 33
           K == (5 * (L - 5)) \div 8 - C
<1>4. C \in Nat
  BY DEF Str
<1> HIDE DEF C
<1>5. ASSUME NEW x \in Nat, 5 + (8 * (C + x) + 4) \div 5 <= L PROVE x <= K /\ K \in Nat
  BY <1>4, <1>5
<1>6. ASSUME NEW x \in Nat, K \in Nat, x <= C + K PROVE 5 + (8 * x + 4) \div 5 <= L
  BY <1>4, <1>6
<1> HIDE DEF K
<1>7. ASSUME NEW i \in 1..N
      PROVE  NodeBytes(t.nodes[i]) \in Nat /\ M * NodeBytes(t.nodes[i]) <= K /\ K \in Nat
  <2>1. PICK p \in Peers : p = t.nodes[i].id
    BY <1>2
  <2>2. PICK B \in Nat : B = NodeBytes([id |-> p, gen |-> 1])
    BY <1>2, <2>1, NodeSizes
  <2>3. PICK b \in Nat : b = NodeBytes(t.nodes[i]) /\ b <= B
    BY <1>2, <2>1, <2>2, NodeSizes
  <2>4. 5 + (8 * (1 + 32 + 1 + M * B + 1 + 1 + Str(D) + 1 + 33) + 4) \div 5 <= L
    BY <1>1, <2>1, <2>2 DEF AddressesFit, FullTicketLen
  <2>5. PICK x \in Nat : x = M * B
    OBVIOUS
  <2>6. 1 + 32 + 1 + x + 1 + 1 + Str(D) + 1 + 33 = C + x
    BY DEF C, Str
  <2>7. x <= K /\ K \in Nat
    BY <1>5, <2>4, <2>5, <2>6
  <2>8. M * b <= M * B
    BY <2>3
  <2>9. M * b \in Nat
    OBVIOUS
  <2> QED BY <2>3, <2>5, <2>7, <2>8, <2>9
<1>8. K \in Nat
  <2>1. 1 \in 1..N
    BY <1>2
  <2> QED BY <1>7, <2>1
<1>9. PICK s \in Nat : s <= K
        /\ TicketBytes(t) = 1 + 32 + 1 + s + 1 + 1 + (IF t.name > 0 THEN Str(t.name) ELSE 0)
                              + 1 + (IF t.key = NoKey THEN 1 ELSE 33)
  <2> DEFINE g == CHOOSE h : Summed(h, t.nodes, N)
  <2>1. Summed(g, t.nodes, N)
    BY SummedExists, Zenon
  <2>2. TicketBytes(t) = 1 + 32 + 1 + g[N] + 1 + 1 + (IF t.name > 0 THEN Str(t.name) ELSE 0)
                           + 1 + (IF t.key = NoKey THEN 1 ELSE 33)
    BY <1>1 DEF TicketBytes, Summed
  <2> HIDE DEF g
  <2>3. g[N] \in Nat /\ g[N] <= K
    <3>1. \A i \in 1..N : NodeBytes(t.nodes[i]) \in Nat /\ M * NodeBytes(t.nodes[i]) <= K
      BY <1>7
    <3> QED BY <1>2, <1>8, <2>1, <3>1, NodesFit
  <2> QED BY <2>2, <2>3
<1>10. TicketBytes(t) \in Nat /\ TicketBytes(t) <= C + K
  BY <1>3, <1>8, <1>9 DEF C, Str
<1>11. TicketLen(t) <= MAX_TICKET_LEN
  BY <1>1, <1>6, <1>8, <1>10 DEF TicketLen
<1>12. \A n \in ToSet(t.nodes) : n.id \in Peers
  BY <1>1, <1>2 DEF ToSet, GoodNodes
<1>13. validate(t)
  BY <1>2, <1>1, <1>12 DEF validate, AddressesFit, GoodTicket
<1> QED BY <1>11, <1>13 DEF from_string_prefixed

\* "A ticket handed out by a live peer must point at that peer"
\* (session.rs:389), for any peers and drops and any number of joins,
\* restarts and tickets: it names the peer first, with the address it has
\* now, and in no other place.
THEOREM TicketsNameTheirWriter ==
  Spec => [](\A p \in Peers : Up(p) => \A peers \in KnownPeers(p) :
               /\ Head(Fresh(p, peers).nodes) = Self(p)
               /\ \A i \in 2..Len(Fresh(p, peers).nodes) : Fresh(p, peers).nodes[i].id # p)
<1>1. ASSUME WireInv, NEW p \in Peers, Up(p), NEW peers \in KnownPeers(p)
      PROVE  /\ Head(Fresh(p, peers).nodes) = Self(p)
             /\ \A i \in 2..Len(Fresh(p, peers).nodes) : Fresh(p, peers).nodes[i].id # p
  <2>1. LET t == Fresh(p, peers) IN
        /\ GoodNodes(t) /\ t.nodes[1] = Self(p) /\ \A i \in 2..Len(t.nodes) : t.nodes[i].id # p
    BY <1>1, FreshNodes DEF WireInv
  <2> QED BY <2>1 DEF GoodNodes
<1>2. WireInv => \A p \in Peers : Up(p) => \A peers \in KnownPeers(p) :
               /\ Head(Fresh(p, peers).nodes) = Self(p)
               /\ \A i \in 2..Len(Fresh(p, peers).nodes) : Fresh(p, peers).nodes[i].id # p
  BY <1>1
<1> QED BY <1>2, WireStays, PTL

\* The same, and every form of the ticket parses, as long as the peers'
\* addresses leave room for the nodes a ticket may name.
THEOREM TicketsPointHome ==
  ASSUME AddressesFit PROVE Spec => []TicketPointsHome
<1>1. ASSUME WireInv PROVE TicketPointsHome
  <2> SUFFICES ASSUME NEW p \in Peers, Up(p), NEW peers \in KnownPeers(p), NEW t, t = Fresh(p, peers)
               PROVE  /\ Head(t.nodes) = Self(p)
                      /\ \A i \in 2..Len(t.nodes) : t.nodes[i].id # p
                      /\ t.name <= MAX_DISPLAY_NAME_LEN => \A u \in Forms(t) : from_string_prefixed(u)
    BY DEF TicketPointsHome
  <2>1. /\ GoodTicket(t) /\ GoodNodes(t) /\ \A u \in Forms(t) : GoodTicket(u) /\ GoodNodes(u)
        /\ t.nodes[1] = Self(p) /\ \A i \in 2..Len(t.nodes) : t.nodes[i].id # p
    BY <1>1, FreshNodes DEF WireInv
  <2>2. \A u \in Forms(t) : u.name = t.name
    <3>1. IsRecord(t)
      BY <2>1 DEF GoodTicket
    <3>2. \E X : shorten(t) = [t EXCEPT !.nodes = X]
      BY Zenon DEF shorten
    <3>3. \A X : [t EXCEPT !.nodes = X].name = t.name
      BY <3>1 DEF IsRecord
    <3>4. without_key(t).name = t.name
      BY <3>1 DEF without_key, IsRecord
    <3> QED BY <3>2, <3>3, <3>4 DEF Forms
  <2>3. Head(t.nodes) = Self(p)
    BY <2>1 DEF GoodNodes
  <2> QED BY <1>1, <2>1, <2>2, <2>3, TicketsFit
<1> QED BY <1>1, WireStays, PTL
=============================================================================
