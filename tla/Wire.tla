-------------------------------- MODULE Wire --------------------------------
(***************************************************************************)
(* Who can talk to whom: drops are created, tickets are handed on from     *)
(* peer to peer, sessions join, restart and broadcast, and every frame     *)
(* ever sent may reach any session at any time, repeatedly, through any    *)
(* neighbour.  A frame is its index in `net`.  A peer has one session.     *)
(***************************************************************************)
EXTENDS Frames, Tickets, FiniteSets

CONSTANTS
  Peers, Drops,
  Name,         \* Name[d]: length of the display name its creator chooses
  Bodies,       \* offers and extensions applications send
  MaxCalls,     \* bound: calls that broadcast
  Receivers,    \* bound: peers whose receiving side is modelled
  MaxTickets,   \* bound: tickets handed out
  MaxRestarts   \* bound: restarts of all peers together

Offers == [k : {"offer"}, name : Nat, clean : BOOLEAN, entries : Nat, key : Nat, value : Nat]
Extensions == [k : {"ext"}, len : Nat]

ASSUME WireAssumption ==
  /\ Addr \in [Peers -> [url : Nat, v4 : Nat, v6 : Nat]]
  /\ Name \in [Drops -> Nat] /\ {MaxCalls, MaxTickets, MaxRestarts} \subseteq Nat /\ Receivers \subseteq Peers
  /\ Bodies \subseteq Offers \cup Extensions
  /\ None \notin Drops /\ None \notin Bodies /\ IsFiniteSet(Peers)

VARIABLES
  life,     \* life[p]: how often the peer has started; its address changes
  session,  \* session[p]: the ticket its session was made from, or None
  tickets,  \* tickets anybody was ever given
  net,      \* every frame ever broadcast
  replies,  \* which of them answer a request (history)
  seen,     \* seen[p]: the dedup cache
  due,      \* due[p]: extension frames retained, not yet sent to the sink
  sub,      \* sub[p]: how far on_extension has come
  heard     \* heard[p]: extension frames its subscriber got

ticketVars == <<life, tickets>>
frameVars  == <<net, replies, seen>>
extVars    == <<due, sub, heard>>
vars       == <<ticketVars, session, frameVars, extVars>>

Nothing == [p \in Peers |-> {}]

Init ==
  /\ life = [p \in Peers |-> 1]
  /\ session = [p \in Peers |-> None] /\ tickets = {}
  /\ net = <<>> /\ replies = {} /\ seen = Nothing
  /\ due = Nothing /\ sub = [p \in Peers |-> "no"] /\ heard = Nothing

Self(p) == [id |-> p, gen |-> life[p]]
Up(p) == session[p] # None
Blind(p) == session[p].mode = "sealed" /\ session[p].key = NoKey

\* Retained for others: everything accepted but requests, which only a blind
\* relay cannot tell apart.
Kept(p) == {i \in seen[p] : net[i].body.k # "request" \/ Blind(p)}

Restarts == Cardinality({x \in Peers \X (1..MaxRestarts) : x[2] < life[x[1]]})
Calls == Cardinality({i \in DOMAIN net : net[i].body.k # "provider"})

---------------------------------------------------------------------------
(* Tickets and sessions. *)

\* create: a random topic, and a key for a private drop.
create(p, d, private) ==
  /\ ~Up(p) /\ \A q \in Peers : Up(q) => session[q].topic # d
  /\ \A t \in tickets : t.topic # d
  /\ \A i \in DOMAIN net : net[i].topic # d
  /\ session' = [session EXCEPT ![p] = IF private THEN new_private(d, <<Self(p)>>, Name[d])
                                       ELSE new(d, <<Self(p)>>, Name[d])]
  /\ UNCHANGED <<ticketVars, frameVars, extVars>>

\* The peers p has heard from lately, in the order its hash set gives them:
\* any of those that are in the drop.
KnownPeers(p) ==
  UNION {SetToSeqs(S) : S \in
           SUBSET {q \in Peers \ {p} : Up(q) /\ session[q].topic = session[p].topic}}

Fresh(p, peers) == refresh(session[p], Self(p), peers)

\* Tickets are handed out whole, by id only (short_ticket), or without the
\* key, for a blind relay.
Forms(t) == {t, shorten(t), without_key(t)}

\* drop.ticket
ticket(p) ==
  /\ Up(p) /\ Cardinality(tickets) < MaxTickets
  /\ \E peers \in KnownPeers(p) : \E t \in Forms(Fresh(p, peers)) :
       tickets' = tickets \cup {t}
  /\ UNCHANGED <<life, session, frameVars, extVars>>

\* join, from the string of a ticket.
join(p, t) ==
  /\ ~Up(p) /\ from_string_prefixed(t)
  /\ session' = [session EXCEPT ![p] = t]
  /\ UNCHANGED <<ticketVars, frameVars, extVars>>

\* The process ends and starts again with another address.  A drop is
\* restored from the ticket that was current when the table was last
\* written, and skipped when that does not parse; its history comes back or
\* does not (module DropTable).
Restart(p) ==
  /\ Up(p) /\ Restarts < MaxRestarts
  /\ life' = [life EXCEPT ![p] = @ + 1]
  /\ \E peers \in KnownPeers(p) :
       LET t == Fresh(p, peers)
       IN  session' = [session EXCEPT ![p] = IF from_string_prefixed(t) THEN t ELSE None]
  /\ seen' = [seen EXCEPT ![p] = IF session'[p] = None THEN {} ELSE @ \cap Kept(p)]
       \/ seen' = [seen EXCEPT ![p] = {}]
  /\ due' = [due EXCEPT ![p] = {}]
  /\ sub' = [sub EXCEPT ![p] = "no"] /\ heard' = [heard EXCEPT ![p] = {}]
  /\ UNCHANGED <<tickets, net, replies>>

---------------------------------------------------------------------------
(* Sending. *)

\* Mutant of Encoded: the family is chosen by whether there is a key,
\* not by the mode.
Encoded_keyed(p, id, body) ==
  IF session[p].key # NoKey
  THEN encode_sealed(id, p, session[p].topic, session[p].key, body)
  ELSE encode(id, p, session[p].topic, body)

\* broadcast_signed: the family follows the ticket's mode, and a blind relay
\* has nothing it may say.
Encoded(p, id, body) ==
  IF session[p].mode = "sealed"
  THEN IF Blind(p) THEN None
       ELSE encode_sealed(id, p, session[p].topic, session[p].key, body)
  ELSE encode(id, p, session[p].topic, body)

\* broadcast: all bodies can be encoded, or the call fails.  Our own frames
\* are marked as seen and, requests apart, retained.
broadcast(p, bodies) ==
  LET frames == [i \in DOMAIN bodies |-> Encoded(p, Len(net) + i, bodies[i])]
      ids    == (Len(net) + 1)..(Len(net) + Len(bodies))
  IN  /\ Up(p) /\ Calls < MaxCalls
      /\ \A i \in DOMAIN frames : frames[i] # None
      /\ net' = net \o frames
      /\ seen' = [seen EXCEPT ![p] = @ \cup ids]
      /\ UNCHANGED <<ticketVars, session, replies, extVars>>

Provider == [k |-> "provider"]
Request == [k |-> "request"]

\* publish_*: the name is checked, the metadata is not.
publish(p, b) ==
  /\ b.k = "offer" /\ validate_name(b)
  /\ broadcast(p, <<b, Provider>>)

\* fetch without a provider.
request(p) == broadcast(p, <<Request>>)

send_extension(p, b) ==
  /\ b.k = "ext" /\ b.len <= MAX_BODY_SIZE
  /\ broadcast(p, <<b>>)

\* A later build sends a kind this one does not know (with_envelope).
SendFuture(p) == broadcast(p, <<[k |-> "future", len |-> 10]>>)

\* A build from before the topic was signed sends one of its frames.
SendLegacy ==
  /\ Calls < MaxCalls
  /\ net' = Append(net, Signed(Len(net) + 1, None, "v2", None, 1, Request, None,
                               PayloadSize(Request)))
  /\ UNCHANGED <<ticketVars, session, replies, seen, extVars>>

---------------------------------------------------------------------------
(* Receiving. *)

decode_for_session(p, frame) ==
  LET s == session[p]
  IN  IF s.mode = "public" THEN decode(frame, s.topic)
      ELSE IF s.key = NoKey THEN verify_sealed_outer(frame, s.topic)
      ELSE decode_sealed(frame, s.key, s.topic)

Kind(res) == IF res.ok /\ res.body # None THEN res.body.k ELSE "none"

\* handle_request, by a peer that has the blob and has not just answered:
\* the reply is signed for the public family, whatever the session's mode.
\* It is neither marked as seen nor retained.
handle_request(p) ==
  \/ UNCHANGED <<net, replies>>
  \/ /\ net' = Append(net, encode(Len(net) + 1, p, session[p].topic, Provider))
     /\ replies' = replies \cup {Len(net) + 1}

\* handle_message up to the release of the state lock: dedup and retention;
\* an extension is still to be sent to its sink.
handle_message(p, i, res) ==
  /\ seen' = [seen EXCEPT ![p] = @ \cup {i}]
  /\ due' = [due EXCEPT ![p] = IF Kind(res) = "ext" THEN @ \cup {i} ELSE @]
  /\ IF Kind(res) = "request" THEN handle_request(p) ELSE UNCHANGED <<net, replies>>

\* handle_transport_event: some neighbour hands over frame i.  A frame that
\* decode_for_session refuses is reported and changes nothing.
Received(p, i) ==
  /\ Up(p)
  /\ LET res == decode_for_session(p, net[i])
     IN  /\ res.ok
         /\ i \notin seen[p] /\ handle_message(p, i, res)
  /\ UNCHANGED <<ticketVars, session, sub, heard>>

\* The rest of handle_message: to whoever subscribed.
SendToSink(p, i) ==
  /\ i \in due[p]
  /\ due' = [due EXCEPT ![p] = @ \ {i}]
  /\ heard' = [heard EXCEPT ![p] = IF sub[p] = "no" THEN @ ELSE @ \cup {i}]
  /\ UNCHANGED <<ticketVars, session, frameVars, sub>>

\* Mutant of on_extension: replays what is retained before it
\* subscribes.
on_extension_late(p) ==
  /\ Up(p)
  /\ \/ sub[p] = "no" /\ heard[p] = {}
        /\ heard' = [heard EXCEPT ![p] =
                       {i \in Kept(p) : Kind(decode_for_session(p, net[i])) = "ext"}]
        /\ UNCHANGED sub
     \/ sub[p] = "no" /\ sub' = [sub EXCEPT ![p] = "replayed"] /\ UNCHANGED heard
  /\ UNCHANGED <<ticketVars, session, frameVars, due>>

\* on_extension: subscribe, then replay what is retained.
on_extension(p) ==
  /\ Up(p)
  /\ \/ sub[p] = "no" /\ sub' = [sub EXCEPT ![p] = "subscribed"] /\ UNCHANGED heard
     \/ /\ sub[p] = "subscribed" /\ sub' = [sub EXCEPT ![p] = "replayed"]
        /\ heard' = [heard EXCEPT ![p] = @ \cup
                       {i \in Kept(p) : Kind(decode_for_session(p, net[i])) = "ext"}]
  /\ UNCHANGED <<ticketVars, session, frameVars, due>>

Next ==
  \/ \E p \in Peers :
       \/ \E d \in Drops, private \in BOOLEAN : create(p, d, private)
       \/ ticket(p) \/ \E t \in tickets : join(p, t)
       \/ Restart(p)
       \/ \E b \in Bodies : publish(p, b) \/ send_extension(p, b)
       \/ request(p) \/ SendFuture(p)
  \/ \E p \in Receivers :
       \/ on_extension(p)
       \/ \E i \in DOMAIN net : Received(p, i) \/ SendToSink(p, i)
  \/ SendLegacy

Spec == Init /\ [][Next]_vars

---------------------------------------------------------------------------
IsTicket(t) ==
  /\ t.topic \in Drops /\ t.mode \in {"public", "sealed"} /\ t.name = Name[t.topic]
  /\ t.key \in {NoKey} \cup (IF t.mode = "sealed" THEN {KeyOf(t.topic)} ELSE {})
  /\ Len(t.nodes) \in 1..MAX_BOOTSTRAP_NODES

TypeOK ==
  /\ life \in [Peers -> Nat \ {0}] /\ Restarts <= MaxRestarts
  /\ \A i \in DOMAIN net : net[i].id = i /\ net[i].size <= MAX_MESSAGE_SIZE
  /\ replies \subseteq DOMAIN net /\ \A t \in tickets : IsTicket(t)
  /\ \A p \in Peers :
       /\ session[p] = None \/ IsTicket(session[p])
       /\ seen[p] \subseteq DOMAIN net /\ due[p] \subseteq Kept(p)
       /\ sub[p] \in {"no", "subscribed", "replayed"} /\ heard[p] \subseteq DOMAIN net

\* Frames that broadcast accepts and their receivers do not: an offer with
\* metadata past the limits, a payload that only exceeds the body limit once
\* it is encoded, on a relay also a sealed one, and a reply to a request in
\* a private drop, which goes out in the public family.
Exempt(p, i) ==
  LET f == net[i]
  IN  \/ ~validate_body(f.body)
      \/ PayloadSize(f.body) > MAX_BODY_SIZE
      \/ Blind(p) /\ f.payload > MAX_BODY_SIZE
      \/ i \in replies /\ session[p].mode = "sealed"

\* What a session lets its application send is accepted by everyone in the
\* drop - read by members, carried by relays - however tickets travelled,
\* whoever restarted and whoever relays, but for the frames above.
SentIsTaken ==
  \A p \in Peers : \A i \in DOMAIN net :
    Up(p) /\ net[i].topic = session[p].topic /\ ~Exempt(p, i)
      => decode_for_session(p, net[i])
           = Accepted(IF Blind(p) \/ ~Known(net[i].body) THEN None ELSE net[i].body)

\* A frame is accepted only in the drop and the family it was signed for, and
\* read only with the key; a member that is handed a frame of another family
\* of its own drop reports the version, not a bad signature (message.rs:361).
NoCrossTalk ==
  \A p \in Peers : \A i \in DOMAIN net : Up(p) =>
    LET f      == net[i]
        res    == decode_for_session(p, f)
        family == IF session[p].mode = "sealed" THEN "v4" ELSE "v3"
    IN  /\ res.ok => f.topic = session[p].topic /\ f.domain = family
        /\ Kind(res) # "none" /\ family = "v4" => session[p].key = KeyOf(f.topic)
        /\ f.domain # family /\ f.topic \in {None, session[p].topic} /\ ~Blind(p)
             => res = Refused("UnsupportedVersion")

\* "Subscribe before replaying" (session.rs:1223): a subscriber has every
\* extension frame of others that its session retains, whether it came
\* before, during or after on_extension.
ExtensionsHeard ==
  \A p \in Peers :
    sub[p] = "replayed" =>
      \A i \in Kept(p) \ due[p] :
        net[i].body.k = "ext" /\ net[i].author # p /\ ~Blind(p) => i \in heard[p]

\* Within what the peers' addresses have to stay for every ticket to parse:
\* the limits of validate, and a length that lets a private drop's ticket name
\* as many nodes as it may, all like p, and the longest name.
FullTicketLen(p) ==
  LET node == NodeBytes([id |-> p, gen |-> 1])
  IN  5 + (8 * (1 + 32 + 1 + MAX_BOOTSTRAP_NODES * node
                  + 1 + 1 + Str(MAX_DISPLAY_NAME_LEN) + 1 + 33) + 4) \div 5

AddressesFit ==
  \A p \in Peers :
    /\ Addr[p].v4 <= MAX_DIRECT_ADDRS /\ Addr[p].v6 <= MAX_DIRECT_ADDRS
    /\ Addr[p].url <= MAX_RELAY_URL_LEN
    /\ FullTicketLen(p) <= MAX_TICKET_LEN

\* "A ticket handed out by a live peer must point at that peer"
\* (session.rs:389): whatever chain of joins, restarts and re-shares made its
\* session, the ticket it would hand out names it first, with the address it
\* has now, and no older one of its own; and every form of it parses, as long
\* as the display name is within its limit.
TicketPointsHome ==
  \A p \in Peers : Up(p) =>
    \A peers \in KnownPeers(p) :
      LET t == Fresh(p, peers)
      IN  /\ Head(t.nodes) = Self(p)
          /\ \A i \in 2..Len(t.nodes) : t.nodes[i].id # p
          /\ t.name <= MAX_DISPLAY_NAME_LEN => \A u \in Forms(t) : from_string_prefixed(u)
=============================================================================
