------------------------------ MODULE Tickets ------------------------------
(***************************************************************************)
(* Drop tickets: how a session writes the one it hands out, and what a     *)
(* decoder accepts.  A bootstrap node is a peer's id and, with gen > 0,    *)
(* the addresses it had in its gen-th life; Addr[p] gives their number     *)
(* and the length of the relay URL.                                        *)
(***************************************************************************)
EXTENDS Naturals, Sequences, SequencesExt, Vec

CONSTANTS
  MAX_TICKET_LEN,         \* characters of an encoded ticket
  MAX_BOOTSTRAP_NODES,
  MAX_DIRECT_ADDRS,       \* per address family of a node
  MAX_RELAY_URL_LEN,
  MAX_DISPLAY_NAME_LEN,
  Addr                    \* Addr[p] = [url, v4, v6]

ASSUME TicketsAssumption ==
  /\ {MAX_TICKET_LEN, MAX_DIRECT_ADDRS, MAX_RELAY_URL_LEN, MAX_DISPLAY_NAME_LEN} \subseteq Nat
  /\ MAX_BOOTSTRAP_NODES \in Nat \ {0}

NoKey == <<>>
KeyOf(d) == <<"key", d>>   \* the random key of private drop d

\* DropTicket::new and new_private; a name of 0 bytes stands for none.
new(d, nodes, name) ==
  [topic |-> d, nodes |-> nodes, name |-> name, mode |-> "public", key |-> NoKey]
new_private(d, nodes, name) ==
  [topic |-> d, nodes |-> nodes, name |-> name, mode |-> "sealed", key |-> KeyOf(d)]
without_key(t) == [t EXCEPT !.key = NoKey]

\* A node's encoded bytes: id, relay URL, IPv4 and IPv6 addresses.
Str(n) == (IF n < 128 THEN 1 ELSE 2) + n
NodeBytes(n) ==
  IF n.gen = 0 THEN 32 + 1 + 1 + 1
  ELSE LET a == Addr[n.id]
       IN  32 + 1 + (IF a.url > 0 THEN Str(a.url) ELSE 0) + 1 + 7 * a.v4 + 1 + 19 * a.v6

TicketBytes(t) ==
  LET sum[i \in 0..Len(t.nodes)] == IF i = 0 THEN 0 ELSE sum[i - 1] + NodeBytes(t.nodes[i])
  IN  1 + 32 + 1 + sum[Len(t.nodes)]
        + 1 + 1 + (IF t.name > 0 THEN Str(t.name) ELSE 0) + 1 + (IF t.key = NoKey THEN 1 ELSE 33)

\* to_string_prefixed: five characters of prefix, then base 32.
TicketLen(t) == 5 + (8 * TicketBytes(t) + 4) \div 5

validate(t) ==
  /\ t.mode = "public" => t.key = NoKey
  /\ Len(t.nodes) <= MAX_BOOTSTRAP_NODES
  /\ \A n \in ToSet(t.nodes) : n.gen > 0 =>
       /\ Addr[n.id].v4 <= MAX_DIRECT_ADDRS /\ Addr[n.id].v6 <= MAX_DIRECT_ADDRS
       /\ Addr[n.id].url <= MAX_RELAY_URL_LEN
  /\ t.name <= MAX_DISPLAY_NAME_LEN

from_string_prefixed(t) == TicketLen(t) <= MAX_TICKET_LEN /\ validate(t)

\* Mutant of refresh: a stale entry of our own is kept when it is
\* already there.
refresh_keeping(t, self, peers) ==
  LET nodes == IF \E n \in ToSet(t.nodes) : n.id = self.id THEN t.nodes ELSE <<self>> \o t.nodes
      have  == {n.id : n \in ToSet(nodes)}
      fresh == retain(peers, ToSet(peers) \ have)
      named == [i \in DOMAIN fresh |-> [id |-> fresh[i], gen |-> 0]]
      all   == nodes \o named
  IN  [t EXCEPT !.nodes = SubSeq(all, 1, IF Len(all) < MAX_BOOTSTRAP_NODES THEN Len(all)
                                         ELSE MAX_BOOTSTRAP_NODES)]

\* DropSession::ticket: our own address first, in place of any older one,
\* then the nodes of the ticket we came with, then the peers we know, by id.
refresh(t, self, peers) ==
  LET nodes == <<self>> \o retain(t.nodes, {n \in ToSet(t.nodes) : n.id # self.id})
      have  == {n.id : n \in ToSet(nodes)}
      fresh == retain(peers, ToSet(peers) \ have)
      named == [i \in DOMAIN fresh |-> [id |-> fresh[i], gen |-> 0]]
      all   == nodes \o named
  IN  [t EXCEPT !.nodes = SubSeq(all, 1, IF Len(all) < MAX_BOOTSTRAP_NODES THEN Len(all)
                                         ELSE MAX_BOOTSTRAP_NODES)]

\* short_ticket: the same nodes by id only.
shorten(t) == [t EXCEPT !.nodes = [i \in DOMAIN @ |-> [id |-> @[i].id, gen |-> 0]]]
=============================================================================
