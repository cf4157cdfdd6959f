------------------------------ MODULE EventBus ------------------------------
(***************************************************************************)
(* The daemon's event bus: a sequence counter, a bounded ring for          *)
(* events.replay and a broadcast channel for attached clients.  emit is    *)
(* called from any task and takes three separately atomic steps, so        *)
(* events may enter the ring, or the channel, out of sequence order.       *)
(***************************************************************************)
EXTENDS Naturals, Sequences, SequencesExt

CONSTANTS
  Emitters,     \* the tasks that call emit
  EVENT_RING,   \* envelopes the ring keeps
  BusCap,       \* envelopes the broadcast channel keeps for a slow receiver
  None

ASSUME EventBusAssumption == EVENT_RING \in Nat \ {0} /\ BusCap \in Nat \ {0}

VARIABLES
  seq,       \* the next sequence number
  ring,      \* the retained envelopes, oldest first
  bus,       \* every envelope ever sent; a receiver holds a position in it
  emitting,  \* emitting[e]: the emit call e is in, or None
  rung,      \* sequence numbers that ever entered the ring (history)
  inorder    \* whether ring and channel were entered in order (history)

busVars == <<seq, ring, bus, emitting, rung, inorder>>

BusInit ==
  /\ seq = 1
  /\ ring = <<>> /\ bus = <<>>
  /\ emitting = [e \in Emitters |-> None]
  /\ rung = {} /\ inorder = TRUE

Ahead(s, n) == \A i \in DOMAIN s : s[i].seq < n

\* emit(e, p): called with event ev.
Emit(e, ev) == emitting' = [emitting EXCEPT ![e] = [stage |-> "seq", ev |-> ev]]

\* seq.fetch_add(1)
TakeSeq(e) ==
  /\ emitting[e] # None /\ emitting[e].stage = "seq"
  /\ emitting' = [emitting EXCEPT ![e] =
                    [stage |-> "ring", env |-> [seq |-> seq, ev |-> @.ev]]]
  /\ seq' = seq + 1
  /\ UNCHANGED <<ring, bus, rung, inorder>>

\* Mutant of EnterRing: ring.lock(), append; the ring is never trimmed.
EnterRing_untrimmed(e) ==
  /\ emitting[e] # None /\ emitting[e].stage = "ring"
  /\ LET env == emitting[e].env
     IN  /\ ring' = Append(ring, env)
         /\ rung' = rung \cup {env.seq}
         /\ inorder' = (inorder /\ Ahead(ring, env.seq))
         /\ emitting' = [emitting EXCEPT ![e] = [stage |-> "send", env |-> env]]
  /\ UNCHANGED <<seq, bus>>

\* ring.lock(): evict the oldest at the cap, append.
EnterRing(e) ==
  /\ emitting[e] # None /\ emitting[e].stage = "ring"
  /\ LET env == emitting[e].env
     IN  /\ ring' = Append(IF Len(ring) = EVENT_RING THEN Tail(ring) ELSE ring, env)
         /\ rung' = rung \cup {env.seq}
         /\ inorder' = (inorder /\ Ahead(ring, env.seq))
         /\ emitting' = [emitting EXCEPT ![e] = [stage |-> "send", env |-> env]]
  /\ UNCHANGED <<seq, bus>>

\* tx.send(env)
Send(e) ==
  /\ emitting[e] # None /\ emitting[e].stage = "send"
  /\ bus' = Append(bus, emitting[e].env)
  /\ inorder' = (inorder /\ Ahead(bus, emitting[e].env.seq))
  /\ emitting' = [emitting EXCEPT ![e] = None]
  /\ UNCHANGED <<seq, ring, rung>>

EmitStep(e) == TakeSeq(e) \/ EnterRing(e) \/ Send(e)

\* Mutant of replay: replay by the sequence number asked for only: never
\* reports an eviction.
replay_silent(from) ==
  [events |-> {e \in ToSet(ring) : e.seq >= from}, truncated |-> FALSE]

\* replay(from): what the ring still has, and whether the oldest envelope it
\* has is past what was asked for.
replay(from) ==
  [events    |-> {e \in ToSet(ring) : e.seq >= from},
   truncated |-> ring # <<>> /\ Head(ring).seq > from]

\* recv on a receiver at position pos: the next envelope, or, when the
\* channel no longer has it, Lagged and a jump to the oldest it has.
Lagged(pos) == Len(bus) - pos > BusCap

BusTypeOK ==
  LET Envelope(x) == x.seq \in Nat \ {0}
  IN  /\ seq \in Nat \ {0}
      /\ \A i \in DOMAIN ring : Envelope(ring[i])
      /\ \A i \in DOMAIN bus : Envelope(bus[i])
      /\ Len(ring) <= EVENT_RING
      /\ \A e \in Emitters :
           emitting[e] = None \/ emitting[e].stage \in {"seq", "ring", "send"}
      /\ rung \subseteq 1..(seq - 1) /\ inorder \in BOOLEAN
=============================================================================
