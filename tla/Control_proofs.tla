--------------------------- MODULE Control_proofs ---------------------------
(***************************************************************************)
(* Proofs about Control for any clients, tasks, ring, channel and queue:   *)
(* an entry of the task table that says running is running, one that says  *)
(* settled stays so, and a client that replays from the number it          *)
(* persisted misses nothing unwarned.                                      *)
(***************************************************************************)
EXTENDS Control, SequenceTheorems, WellFoundedInduction, NaturalsInduction, TLAPS

OutFrames == Replies \cup [k : {"lag"}] \cup [k : {"ev"}, env : Envelopes]
Conns ==
  [roles : SUBSET {"observer", "control"}, pos : Nat, out : Seq(OutFrames), deaf : BOOLEAN]
Reqs ==
  [m : {"offer.fetch", "task.cancel"}, t : Tasks] \cup [m : {"events.replay"}, from : Nat]
Servings ==
  [pc : {"dispatch"}, req : Reqs, roles : SUBSET {"observer", "control"}]
    \cup [pc : {"insert"}, req : [m : {"offer.fetch"}, t : Tasks], roles : SUBSET {"observer", "control"}]
    \cup [pc : {"reply"}, reply : Replies]
Emits == [stage : {"seq"}, ev : Events] \cup [stage : {"ring", "send"}, env : Envelopes]

\* Types, bus and clients apart.
BusTyped ==
  /\ seq \in Nat \ {0} /\ ring \in Seq(Envelopes) /\ bus \in Seq(Envelopes)
  /\ Len(ring) <= EVENT_RING /\ emitting \in [Emitters -> Emits \cup {None}]
  /\ rung \subseteq 1..(seq - 1) /\ inorder \in BOOLEAN

CtlTyped ==
  /\ conn \in [Clients -> Conns \cup {None}] /\ serving \in [Clients -> Servings \cup {None}]
  /\ DOMAIN cl = Clients /\ \A c \in Clients : cl[c].pc \in {"idle", "called", "started", "waiting"}
  /\ \A c \in Clients : Up(c) => conn[c].pos <= Len(bus) /\ Len(conn[c].out) <= OutCap
  /\ seen \in [Clients -> SUBSET Nat] /\ mark \in [Clients -> Nat]
  /\ warned \in [Clients -> BOOLEAN] /\ synced \in [Clients -> BOOLEAN]
  /\ tasks \in [Tasks -> {"running"} \cup Terminal \cup {None}]
  /\ worker \in [Tasks -> {"none", "work", "aborted", "ended"} \cup Outcomes]
  /\ unlisted \subseteq Tasks /\ cancels \in 0..MaxCancels

\* The future of a task whose entry is still to be made has not been aborted,
\* and nobody else makes that entry.
Inserting(c, t) == Serving(c, "insert") /\ serving[c].req.t = t
TaskInv ==
  /\ \A t \in Tasks : worker[t] = "none" => tasks[t] = None
  /\ \A c \in Clients, t \in Tasks : Inserting(c, t) =>
       /\ tasks[t] = None /\ worker[t] # "none"
       /\ worker[t] \in {"work"} \cup Outcomes \/ t \in unlisted
       /\ \A d \in Clients : Inserting(d, t) => d = c
  /\ RunningIsRunning

---------------------------------------------------------------------------
\* The numbers between the ring and the channel.
Sending ==
  {emitting[e].env.seq : e \in {x \in Emitters : emitting[x] # None /\ emitting[x].stage = "send"}}

\* A number that cannot reach the channel in order any more.
Doomed(r) == r \in Sending /\ \E i \in DOMAIN bus : bus[i].seq > r

\* Whatever is sent or retained once entered the ring, and as long as emits
\* have not overtaken one another the ring is the end of what did.
OrderInv ==
  /\ \A i \in DOMAIN ring : ring[i].seq \in rung
  /\ \A i \in DOMAIN bus : bus[i].seq \in rung
  /\ \A e \in Emitters : emitting[e] # None =>
       /\ emitting[e].stage = "ring" => emitting[e].env.seq < seq
       /\ emitting[e].stage = "send" => emitting[e].env.seq \in rung
  /\ inorder =>
       /\ \A i, j \in DOMAIN ring : i < j => ring[i].seq < ring[j].seq
       /\ \A i, j \in DOMAIN bus : i < j => bus[i].seq < bus[j].seq
       /\ \A r \in rung : \/ \E i \in DOMAIN ring : ring[i].seq = r
                          \/ ring # <<>> /\ r < ring[1].seq

\* An answer to events.replay that tells no truncation, in the attach loop or
\* on its way, and what it adds to what the client has.
Answered(c, f) ==
  /\ f.k = "replay"
  /\ \/ Serving(c, "reply") /\ serving[c].reply = f
     \/ \E i \in DOMAIN conn[c].out : conn[c].out[i] = f
Told(f) == {e.seq : e \in f.r.events}
Gain(c, X) ==
  \/ synced[c] /\ X = {}
  \/ \E f \in Replies : Answered(c, f) /\ ~f.r.truncated /\ X = Told(f)

Event(c, i) == conn[c].out[i].k = "ev"
NoLag(c, n) == \A i \in 1..n : conn[c].out[i].k # "lag"

\* Counting X as received: what is received has no gap, nor has what is on
\* its way ahead of the first lag, and without a lag nothing is missing.
NoGap(c, X) ==
  \A m \in seen[c] \cup X, r \in rung : r < m => r \in seen[c] \cup X \/ Doomed(r)
NoGapInOut(c, X) ==
  \A j \in DOMAIN conn[c].out : Event(c, j) /\ NoLag(c, j - 1) =>
    \A r \in rung : r < conn[c].out[j].env.seq =>
      \/ r \in seen[c] \cup X \/ Doomed(r)
      \/ \E i \in 1..(j - 1) : Event(c, i) /\ conn[c].out[i].env.seq = r
Complete(c, X) ==
  NoLag(c, Len(conn[c].out)) =>
    \A r \in rung : \/ r \in seen[c] \cup X \/ r \in Sending
                    \/ \E i \in DOMAIN conn[c].out : Event(c, i) /\ conn[c].out[i].env.seq = r
                    \/ \E i \in DOMAIN bus : i > conn[c].pos /\ bus[i].seq = r

\* What client c knows: all it has comes from the bus, all up to its mark it
\* has, and its stream is whole once replayed.
Known(c) ==
  /\ seen[c] \subseteq rung /\ mark[c] \in rung \cup {0}
  /\ Up(c) => /\ \A i \in DOMAIN conn[c].out : Event(c, i) => conn[c].out[i].env.seq \in rung
              /\ \A f \in Replies : Answered(c, f) => Told(f) \subseteq rung
              /\ Serving(c, "dispatch") /\ serving[c].req.m = "events.replay"
                   => serving[c].req.from = mark[c] + 1
Marked(c) == inorder => \A r \in rung : r <= mark[c] => r \in seen[c] \/ Doomed(r)
Whole(c) ==
  Up(c) /\ inorder /\ ~warned[c] =>
    \A X : Gain(c, X) => NoGap(c, X) /\ NoGapInOut(c, X) /\ Complete(c, X)

Good(c) == Known(c) /\ Marked(c) /\ Whole(c)
ReplayInv == \A c \in Clients : Good(c)

\* Nobody is interrupted in the middle of an emit.
EmitInv ==
  /\ \A c \in Clients : emitting[c] # None => Serving(c, "reply")
  /\ \A t \in Tasks : worker[t] \in {"none", "work", "aborted"} => emitting[t] = None

---------------------------------------------------------------------------
\* emit is called: the types stay, and nothing is between ring and channel
\* that was not.
LEMMA EmitCalled ==
  ASSUME BusTyped, OrderInv, NEW e \in Emitters, NEW ev \in Events, Emit(e, ev), emitting[e] = None,
         UNCHANGED <<seq, ring, bus, rung, inorder>>
  PROVE  BusTyped' /\ OrderInv' /\ Sending' = Sending
<1>1. emitting' = [emitting EXCEPT ![e] = [stage |-> "seq", ev |-> ev]]
  BY DEF Emit
<1>2. [stage |-> "seq", ev |-> ev] \in Emits
  BY DEF Emits
<1>3. BusTyped'
  BY <1>1, <1>2 DEF BusTyped
<1>4. emitting'[e].stage = "seq" /\ \A x \in Emitters : x # e => emitting'[x] = emitting[x]
  BY <1>1 DEF BusTyped
<1>5. OrderInv'
  BY <1>4 DEF OrderInv
<1>6. {x \in Emitters : emitting'[x] # None /\ emitting'[x].stage = "send"}
        = {x \in Emitters : emitting[x] # None /\ emitting[x].stage = "send"}
  BY <1>4
<1>7. \A x \in Emitters : emitting[x] # None => emitting'[x] = emitting[x]
  BY <1>4
<1>8. Sending' = Sending
  BY <1>6, <1>7 DEF Sending
<1> QED BY <1>3, <1>5, <1>8

\* What an emitter is in the middle of.
LEMMA EmitTypes ==
  ASSUME BusTyped, NEW e \in Emitters, emitting[e] # None
  PROVE  /\ emitting[e].stage = "seq" => emitting[e].ev \in Events
         /\ emitting[e].stage \in {"ring", "send"} => emitting[e].env \in Envelopes
BY DEF BusTyped, Emits

\* fetch_add.
LEMMA TakeSeqKeeps ==
  ASSUME BusTyped, OrderInv, NEW e \in Emitters, TakeSeq(e)
  PROVE  BusTyped' /\ OrderInv' /\ Sending' = Sending /\ UNCHANGED <<ring, bus, rung, inorder>>
<1> DEFINE n == [stage |-> "ring", env |-> [seq |-> seq, ev |-> emitting[e].ev]]
<1>1. /\ emitting[e] # None /\ emitting[e].stage = "seq" /\ emitting' = [emitting EXCEPT ![e] = n]
      /\ seq' = seq + 1 /\ UNCHANGED <<ring, bus, rung, inorder>>
  BY DEF TakeSeq
<1>2. n \in Emits /\ n.stage = "ring" /\ n.env.seq = seq
  BY <1>1, EmitTypes DEF Emits, Envelopes, BusTyped
<1> HIDE DEF n
<1>3. /\ emitting'[e] = n /\ emitting' \in [Emitters -> Emits \cup {None}]
      /\ \A x \in Emitters : x # e => emitting'[x] = emitting[x]
  BY <1>1, <1>2 DEF BusTyped
<1>4. BusTyped'
  BY <1>1, <1>3 DEF BusTyped
<1>5. ASSUME NEW x \in Emitters, emitting'[x] # None
      PROVE  /\ emitting'[x].stage = "ring" => emitting'[x].env.seq < seq'
             /\ emitting'[x].stage = "send" => emitting'[x].env.seq \in rung
  <2>1. CASE x = e
    BY <1>1, <1>2, <1>3, <2>1 DEF BusTyped
  <2>2. CASE x # e
    <3>1. emitting[x].stage = "ring" => emitting[x].env.seq \in Nat
      BY <1>3, <1>5, <2>2, EmitTypes DEF Envelopes
    <3> QED BY <1>1, <1>3, <1>5, <2>2, <3>1 DEF OrderInv, BusTyped
  <2> QED BY <2>1, <2>2
<1>6. OrderInv'
  BY <1>1, <1>5 DEF OrderInv
<1>7. {x \in Emitters : emitting'[x] # None /\ emitting'[x].stage = "send"}
        = {x \in Emitters : emitting[x] # None /\ emitting[x].stage = "send"}
  BY <1>1, <1>2, <1>3
<1>8. \A x \in Emitters : emitting[x] # None /\ emitting[x].stage = "send" => emitting'[x] = emitting[x]
  BY <1>1, <1>3
<1>9. Sending' = Sending
  BY <1>7, <1>8 DEF Sending
<1> QED BY <1>1, <1>4, <1>6, <1>9

\* The ring: appended to, and at its cap without its first.
LEMMA RingMoves ==
  ASSUME BusTyped, NEW env \in Envelopes,
         ring' = Append(IF Len(ring) = EVENT_RING THEN Tail(ring) ELSE ring, env)
  PROVE  LET k == IF Len(ring) = EVENT_RING THEN 1 ELSE 0 IN
         /\ ring' \in Seq(Envelopes) /\ Len(ring') = Len(ring) + 1 - k /\ Len(ring') <= EVENT_RING
         /\ Len(ring') >= 1 /\ k <= Len(ring)
         /\ \A i \in 1..(Len(ring) - k) : ring'[i] = ring[i + k]
         /\ ring'[Len(ring')] = env
<1>1. ring \in Seq(Envelopes) /\ Len(ring) \in Nat /\ EVENT_RING \in Nat /\ EVENT_RING >= 1
      /\ Len(ring) <= EVENT_RING
  BY EventBusAssumption DEF BusTyped
<1> DEFINE Appended(t, u) ==
      /\ u \in Seq(Envelopes) /\ Len(u) = Len(t) + 1
      /\ \A i \in 1..Len(t) : u[i] = t[i]
      /\ u[Len(t) + 1] = env
<1>0. \A t \in Seq(Envelopes) : Appended(t, Append(t, env))
  BY AppendProperties
<1>2. CASE Len(ring) = EVENT_RING
  <2>1. ring # <<>> /\ ring' = Append(Tail(ring), env)
    BY <1>1, <1>2
  <2>2. /\ Tail(ring) \in Seq(Envelopes) /\ Len(Tail(ring)) = Len(ring) - 1
        /\ \A i \in 1..(Len(ring) - 1) : Tail(ring)[i] = ring[i + 1]
    BY <1>1, <2>1, HeadTailProperties
  <2>3. /\ ring' \in Seq(Envelopes) /\ Len(ring') = Len(ring)
        /\ \A i \in 1..(Len(ring) - 1) : ring'[i] = Tail(ring)[i]
        /\ ring'[Len(ring)] = env
    <3>1. PICK t : t = Tail(ring)
      OBVIOUS
    <3>2. t \in Seq(Envelopes) /\ Len(t) = Len(ring) - 1 /\ ring' = Append(t, env)
      BY <2>1, <2>2, <3>1
    <3>3. Appended(t, ring')
      BY <1>0, <3>2
    <3>4. Len(t) + 1 = Len(ring)
      BY <1>1, <3>2
    <3> QED BY <3>1, <3>2, <3>3, <3>4
  <2> QED BY <1>1, <1>2, <2>2, <2>3
<1>3. CASE Len(ring) # EVENT_RING
  <2>1. ring' = Append(ring, env)
    BY <1>3
  <2>2. /\ ring' \in Seq(Envelopes) /\ Len(ring') = Len(ring) + 1
        /\ \A i \in 1..Len(ring) : ring'[i] = ring[i]
        /\ ring'[Len(ring) + 1] = env
    BY <1>1, <2>1, AppendProperties
  <2> QED BY <1>1, <1>3, <2>2
<1> QED BY <1>2, <1>3

\* ring.lock(): in order, the number is larger than any before it.
LEMMA EnterRingKeeps ==
  ASSUME BusTyped, OrderInv, NEW e \in Emitters, EnterRing(e)
  PROVE  /\ BusTyped' /\ OrderInv' /\ UNCHANGED <<seq, bus>> /\ (inorder' => inorder)
         /\ \E n \in Nat : /\ rung' = rung \cup {n} /\ Sending' = Sending \cup {n}
                           /\ inorder' => \A r \in rung : r < n
<1> DEFINE env == emitting[e].env
           n == [stage |-> "send", env |-> env]
           k == IF Len(ring) = EVENT_RING THEN 1 ELSE 0
<1>1. /\ emitting[e] # None /\ emitting[e].stage = "ring" /\ emitting' = [emitting EXCEPT ![e] = n]
      /\ ring' = Append(IF Len(ring) = EVENT_RING THEN Tail(ring) ELSE ring, env)
      /\ rung' = rung \cup {env.seq} /\ inorder' = (inorder /\ Ahead(ring, env.seq))
      /\ UNCHANGED <<seq, bus>>
  BY DEF EnterRing
<1>0. inorder' => inorder /\ Ahead(ring, env.seq)
  BY <1>1, Zenon
<1>2. env \in Envelopes /\ env.seq \in 1..(seq - 1) /\ n \in Emits /\ n # None /\ n.stage = "send"
      /\ n.env.seq = env.seq
  <2>1. env \in Envelopes /\ env.seq < seq
    BY <1>1, EmitTypes DEF OrderInv
  <2>2. n # None
    BY <2>1, ControlAssumption
  <2> QED BY <2>1, <2>2 DEF Emits, Envelopes, BusTyped
<1>3. /\ k \in 0..1 /\ ring' \in Seq(Envelopes) /\ Len(ring') = Len(ring) + 1 - k
      /\ Len(ring') <= EVENT_RING /\ Len(ring') >= 1 /\ k <= Len(ring)
      /\ \A i \in 1..(Len(ring) - k) : ring'[i] = ring[i + k]
      /\ ring'[Len(ring')] = env
  BY <1>1, <1>2, RingMoves
<1> HIDE DEF env, n, k
<1>4. /\ emitting'[e] = n /\ emitting' \in [Emitters -> Emits \cup {None}]
      /\ \A x \in Emitters : x # e => emitting'[x] = emitting[x]
  BY <1>1, <1>2 DEF BusTyped
<1>5. BusTyped'
  BY <1>1, <1>2, <1>3, <1>4 DEF BusTyped
<1>6. /\ ring \in Seq(Envelopes) /\ Len(ring) \in Nat /\ DOMAIN ring = 1..Len(ring)
      /\ Len(ring') \in Nat /\ DOMAIN ring' = 1..Len(ring')
      /\ \A i \in 1..Len(ring) : ring[i].seq \in Nat
  <2>1. ring \in Seq(Envelopes)
    BY DEF BusTyped
  <2>2. \A i \in 1..Len(ring) : ring[i] \in Envelopes
    BY <2>1
  <2>3. \A v \in Envelopes : v.seq \in Nat
    BY DEF Envelopes
  <2> QED BY <1>3, <2>1, <2>2, <2>3
<1>7. \A i \in DOMAIN ring' : i # Len(ring') => i \in 1..(Len(ring) - k) /\ i + k \in DOMAIN ring
  BY <1>3, <1>6
<1>8. \A r \in rung : r \in Nat
  BY DEF BusTyped
<1>9. ASSUME inorder' PROVE \A r \in rung : r < env.seq
  <2>1. inorder /\ \A i \in DOMAIN ring : ring[i].seq < env.seq
    BY <1>0, <1>9 DEF Ahead
  <2>2. ASSUME NEW r \in rung PROVE r < env.seq
    <3>1. (\E i \in DOMAIN ring : ring[i].seq = r) \/ (ring # <<>> /\ r < ring[1].seq)
      BY <2>1, <2>2 DEF OrderInv
    <3>2. ring # <<>> => 1 \in DOMAIN ring
      BY <1>6
    <3> QED BY <1>2, <1>6, <1>8, <2>1, <3>1, <3>2
  <2> QED BY <2>2
<1>10. \A i \in DOMAIN ring' : ring'[i].seq \in rung'
  <2>1. ASSUME NEW i \in DOMAIN ring' PROVE ring'[i].seq \in rung'
    <3>1. CASE i = Len(ring')
      BY <1>1, <1>3, <3>1
    <3>2. CASE i # Len(ring')
      BY <1>1, <1>3, <1>7, <3>2 DEF OrderInv
    <3> QED BY <3>1, <3>2
  <2> QED BY <2>1
<1>11. ASSUME inorder', NEW i \in DOMAIN ring', NEW j \in DOMAIN ring', i < j
       PROVE  ring'[i].seq < ring'[j].seq
  <2>1. inorder /\ i # Len(ring')
    BY <1>0, <1>6, <1>11
  <2>2. ring'[i] = ring[i + k] /\ i + k \in DOMAIN ring
    BY <1>3, <1>7, <2>1
  <2>3. CASE j = Len(ring')
    BY <1>3, <1>9, <1>11, <2>2, <2>3 DEF OrderInv
  <2>4. CASE j # Len(ring')
    <3>1. ring'[j] = ring[j + k] /\ j + k \in DOMAIN ring /\ i + k < j + k
      BY <1>3, <1>6, <1>7, <1>11, <2>4
    <3> QED BY <2>1, <2>2, <3>1 DEF OrderInv
  <2> QED BY <2>3, <2>4
<1>12. ASSUME inorder', NEW r \in rung'
       PROVE  (\E i \in DOMAIN ring' : ring'[i].seq = r) \/ (ring' # <<>> /\ r < ring'[1].seq)
  <2>0. inorder /\ ring' # <<>> /\ 1 \in DOMAIN ring' /\ Len(ring') \in DOMAIN ring'
    BY <1>0, <1>3, <1>6, <1>12
  <2>1. CASE r = env.seq
    BY <1>3, <2>0, <2>1
  <2>2. ASSUME r \in rung, NEW i \in DOMAIN ring, ring[i].seq = r
        PROVE  (\E h \in DOMAIN ring' : ring'[h].seq = r) \/ r < ring'[1].seq
    <3>1. CASE i > k
      <4>1. i - k \in 1..(Len(ring) - k) /\ (i - k) + k = i
        BY <1>3, <1>6, <3>1
      <4>2. i - k \in DOMAIN ring'
        BY <1>3, <1>6, <4>1
      <4> QED BY <1>3, <2>2, <4>1, <4>2
    <3>2. CASE ~(i > k)
      <4>1. i = 1 /\ k = 1
        BY <1>3, <1>6, <3>2
      <4>2. CASE Len(ring') = 1
        BY <1>3, <1>9, <1>12, <2>2, <4>2
      <4>3. CASE Len(ring') # 1
        <5>1. 1 \in 1..(Len(ring) - k) /\ ring'[1] = ring[2] /\ 2 \in DOMAIN ring
          BY <1>3, <1>6, <4>1, <4>3
        <5> QED BY <2>0, <2>2, <4>1, <5>1 DEF OrderInv
      <4> QED BY <4>2, <4>3
    <3> QED BY <3>1, <3>2
  <2>3. ASSUME r \in rung, ring # <<>>, r < ring[1].seq
        PROVE  r < ring'[1].seq
    <3>1. CASE Len(ring') = 1
      BY <1>3, <1>9, <1>12, <2>3, <3>1
    <3>2. CASE Len(ring') # 1
      <4>1. 1 \in 1..(Len(ring) - k) /\ ring'[1] = ring[1 + k] /\ 1 + k \in DOMAIN ring /\ 1 \in DOMAIN ring
        BY <1>3, <1>6, <3>2
      <4>2. k = 0 \/ ring[1].seq < ring[1 + k].seq
        BY <1>3, <2>0, <4>1 DEF OrderInv
      <4> QED BY <1>6, <1>8, <2>3, <4>1, <4>2
    <3> QED BY <3>1, <3>2
  <2> QED BY <1>1, <1>12, <2>0, <2>1, <2>2, <2>3 DEF OrderInv
<1>13. ASSUME NEW x \in Emitters, emitting'[x] # None
       PROVE  /\ emitting'[x].stage = "ring" => emitting'[x].env.seq < seq'
              /\ emitting'[x].stage = "send" => emitting'[x].env.seq \in rung'
  BY <1>1, <1>2, <1>4, <1>13 DEF OrderInv
<1>14. \A i \in DOMAIN bus' : bus'[i].seq \in rung'
  BY <1>1 DEF OrderInv
<1>15. inorder' => \A i, j \in DOMAIN bus' : i < j => bus'[i].seq < bus'[j].seq
  BY <1>1 DEF OrderInv
<1>16. OrderInv'
  BY <1>10, <1>11, <1>12, <1>13, <1>14, <1>15 DEF OrderInv
<1>17. Sending' = Sending \cup {env.seq}
  <2>1. \A x \in Emitters :
          (emitting'[x] # None /\ emitting'[x].stage = "send")
            <=> (x = e \/ (emitting[x] # None /\ emitting[x].stage = "send"))
    BY <1>2, <1>4
  <2>2. \A x \in Emitters : x # e => emitting'[x] = emitting[x]
    BY <1>4
  <2>3. emitting[e].stage # "send" /\ emitting'[e].env.seq = env.seq
    BY <1>1, <1>2, <1>4
  <2> QED BY <2>1, <2>2, <2>3 DEF Sending
<1>18. env.seq \in Nat
  BY <1>2 DEF BusTyped
<1> QED BY <1>0, <1>1, <1>5, <1>9, <1>16, <1>17, <1>18

\* tx.send: in order, the number is larger than any on the channel.
LEMMA SendKeeps ==
  ASSUME BusTyped, OrderInv, NEW e \in Emitters, Send(e)
  PROVE  /\ BusTyped' /\ OrderInv' /\ UNCHANGED <<seq, ring, rung>> /\ (inorder' => inorder)
         /\ Len(bus') = Len(bus) + 1 /\ \A i \in 1..Len(bus) : bus'[i] = bus[i]
         /\ \E n \in Nat : /\ bus'[Len(bus) + 1].seq = n /\ n \in Sending
                           /\ Sending' \subseteq Sending
                           /\ \A r \in Sending : r = n \/ r \in Sending'
                           /\ inorder' => \A i \in DOMAIN bus : bus[i].seq < n
<1> DEFINE env == emitting[e].env
<1>1. /\ emitting[e] # None /\ emitting[e].stage = "send" /\ emitting' = [emitting EXCEPT ![e] = None]
      /\ bus' = Append(bus, env) /\ inorder' = (inorder /\ Ahead(bus, env.seq))
      /\ UNCHANGED <<seq, ring, rung>>
  BY DEF Send
<1>0. inorder' => inorder /\ Ahead(bus, env.seq)
  BY <1>1, Zenon
<1>2. env \in Envelopes /\ env.seq \in Nat /\ env.seq \in rung /\ env.seq \in Sending
  <2>1. env \in Envelopes /\ env.seq \in rung
    BY <1>1, EmitTypes DEF OrderInv
  <2> QED BY <1>1, <2>1 DEF Envelopes, Sending
<1> HIDE DEF env
<1>3. /\ bus \in Seq(Envelopes) /\ Len(bus) \in Nat /\ DOMAIN bus = 1..Len(bus)
  BY DEF BusTyped
<1>4. /\ bus' \in Seq(Envelopes) /\ Len(bus') = Len(bus) + 1 /\ DOMAIN bus' = 1..(Len(bus) + 1)
      /\ \A i \in 1..Len(bus) : bus'[i] = bus[i]
      /\ bus'[Len(bus) + 1] = env
  BY <1>1, <1>2, <1>3, AppendProperties
<1>5. /\ emitting'[e] = None /\ emitting' \in [Emitters -> Emits \cup {None}]
      /\ \A x \in Emitters : x # e => emitting'[x] = emitting[x]
  BY <1>1 DEF BusTyped
<1>6. inorder' \in BOOLEAN
  BY <1>1
<1>7. BusTyped'
  BY <1>1, <1>4, <1>5, <1>6 DEF BusTyped
<1>8. \A i \in DOMAIN bus' : bus'[i].seq \in rung'
  <2>1. ASSUME NEW i \in DOMAIN bus' PROVE bus'[i].seq \in rung'
    <3>1. CASE i = Len(bus) + 1
      BY <1>1, <1>2, <1>4, <3>1
    <3>2. CASE i \in 1..Len(bus)
      BY <1>1, <1>3, <1>4, <3>2 DEF OrderInv
    <3> QED BY <1>3, <1>4, <3>1, <3>2
  <2> QED BY <2>1
<1>9. inorder' => \A i \in DOMAIN bus : bus[i].seq < env.seq
  BY <1>0 DEF Ahead
<1>10. ASSUME inorder', NEW i \in DOMAIN bus', NEW j \in DOMAIN bus', i < j
       PROVE  bus'[i].seq < bus'[j].seq
  <2>1. i \in 1..Len(bus) /\ inorder
    BY <1>0, <1>3, <1>4, <1>10
  <2>2. CASE j = Len(bus) + 1
    BY <1>3, <1>4, <1>9, <1>10, <2>1, <2>2
  <2>3. CASE j \in 1..Len(bus)
    BY <1>3, <1>4, <1>10, <2>1, <2>3 DEF OrderInv
  <2> QED BY <1>3, <1>4, <2>2, <2>3
<1>11. ASSUME NEW x \in Emitters, emitting'[x] # None
       PROVE  /\ emitting'[x].stage = "ring" => emitting'[x].env.seq < seq'
              /\ emitting'[x].stage = "send" => emitting'[x].env.seq \in rung'
  BY <1>1, <1>5, <1>11 DEF OrderInv
<1>12. \A i \in DOMAIN ring' : ring'[i].seq \in rung'
  BY <1>1 DEF OrderInv
<1>13. inorder' =>
         /\ \A i, j \in DOMAIN ring' : i < j => ring'[i].seq < ring'[j].seq
         /\ \A r \in rung' : \/ \E i \in DOMAIN ring' : ring'[i].seq = r
                             \/ ring' # <<>> /\ r < ring'[1].seq
  BY <1>0, <1>1 DEF OrderInv
<1>14. OrderInv'
  BY <1>8, <1>10, <1>11, <1>12, <1>13 DEF OrderInv
<1>15. Sending' \subseteq Sending /\ \A r \in Sending : r = env.seq \/ r \in Sending'
  <2>1. \A x \in Emitters : x # e => emitting'[x] = emitting[x]
    BY <1>5
  <2> QED BY <1>5, <2>1 DEF Sending, env
<1> QED BY <1>0, <1>1, <1>2, <1>4, <1>7, <1>9, <1>14, <1>15

---------------------------------------------------------------------------
\* Steps of the bus leave the service as it is.
LEMMA BusStepTyped ==
  ASSUME BusTyped, OrderInv, CtlTyped, NEW e \in Emitters, EmitStep(e), UNCHANGED ctlVars
  PROVE  BusTyped' /\ OrderInv' /\ CtlTyped'
<1>1. BusTyped' /\ OrderInv' /\ Len(bus) <= Len(bus')
  <2>1. Len(bus) \in Nat
    BY DEF BusTyped
  <2> QED BY <2>1, TakeSeqKeeps, EnterRingKeeps, SendKeeps DEF EmitStep
<1>2. Len(bus) \in Nat /\ Len(bus') \in Nat
  BY <1>1 DEF BusTyped
<1>3. ASSUME NEW c \in Clients, Up(c)' PROVE conn'[c].pos <= Len(bus') /\ Len(conn'[c].out) <= OutCap
  <2>1. conn' = conn /\ Up(c)
    BY <1>3 DEF ctlVars, Up
  <2>2. conn[c].pos \in Nat
    BY <2>1 DEF CtlTyped, Up, Conns
  <2> QED BY <1>1, <1>2, <2>1, <2>2 DEF CtlTyped
<1> QED BY <1>1, <1>3 DEF CtlTyped, ctlVars

\* A connection.
LEMMA ConnTypes ==
  ASSUME CtlTyped, NEW c \in Clients, Up(c)
  PROVE  /\ conn[c] \in Conns /\ conn[c].pos \in Nat /\ conn[c].out \in Seq(OutFrames)
         /\ conn[c].deaf \in BOOLEAN /\ conn[c].pos <= Len(bus) /\ Len(conn[c].out) <= OutCap
BY DEF CtlTyped, Up, Conns

\* A request being served.
LEMMA ServingTypes ==
  ASSUME CtlTyped, NEW c \in Clients, serving[c] # None
  PROVE  /\ serving[c] \in Servings
         /\ serving[c].pc = "dispatch" => serving[c].req \in Reqs
         /\ serving[c].pc = "insert" => serving[c].req.t \in Tasks
         /\ serving[c].pc = "reply" => serving[c].reply \in Replies
BY DEF CtlTyped, Servings

\* Attaching and leaving keep the types.
LEMMA ConnectionTyped ==
  ASSUME BusTyped, CtlTyped, NEW c \in Clients,
         Disconnect(c) \/ \E roles \in {{"observer"}, {"control"}} : Attach(c, roles),
         mark'[c] \in Nat
  PROVE  CtlTyped'
<1>1. CASE Disconnect(c)
  <2>1. /\ conn' = [conn EXCEPT ![c] = None] /\ cl' = [cl EXCEPT ![c] = Idle]
        /\ \E m : mark' = [mark EXCEPT ![c] = m]
        /\ UNCHANGED <<bus, serving, seen, warned, synced, tasks, worker, unlisted, cancels>>
    BY <1>1 DEF Disconnect, busVars
  <2>2. mark' \in [Clients -> Nat]
    BY <2>1 DEF CtlTyped
  <2>3. conn' \in [Clients -> Conns \cup {None}] /\ \A d \in Clients : Up(d)' => d # c /\ conn'[d] = conn[d]
    BY <2>1 DEF CtlTyped, Up
  <2>4. \A d \in Clients : cl'[d].pc \in {"idle", "called", "started", "waiting"}
    BY <2>1 DEF CtlTyped, Idle
  <2> QED BY <2>1, <2>2, <2>3, <2>4 DEF CtlTyped, Up
<1>2. ASSUME NEW roles \in {{"observer"}, {"control"}}, Attach(c, roles) PROVE CtlTyped'
  <2> DEFINE n == [roles |-> roles, pos |-> Len(bus), out |-> <<>>, deaf |-> FALSE]
  <2>1. /\ conn' = [conn EXCEPT ![c] = n]
        /\ warned' = [warned EXCEPT ![c] = FALSE] /\ synced' = [synced EXCEPT ![c] = FALSE]
        /\ UNCHANGED <<bus, serving, cl, seen, mark, tasks, worker, unlisted, cancels>>
    BY <1>2 DEF Attach, busVars
  <2>2. Len(bus) \in Nat /\ Len(<<>>) = 0 /\ 0 <= OutCap
    BY ControlAssumption DEF BusTyped
  <2>3. n \in Conns /\ n.pos <= Len(bus) /\ Len(n.out) <= OutCap
    BY <2>2 DEF Conns
  <2> HIDE DEF n
  <2>4. /\ conn' \in [Clients -> Conns \cup {None}]
        /\ \A d \in Clients : Up(d)' => (d = c /\ conn'[d] = n) \/ (Up(d) /\ conn'[d] = conn[d])
    BY <2>1, <2>3 DEF CtlTyped, Up
  <2> QED BY <2>1, <2>3, <2>4 DEF CtlTyped
<1> QED BY <1>1, <1>2

\* One connection changes, and keeps its types.
LEMMA OneConnTyped ==
  ASSUME BusTyped, CtlTyped, NEW c \in Clients, NEW n \in Conns, conn' = [conn EXCEPT ![c] = n],
         n.pos <= Len(bus), Len(n.out) <= OutCap, UNCHANGED bus
  PROVE  /\ conn' \in [Clients -> Conns \cup {None}] /\ conn'[c] = n
         /\ \A d \in Clients : Up(d)' => conn'[d].pos <= Len(bus') /\ Len(conn'[d].out) <= OutCap
BY DEF CtlTyped, Up

\* The forwarder keeps the types, and adds one frame.
LEMMA ForwardTyped ==
  ASSUME BusTyped, CtlTyped, NEW c \in Clients, Forward(c)
  PROVE  /\ CtlTyped' /\ Up(c) /\ conn[c].pos < Len(bus)
         /\ \E n \in Conns :
              /\ conn' = [conn EXCEPT ![c] = n]
              /\ n.roles = conn[c].roles /\ n.deaf = conn[c].deaf
              /\ \/ n.out = Append(conn[c].out, [k |-> "lag"]) /\ n.pos >= conn[c].pos
                 \/ /\ n.out = Append(conn[c].out, [k |-> "ev", env |-> bus[conn[c].pos + 1]])
                    /\ n.pos = conn[c].pos + 1
<1>1. /\ Up(c) /\ conn[c].pos < Len(bus) /\ Len(conn[c].out) < OutCap
      /\ UNCHANGED <<bus, serving, cl, seen, mark, warned, synced, tasks, worker, unlisted, cancels>>
  BY DEF Forward, Room, busVars
<1>2. /\ conn[c] \in Conns /\ conn[c].pos \in Nat /\ conn[c].out \in Seq(OutFrames)
  BY <1>1, ConnTypes
<1>3. Len(bus) \in Nat /\ bus \in Seq(Envelopes) /\ BusCap \in Nat /\ OutCap \in Nat
  BY EventBusAssumption, ControlAssumption DEF BusTyped
<1> DEFINE lag == Lagged(conn[c].pos)
           frame == IF lag THEN [k |-> "lag"] ELSE [k |-> "ev", env |-> bus[conn[c].pos + 1]]
           pos == IF lag THEN Len(bus) - BusCap ELSE conn[c].pos + 1
           n == [conn[c] EXCEPT !.out = Append(@, frame), !.pos = pos]
<1>4. conn' = [conn EXCEPT ![c] = n]
  <2>1. conn' = [conn EXCEPT ![c].out = Append(@, frame),
                             ![c].pos = IF Lagged(@) THEN Len(bus) - BusCap ELSE @ + 1]
    BY DEF Forward
  <2>2. conn \in [Clients -> Conns \cup {None}]
    BY DEF CtlTyped
  <2> HIDE DEF frame
  <2> DEFINE m == [conn EXCEPT ![c].out = Append(@, frame)]
  <2>3. /\ DOMAIN m = Clients /\ m[c] = [conn[c] EXCEPT !.out = Append(conn[c].out, frame)]
        /\ m[c].pos = conn[c].pos
    BY <1>2, <2>2 DEF Conns
  <2>4. conn' = [m EXCEPT ![c].pos = IF Lagged(@) THEN Len(bus) - BusCap ELSE @ + 1]
    BY <2>1
  <2>5. conn'[c] = n
    BY <2>3, <2>4
  <2>6. DOMAIN conn' = Clients /\ \A d \in Clients : d # c => conn'[d] = conn[d]
    BY <2>1, <2>2
  <2>7. conn' = [d \in Clients |-> conn'[d]]
    BY <2>1, <2>2
  <2> HIDE DEF n, m
  <2> QED BY <2>2, <2>5, <2>6, <2>7
<1>5. pos \in Nat /\ pos <= Len(bus) /\ pos >= conn[c].pos
  BY <1>1, <1>2, <1>3 DEF Lagged
<1>6. frame \in OutFrames
  <2>1. bus[conn[c].pos + 1] \in Envelopes
    BY <1>1, <1>2, <1>3
  <2> QED BY <2>1 DEF OutFrames
<1>7. /\ \/ frame = [k |-> "lag"]
         \/ frame = [k |-> "ev", env |-> bus[conn[c].pos + 1]] /\ pos = conn[c].pos + 1
  OBVIOUS
<1> HIDE DEF lag, frame, pos
<1>8. /\ n \in Conns /\ n.out = Append(conn[c].out, frame) /\ n.pos = pos
      /\ n.roles = conn[c].roles /\ n.deaf = conn[c].deaf
  <2>1. PICK o : o = Append(conn[c].out, frame)
    OBVIOUS
  <2>2. o \in Seq(OutFrames)
    BY <1>2, <1>6, <2>1
  <2>3. n = [conn[c] EXCEPT !.out = o, !.pos = pos]
    BY <2>1
  <2> HIDE DEF n
  <2>4. pos \in Nat /\ conn[c] \in Conns
    BY <1>2, <1>5
  <2>5. /\ n \in Conns /\ n.out = o /\ n.pos = pos
        /\ n.roles = conn[c].roles /\ n.deaf = conn[c].deaf
    BY <2>2, <2>3, <2>4 DEF Conns
  <2> QED BY <2>1, <2>5
<1> HIDE DEF n
<1>9. Len(n.out) <= OutCap
  BY <1>1, <1>2, <1>3, <1>6, <1>8
<1>10. CtlTyped'
  BY <1>1, <1>4, <1>5, <1>8, <1>9, OneConnTyped DEF CtlTyped
<1> QED BY <1>1, <1>4, <1>5, <1>7, <1>8, <1>10

---------------------------------------------------------------------------
Base == BusTyped /\ OrderInv /\ CtlTyped /\ TaskInv /\ EmitInv

\* A client is no task.
LEMMA Apart ==
  /\ Clients \subseteq Emitters /\ Tasks \subseteq Emitters
  /\ \A c \in Clients, t \in Tasks : c # t
  /\ {"work", "aborted", "ended", "none"} \cap Outcomes = {}
  /\ Outcomes \subseteq Terminal /\ None \notin Terminal \cup {"running"}
  /\ \A f \in Replies : [pc |-> "reply", reply |-> f] # None
BY ControlAssumption DEF Terminal

\* Steps that leave serving, the task table and the workers alone.
LEMMA TasksStand ==
  ASSUME TaskInv, UNCHANGED <<serving, tasks, worker, unlisted>>
  PROVE  TaskInv'
BY DEF TaskInv, Inserting, Serving, RunningIsRunning

\* The bus goes on while an emitter is in an emit.
LEMMA BusStepBase ==
  ASSUME Base, NEW e \in Emitters, EmitStep(e), UNCHANGED ctlVars
  PROVE  Base'
<1>1. BusTyped' /\ OrderInv' /\ CtlTyped'
  BY BusStepTyped DEF Base
<1>2. TaskInv'
  BY TasksStand DEF Base, ctlVars
<1>3. emitting[e] # None /\ \E n : emitting' = [emitting EXCEPT ![e] = n]
  BY DEF EmitStep, TakeSeq, EnterRing, Send
<1>4. \A x \in Emitters : x # e => emitting'[x] = emitting[x]
  BY <1>3 DEF Base, BusTyped
<1>5. EmitInv'
  BY <1>3, <1>4, Apart DEF Base, EmitInv, Serving, ctlVars
<1> QED BY <1>1, <1>2, <1>5 DEF Base

\* One request moves on without touching the bus or the tasks.
LEMMA ServingMoves ==
  ASSUME Base, NEW c \in Clients, NEW s \in Servings \cup {None}, ~Serving(c, "insert"),
         serving' = [serving EXCEPT ![c] = s], s # None => s.pc # "insert",
         emitting[c] # None => s # None /\ s.pc = "reply",
         UNCHANGED <<busVars, tasks, worker, unlisted>>
  PROVE  /\ BusTyped' /\ OrderInv' /\ TaskInv' /\ EmitInv'
         /\ serving' \in [Clients -> Servings \cup {None}] /\ serving'[c] = s
         /\ \A d \in Clients : d # c => serving'[d] = serving[d]
<1>1. /\ serving' \in [Clients -> Servings \cup {None}] /\ serving'[c] = s
      /\ \A d \in Clients : d # c => serving'[d] = serving[d]
  BY DEF Base, CtlTyped
<1>2. BusTyped' /\ OrderInv'
  BY DEF Base, BusTyped, OrderInv, busVars
<1>3. \A d \in Clients, t \in Tasks : Inserting(d, t)' <=> Inserting(d, t)
  BY <1>1 DEF Inserting, Serving
<1>4. TaskInv'
  BY <1>3 DEF Base, TaskInv, RunningIsRunning
<1>5. EmitInv'
  BY <1>1 DEF Base, EmitInv, Serving, busVars
<1> QED BY <1>1, <1>2, <1>4, <1>5

\* Client::call.
LEMMA CallBase ==
  ASSUME Base, NEW c \in Clients, NEW req \in Requests(c), Call(c, req)
  PROVE  Base' /\ UNCHANGED busVars
<1> DEFINE s == [pc |-> "dispatch", req |-> req, roles |-> conn[c].roles]
           k == [pc |-> "called", req |-> req]
<1>1. /\ Up(c) /\ serving[c] = None /\ cl' = [cl EXCEPT ![c] = k] /\ serving' = [serving EXCEPT ![c] = s]
      /\ cancels' = IF req.m = "task.cancel" THEN cancels + 1 ELSE cancels
      /\ UNCHANGED <<busVars, conn, seen, mark, warned, synced, tasks, worker, unlisted>>
  BY DEF Call
<1>2. req \in Reqs /\ (req.m = "task.cancel" => cancels < MaxCancels)
  BY DEF Requests, Reqs, Base, CtlTyped
<1>3. s \in Servings /\ s.pc = "dispatch"
  BY <1>1, <1>2, ConnTypes DEF Base, Servings, Conns
<1>4. k.pc = "called"
  OBVIOUS
<1> HIDE DEF s, k
<1>5. ~Serving(c, "insert") /\ emitting[c] = None
  BY <1>1 DEF Serving, Base, EmitInv
<1>6. /\ BusTyped' /\ OrderInv' /\ TaskInv' /\ EmitInv' /\ serving' \in [Clients -> Servings \cup {None}]
  BY <1>1, <1>3, <1>5, ServingMoves
<1>7. cancels' \in 0..MaxCancels
  BY <1>1, <1>2, ControlAssumption DEF Base, CtlTyped
<1>8. DOMAIN cl' = Clients /\ \A d \in Clients : cl'[d].pc \in {"idle", "called", "started", "waiting"}
  BY <1>1, <1>4 DEF Base, CtlTyped
<1>9. CtlTyped'
  BY <1>1, <1>6, <1>7, <1>8 DEF Base, CtlTyped, Up, busVars
<1> QED BY <1>1, <1>6, <1>9 DEF Base

\* The answers that start nothing: a refusal, a replay.
LEMMA AnswerBase ==
  ASSUME Base, NEW c \in Clients, Refuse(c) \/ events_replay(c)
  PROVE  /\ Base' /\ Serving(c, "dispatch")
         /\ UNCHANGED <<busVars, conn, cl, seen, mark, warned, synced, tasks, worker, unlisted, cancels>>
         /\ \E f \in Replies :
              /\ serving' = [serving EXCEPT ![c] = [pc |-> "reply", reply |-> f]]
              /\ f.k = "replay" => /\ f.r = replay(serving[c].req.from)
                                   /\ serving[c].req.m = "events.replay"
<1>1. /\ Serving(c, "dispatch") /\ serving[c] # None
      /\ UNCHANGED <<busVars, conn, cl, seen, mark, warned, synced, tasks, worker, unlisted, cancels>>
  BY DEF Refuse, events_replay, Serving
<1>2. \E f \in Replies :
              /\ serving' = [serving EXCEPT ![c] = [pc |-> "reply", reply |-> f]]
              /\ f.k = "replay" => /\ f.r = replay(serving[c].req.from)
                                   /\ serving[c].req.m = "events.replay"
  <2>1. CASE Refuse(c)
    <3>1. [k |-> "err"] \in Replies /\ [k |-> "err"].k # "replay"
      BY DEF Replies
    <3> QED BY <2>1, <3>1 DEF Refuse, ReplyWith
  <2>2. CASE events_replay(c)
    <3> DEFINE f == [k |-> "replay", r |-> replay(serving[c].req.from)]
    <3>1. ring \in Seq(Envelopes)
      BY DEF Base, BusTyped
    <3>2. ToSet(ring) \subseteq Envelopes
      BY <3>1 DEF ToSet
    <3>3. f \in Replies
      BY <3>2 DEF Replies, replay
    <3>4. f.r = replay(serving[c].req.from)
      OBVIOUS
    <3>5. /\ serving' = [serving EXCEPT ![c] = [pc |-> "reply", reply |-> f]]
          /\ serving[c].req.m = "events.replay"
      BY <2>2 DEF events_replay, ReplyWith
    <3> HIDE DEF f
    <3> QED BY <3>3, <3>4, <3>5
  <2> QED BY <2>1, <2>2
<1>3. PICK f \in Replies : serving' = [serving EXCEPT ![c] = [pc |-> "reply", reply |-> f]]
  BY <1>2
<1>4. [pc |-> "reply", reply |-> f] \in Servings
  BY DEF Servings
<1>5. ~Serving(c, "insert") /\ emitting[c] = None
  BY <1>1 DEF Serving, Base, EmitInv
<1>6. /\ BusTyped' /\ OrderInv' /\ TaskInv' /\ EmitInv' /\ serving' \in [Clients -> Servings \cup {None}]
  BY <1>1, <1>3, <1>4, <1>5, ServingMoves
<1>7. CtlTyped'
  BY <1>1, <1>6 DEF Base, CtlTyped, Up, busVars
<1> QED BY <1>1, <1>2, <1>6, <1>7 DEF Base

\* The reply goes out, or nowhere.
LEMMA ReplyBase ==
  ASSUME Base, NEW c \in Clients, Reply(c)
  PROVE  /\ Base' /\ Serving(c, "reply") /\ serving[c].reply \in Replies
         /\ serving' = [serving EXCEPT ![c] = None]
         /\ UNCHANGED <<busVars, cl, seen, mark, warned, synced, tasks, worker, unlisted, cancels>>
         /\ IF Up(c) THEN \E n \in Conns :
                            /\ conn' = [conn EXCEPT ![c] = n] /\ n.pos = conn[c].pos
                            /\ n.out = Append(conn[c].out, serving[c].reply)
            ELSE UNCHANGED conn
<1>1. /\ Serving(c, "reply") /\ serving[c] # None /\ emitting[c] = None
      /\ Up(c) => Len(conn[c].out) < OutCap
      /\ serving' = [serving EXCEPT ![c] = None]
      /\ UNCHANGED <<busVars, cl, seen, mark, warned, synced, tasks, worker, unlisted, cancels>>
      /\ IF Up(c) THEN conn' = [conn EXCEPT ![c].out = Append(@, serving[c].reply)] ELSE UNCHANGED conn
  BY DEF Reply, Serving, Room, Push
<1>2. serving[c].reply \in Replies
  BY <1>1, ServingTypes DEF Base, Serving
<1>3. ~Serving(c, "insert")
  BY <1>1 DEF Serving
<1>4. /\ BusTyped' /\ OrderInv' /\ TaskInv' /\ EmitInv' /\ serving' \in [Clients -> Servings \cup {None}]
  BY <1>1, <1>3, ServingMoves
<1>5. CASE Up(c)
  <2>1. PICK o : o = Append(conn[c].out, serving[c].reply)
    OBVIOUS
  <2>2. conn[c] \in Conns /\ conn[c].pos <= Len(bus) /\ conn[c].out \in Seq(OutFrames)
    BY <1>5, ConnTypes DEF Base
  <2>3. o \in Seq(OutFrames) /\ Len(o) <= OutCap
    BY <1>1, <1>2, <1>5, <2>1, <2>2, ControlAssumption DEF OutFrames
  <2>4. PICK n : n = [conn[c] EXCEPT !.out = o]
    OBVIOUS
  <2>5. n \in Conns /\ n.out = o /\ n.pos = conn[c].pos
    BY <2>2, <2>3, <2>4 DEF Conns
  <2>6. conn' = [conn EXCEPT ![c] = n]
    BY <1>1, <1>5, <2>1, <2>4
  <2>7. /\ conn' \in [Clients -> Conns \cup {None}]
        /\ \A d \in Clients : Up(d)' => conn'[d].pos <= Len(bus') /\ Len(conn'[d].out) <= OutCap
    BY <1>1, <2>2, <2>3, <2>5, <2>6, OneConnTyped DEF Base, busVars
  <2>8. CtlTyped'
    BY <1>1, <1>4, <2>7 DEF Base, CtlTyped
  <2> QED BY <1>1, <1>2, <1>4, <1>5, <2>1, <2>5, <2>6, <2>8 DEF Base
<1>6. CASE ~Up(c)
  <2>1. CtlTyped'
    BY <1>1, <1>4, <1>6 DEF Base, CtlTyped, Up, busVars
  <2> QED BY <1>1, <1>2, <1>4, <1>6, <2>1 DEF Base
<1> QED BY <1>5, <1>6

\* spawn_task, first half: a future for a task nobody knows.
LEMMA SpawnBase ==
  ASSUME Base, NEW c \in Clients, SpawnTask(c)
  PROVE  /\ Base' /\ UNCHANGED <<busVars, conn, seen, mark, warned, synced>>
         /\ \E s : serving' = [serving EXCEPT ![c] = s] /\ s.pc = "insert"
<1> DEFINE t == serving[c].req.t
           s == [serving[c] EXCEPT !.pc = "insert"]
<1>1. /\ Serving(c, "dispatch") /\ serving[c] # None /\ serving[c].pc = "dispatch"
      /\ serving[c].req.m = "offer.fetch" /\ worker[t] = "none"
      /\ worker' = [worker EXCEPT ![t] = "work"] /\ serving' = [serving EXCEPT ![c] = s]
      /\ UNCHANGED <<busVars, conn, cl, seen, mark, warned, synced, tasks, unlisted, cancels>>
  BY DEF SpawnTask, Serving
<1>2. serving[c] \in Servings /\ serving[c].req \in Reqs
  BY <1>1, ServingTypes DEF Base
<1>3. t \in Tasks
  BY <1>1, <1>2 DEF Reqs
<1>4. s \in Servings /\ s.pc = "insert" /\ s.req.t = t
  BY <1>1, <1>2 DEF Servings, Reqs
<1> HIDE DEF s, t
<1>5. /\ serving' \in [Clients -> Servings \cup {None}] /\ serving'[c] = s
      /\ \A d \in Clients : d # c => serving'[d] = serving[d]
  BY <1>1, <1>4 DEF Base, CtlTyped
<1>6. /\ worker' \in [Tasks -> {"none", "work", "aborted", "ended"} \cup Outcomes] /\ worker'[t] = "work"
      /\ \A u \in Tasks : u # t => worker'[u] = worker[u]
  BY <1>1, <1>3 DEF Base, CtlTyped
<1>7. CtlTyped'
  BY <1>1, <1>5, <1>6 DEF Base, CtlTyped, Up, busVars
<1>8. BusTyped' /\ OrderInv'
  BY <1>1 DEF Base, BusTyped, OrderInv, busVars
<1>9. emitting[c] = None /\ emitting[t] = None /\ UNCHANGED emitting
  BY <1>1, <1>3 DEF Base, EmitInv, Serving, busVars
<1>10. EmitInv'
  BY <1>5, <1>6, <1>9 DEF Base, EmitInv, Serving
<1>11. tasks[t] = None /\ \A d \in Clients : ~Inserting(d, t)
  BY <1>1, <1>3 DEF Base, TaskInv
<1>12. ASSUME NEW d \in Clients, NEW u \in Tasks, Inserting(d, u)'
       PROVE  (d = c /\ u = t) \/ (d # c /\ u # t /\ Inserting(d, u))
  <2>1. CASE d = c
    BY <1>4, <1>5, <1>12, <2>1 DEF Inserting, Serving
  <2>2. CASE d # c
    BY <1>5, <1>11, <1>12, <2>2 DEF Inserting, Serving
  <2> QED BY <2>1, <2>2
<1>13. TaskInv'
  <2>1. \A u \in Tasks : worker'[u] = "none" => tasks'[u] = None
    BY <1>1, <1>6 DEF Base, TaskInv
  <2>2. ASSUME NEW d \in Clients, NEW u \in Tasks, Inserting(d, u)'
        PROVE  /\ tasks'[u] = None /\ worker'[u] # "none"
               /\ worker'[u] \in {"work"} \cup Outcomes \/ u \in unlisted'
               /\ \A x \in Clients : Inserting(x, u)' => x = d
    BY <1>1, <1>6, <1>11, <1>12, <2>2 DEF Base, TaskInv
  <2>3. RunningIsRunning'
    BY <1>1, <1>6 DEF Base, TaskInv, RunningIsRunning
  <2> QED BY <2>1, <2>2, <2>3 DEF TaskInv
<1> QED BY <1>1, <1>4, <1>7, <1>8, <1>10, <1>13 DEF Base

\* spawn_task, second half: the entry is made and announced.
LEMMA InsertBase ==
  ASSUME Base, NEW c \in Clients, InsertTask(c)
  PROVE  /\ Base' /\ Sending' = Sending
         /\ UNCHANGED <<seq, ring, bus, rung, inorder, conn, seen, mark, warned, synced>>
         /\ \E f : serving' = [serving EXCEPT ![c] = [pc |-> "reply", reply |-> f]] /\ f.k = "ok"
<1> DEFINE t == serving[c].req.t
           s == [pc |-> "reply", reply |-> [k |-> "ok"]]
<1>1. /\ Serving(c, "insert") /\ serving[c] # None /\ serving[c].pc = "insert"
      /\ tasks' = [tasks EXCEPT ![t] = "running"]
      /\ Emit(c, [task |-> t, state |-> "running"]) /\ serving' = [serving EXCEPT ![c] = s]
      /\ UNCHANGED <<seq, ring, bus, rung, inorder, conn, cl, seen, mark, warned, synced, worker,
                     unlisted, cancels>>
  BY DEF InsertTask, Serving, ReplyWith
<1>2. t \in Tasks
  BY <1>1, ServingTypes DEF Base
<1>3. [task |-> t, state |-> "running"] \in Events
  BY <1>2 DEF Events
<1>4. s \in Servings /\ s.pc = "reply" /\ s # None
  BY Apart DEF Servings, Replies
<1>5. \E f : s = [pc |-> "reply", reply |-> f] /\ f.k = "ok"
  OBVIOUS
<1> HIDE DEF s, t
<1>6. /\ serving' \in [Clients -> Servings \cup {None}] /\ serving'[c] = s
      /\ \A d \in Clients : d # c => serving'[d] = serving[d]
  BY <1>1, <1>4 DEF Base, CtlTyped
<1>7. /\ tasks' \in [Tasks -> {"running"} \cup Terminal \cup {None}] /\ tasks'[t] = "running"
      /\ \A u \in Tasks : u # t => tasks'[u] = tasks[u]
  BY <1>1, <1>2 DEF Base, CtlTyped
<1>8. emitting[c] = None
  BY <1>1 DEF Base, EmitInv, Serving
<1>9. BusTyped' /\ OrderInv' /\ Sending' = Sending
  BY <1>1, <1>3, <1>8, Apart, EmitCalled DEF Base
<1>10. \A x \in Emitters : x # c => emitting'[x] = emitting[x]
  BY <1>1 DEF Base, BusTyped, Emit
<1>11. CtlTyped'
  BY <1>1, <1>6, <1>7 DEF Base, CtlTyped, Up
<1>12. EmitInv'
  BY <1>1, <1>4, <1>6, <1>9, <1>10, Apart DEF Base, EmitInv, Serving, BusTyped
<1>13. /\ Inserting(c, t) /\ tasks[t] = None /\ worker[t] # "none"
       /\ worker[t] \in {"work"} \cup Outcomes \/ t \in unlisted
       /\ \A d \in Clients : Inserting(d, t) => d = c
  BY <1>1, <1>2 DEF Base, TaskInv, Inserting, t
<1>14. ASSUME NEW d \in Clients, NEW u \in Tasks, Inserting(d, u)'
       PROVE  d # c /\ u # t /\ Inserting(d, u)
  <2>1. d # c
    BY <1>4, <1>6, <1>14 DEF Inserting, Serving
  <2>2. Inserting(d, u)
    BY <1>6, <1>14, <2>1 DEF Inserting, Serving
  <2> QED BY <1>13, <2>1, <2>2
<1>15. TaskInv'
  <2>1. \A u \in Tasks : worker'[u] = "none" => tasks'[u] = None
    BY <1>1, <1>7, <1>13 DEF Base, TaskInv
  <2>2. ASSUME NEW d \in Clients, NEW u \in Tasks, Inserting(d, u)'
        PROVE  /\ tasks'[u] = None /\ worker'[u] # "none"
               /\ worker'[u] \in {"work"} \cup Outcomes \/ u \in unlisted'
               /\ \A x \in Clients : Inserting(x, u)' => x = d
    BY <1>1, <1>7, <1>14, <2>2 DEF Base, TaskInv
  <2>3. RunningIsRunning'
    BY <1>1, <1>7, <1>13 DEF Base, TaskInv, RunningIsRunning
  <2> QED BY <2>1, <2>2, <2>3 DEF TaskInv
<1> QED BY <1>1, <1>5, <1>9, <1>11, <1>12, <1>15 DEF Base

\* task_cancel: an abort reaches only a future that has its entry.
LEMMA CancelBase ==
  ASSUME Base, NEW c \in Clients, task_cancel(c)
  PROVE  /\ Base' /\ Sending' = Sending
         /\ UNCHANGED <<seq, ring, bus, rung, inorder, conn, seen, mark, warned, synced>>
         /\ \E f : serving' = [serving EXCEPT ![c] = [pc |-> "reply", reply |-> f]] /\ f.k # "replay"
<1> DEFINE t == serving[c].req.t
<1>1. /\ Serving(c, "dispatch") /\ serving[c] # None /\ serving[c].pc = "dispatch"
      /\ serving[c].req.m = "task.cancel"
      /\ UNCHANGED <<seq, ring, bus, rung, inorder, conn, cl, seen, mark, warned, synced,
                     unlisted, cancels>>
  BY DEF task_cancel, Serving
<1>2. t \in Tasks
  <2>1. serving[c].req \in Reqs
    BY <1>1, ServingTypes DEF Base
  <2> QED BY <1>1, <2>1 DEF Reqs
<1>3. emitting[c] = None /\ ~Serving(c, "insert")
  BY <1>1 DEF Base, EmitInv, Serving
<1>4. CASE tasks[t] = None
  <2> DEFINE s == [pc |-> "reply", reply |-> [k |-> "err"]]
  <2>1. serving' = [serving EXCEPT ![c] = s] /\ UNCHANGED <<emitting, tasks, worker>>
    BY <1>4 DEF task_cancel, ReplyWith
  <2>2. s \in Servings /\ s.pc = "reply"
    BY DEF Servings, Replies
  <2>3. \E f : s = [pc |-> "reply", reply |-> f] /\ f.k # "replay"
    OBVIOUS
  <2> HIDE DEF s
  <2>4. /\ BusTyped' /\ OrderInv' /\ TaskInv' /\ EmitInv' /\ serving' \in [Clients -> Servings \cup {None}]
    BY <1>1, <1>3, <2>1, <2>2, ServingMoves DEF busVars
  <2>5. CtlTyped'
    BY <1>1, <2>1, <2>4 DEF Base, CtlTyped, Up
  <2>6. Sending' = Sending
    BY <2>1 DEF Sending
  <2> QED BY <1>1, <2>1, <2>3, <2>4, <2>5, <2>6 DEF Base
<1>5. CASE tasks[t] # None
  <2> DEFINE s == [pc |-> "reply", reply |-> [k |-> "ok"]]
  <2>1. /\ serving' = [serving EXCEPT ![c] = s]
        /\ worker' = [worker EXCEPT ![t] = IF @ = "work" THEN "aborted" ELSE @]
        /\ tasks' = [tasks EXCEPT ![t] = "cancelled"]
        /\ Emit(c, [task |-> t, state |-> "cancelled"])
    BY <1>5 DEF task_cancel, ReplyWith
  <2>2. s \in Servings /\ s.pc = "reply" /\ s # None
    BY Apart DEF Servings, Replies
  <2>3. \E f : s = [pc |-> "reply", reply |-> f] /\ f.k # "replay"
    OBVIOUS
  <2> HIDE DEF s, t
  <2>4. [task |-> t, state |-> "cancelled"] \in Events
    BY <1>2 DEF Events, Terminal
  <2>5. BusTyped' /\ OrderInv' /\ Sending' = Sending
    BY <1>1, <1>3, <2>1, <2>4, Apart, EmitCalled DEF Base
  <2>6. /\ serving' \in [Clients -> Servings \cup {None}] /\ serving'[c] = s
        /\ \A d \in Clients : d # c => serving'[d] = serving[d]
    BY <2>1, <2>2 DEF Base, CtlTyped
  <2>7. /\ tasks' \in [Tasks -> {"running"} \cup Terminal \cup {None}] /\ tasks'[t] = "cancelled"
        /\ \A u \in Tasks : u # t => tasks'[u] = tasks[u]
    BY <1>2, <2>1 DEF Base, CtlTyped, Terminal
  <2>8. /\ worker' \in [Tasks -> {"none", "work", "aborted", "ended"} \cup Outcomes]
        /\ worker'[t] = (IF worker[t] = "work" THEN "aborted" ELSE worker[t])
        /\ \A u \in Tasks : u # t => worker'[u] = worker[u]
    BY <1>2, <2>1 DEF Base, CtlTyped
  <2>9. CtlTyped'
    BY <1>1, <2>6, <2>7, <2>8 DEF Base, CtlTyped, Up
  <2>10. \A x \in Emitters : x # c => emitting'[x] = emitting[x]
    BY <2>1 DEF Base, BusTyped, Emit
  <2>11. EmitInv'
    <3>1. \A d \in Clients : emitting'[d] # None => Serving(d, "reply")'
      BY <2>2, <2>6, <2>10, Apart DEF Base, EmitInv, Serving, CtlTyped
    <3>2. \A u \in Tasks : worker'[u] \in {"none", "work", "aborted"} => emitting'[u] = None
      BY <1>2, <2>8, <2>10, Apart DEF Base, EmitInv
    <3> QED BY <3>1, <3>2 DEF EmitInv
  <2>12. worker[t] # "none" /\ \A d \in Clients : ~Inserting(d, t)
    BY <1>2, <1>5 DEF Base, TaskInv, t
  <2>13. \A d \in Clients, u \in Tasks : Inserting(d, u)' => u # t /\ Inserting(d, u)
    BY <2>2, <2>6, <2>12 DEF Inserting, Serving
  <2>14. TaskInv'
    <3>1. \A u \in Tasks : worker'[u] = "none" => tasks'[u] = None
      BY <2>7, <2>8, <2>12 DEF Base, TaskInv
    <3>2. ASSUME NEW d \in Clients, NEW u \in Tasks, Inserting(d, u)'
          PROVE  /\ tasks'[u] = None /\ worker'[u] # "none"
                 /\ worker'[u] \in {"work"} \cup Outcomes \/ u \in unlisted'
                 /\ \A x \in Clients : Inserting(x, u)' => x = d
      BY <1>1, <2>7, <2>8, <2>13, <3>2 DEF Base, TaskInv
    <3>3. RunningIsRunning'
      BY <1>1, <2>7, <2>8 DEF Base, TaskInv, RunningIsRunning
    <3> QED BY <3>1, <3>2, <3>3 DEF TaskInv
  <2> QED BY <1>1, <2>1, <2>3, <2>5, <2>9, <2>11, <2>14 DEF Base
<1> QED BY <1>4, <1>5

\* The work returns; a success is announced.
LEMMA WorkBase ==
  ASSUME Base, NEW t \in Tasks, NEW o \in Outcomes, WorkEnds(t, o)
  PROVE  /\ Base' /\ Sending' = Sending
         /\ UNCHANGED <<seq, ring, bus, rung, inorder, conn, serving, seen, mark, warned, synced>>
<1>1. /\ worker[t] = "work" /\ worker' = [worker EXCEPT ![t] = o]
      /\ Emit(t, [task |-> t, state |-> "result"]) \/ UNCHANGED emitting
      /\ UNCHANGED <<seq, ring, bus, rung, inorder, conn, serving, cl, seen, mark, warned, synced,
                     tasks, unlisted, cancels>>
  BY DEF WorkEnds
<1>2. emitting[t] = None /\ [task |-> t, state |-> "result"] \in Events
  BY <1>1 DEF Base, EmitInv, Events
<1>3. BusTyped' /\ OrderInv' /\ Sending' = Sending
  <2>1. CASE Emit(t, [task |-> t, state |-> "result"])
    BY <1>1, <1>2, <2>1, Apart, EmitCalled DEF Base
  <2>2. CASE UNCHANGED emitting
    BY <1>1, <2>2 DEF Base, BusTyped, OrderInv, Sending
  <2> QED BY <1>1, <2>1, <2>2
<1>4. \A x \in Emitters : x # t => emitting'[x] = emitting[x]
  BY <1>1 DEF Base, BusTyped, Emit
<1>5. /\ worker' \in [Tasks -> {"none", "work", "aborted", "ended"} \cup Outcomes] /\ worker'[t] = o
      /\ \A u \in Tasks : u # t => worker'[u] = worker[u]
  BY <1>1 DEF Base, CtlTyped
<1>6. CtlTyped'
  BY <1>1, <1>5 DEF Base, CtlTyped, Up
<1>7. EmitInv'
  BY <1>1, <1>4, <1>5, Apart DEF Base, EmitInv, Serving
<1>8. \A d \in Clients, u \in Tasks : Inserting(d, u)' <=> Inserting(d, u)
  BY <1>1 DEF Inserting, Serving
<1>9. TaskInv'
  BY <1>1, <1>5, <1>8, Apart DEF Base, TaskInv, RunningIsRunning
<1> QED BY <1>1, <1>3, <1>6, <1>7, <1>9 DEF Base

\* The outcome is written to the entry, if there is one, and announced.
LEMMA SettleBase ==
  ASSUME Base, NEW t \in Tasks, Settle(t)
  PROVE  /\ Base' /\ Sending' = Sending
         /\ UNCHANGED <<seq, ring, bus, rung, inorder, conn, serving, seen, mark, warned, synced>>
<1>1. /\ worker[t] \in Outcomes /\ emitting[t] = None
      /\ tasks' = IF tasks[t] = None THEN tasks ELSE [tasks EXCEPT ![t] = worker[t]]
      /\ unlisted' = IF tasks[t] = None THEN unlisted \cup {t} ELSE unlisted
      /\ Emit(t, [task |-> t, state |-> worker[t]])
      /\ worker' = [worker EXCEPT ![t] = "ended"]
      /\ UNCHANGED <<seq, ring, bus, rung, inorder, conn, serving, cl, seen, mark, warned, synced,
                     cancels>>
  BY DEF Settle
<1>2. [task |-> t, state |-> worker[t]] \in Events
  BY <1>1, Apart DEF Events
<1>3. BusTyped' /\ OrderInv' /\ Sending' = Sending
  BY <1>1, <1>2, Apart, EmitCalled DEF Base
<1>4. \A x \in Emitters : x # t => emitting'[x] = emitting[x]
  BY <1>1 DEF Base, BusTyped, Emit
<1>5. /\ worker' \in [Tasks -> {"none", "work", "aborted", "ended"} \cup Outcomes] /\ worker'[t] = "ended"
      /\ \A u \in Tasks : u # t => worker'[u] = worker[u]
  BY <1>1 DEF Base, CtlTyped
<1>6. /\ tasks' \in [Tasks -> {"running"} \cup Terminal \cup {None}]
      /\ \A u \in Tasks : u # t => tasks'[u] = tasks[u]
      /\ tasks'[t] = IF tasks[t] = None THEN None ELSE worker[t]
  BY <1>1, Apart DEF Base, CtlTyped
<1>7. unlisted' \subseteq Tasks /\ unlisted \subseteq unlisted' /\ (tasks[t] = None => t \in unlisted')
  BY <1>1 DEF Base, CtlTyped
<1>8. CtlTyped'
  BY <1>1, <1>5, <1>6, <1>7 DEF Base, CtlTyped, Up
<1>9. EmitInv'
  BY <1>1, <1>4, <1>5, Apart DEF Base, EmitInv, Serving
<1>10. \A d \in Clients, u \in Tasks : Inserting(d, u)' <=> Inserting(d, u)
  BY <1>1 DEF Inserting, Serving
<1>11. TaskInv'
  <2>1. \A u \in Tasks : worker'[u] = "none" => tasks'[u] = None
    BY <1>5, <1>6 DEF Base, TaskInv
  <2>2. ASSUME NEW d \in Clients, NEW u \in Tasks, Inserting(d, u)'
        PROVE  /\ tasks'[u] = None /\ worker'[u] # "none"
               /\ worker'[u] \in {"work"} \cup Outcomes \/ u \in unlisted'
               /\ \A x \in Clients : Inserting(x, u)' => x = d
    BY <1>5, <1>6, <1>7, <1>10, <2>2 DEF Base, TaskInv
  <2>3. ASSUME NEW u \in Tasks, tasks'[u] = "running"
        PROVE  worker'[u] \in {"work"} \cup Outcomes \/ u \in unlisted'
    <3>1. CASE u = t
      <4>1. "running" \notin Outcomes /\ None # "running"
        BY ControlAssumption, Apart
      <4> QED BY <1>1, <1>6, <2>3, <3>1, <4>1
    <3>2. CASE u # t
      BY <1>5, <1>6, <1>7, <2>3, <3>2 DEF Base, TaskInv, RunningIsRunning
    <3> QED BY <3>1, <3>2
  <2> QED BY <2>1, <2>2, <2>3 DEF TaskInv, RunningIsRunning
<1> QED BY <1>1, <1>3, <1>8, <1>9, <1>11 DEF Base

\* wait_for.
LEMMA WaitBase ==
  ASSUME Base, NEW c \in Clients, wait_for(c)
  PROVE  Base' /\ UNCHANGED <<busVars, conn, serving, seen, mark, warned, synced>>
<1> DEFINE k == [pc |-> "waiting", t |-> cl[c].t]
<1>1. /\ cl' = [cl EXCEPT ![c] = k]
      /\ UNCHANGED <<busVars, conn, serving, seen, mark, warned, synced, tasks, worker, unlisted, cancels>>
  BY DEF wait_for
<1>2. k.pc = "waiting"
  OBVIOUS
<1> HIDE DEF k
<1>3. CtlTyped'
  BY <1>1, <1>2 DEF Base, CtlTyped, Up, busVars
<1>4. BusTyped' /\ OrderInv' /\ TaskInv' /\ EmitInv'
  BY <1>1, TasksStand DEF Base, BusTyped, OrderInv, EmitInv, Serving, busVars
<1> QED BY <1>1, <1>3, <1>4 DEF Base

\* Steps of one connection leave bus, tasks and requests alone.
LEMMA ConnStepBase ==
  ASSUME Base, CtlTyped', UNCHANGED <<busVars, serving, tasks, worker, unlisted>>
  PROVE  Base'
<1>1. BusTyped' /\ OrderInv' /\ TaskInv' /\ EmitInv'
  BY TasksStand DEF Base, BusTyped, OrderInv, EmitInv, Serving, busVars
<1> QED BY <1>1 DEF Base

\* What the reader makes of the next frame.
Hears(c, f) ==
  \/ /\ f.k = "ev" /\ seen' = [seen EXCEPT ![c] = @ \cup {f.env.seq}]
     /\ UNCHANGED <<warned, synced>>
  \/ /\ f.k = "lag" /\ warned' = [warned EXCEPT ![c] = TRUE] /\ UNCHANGED <<seen, synced>>
  \/ /\ f.k = "replay" /\ seen' = [seen EXCEPT ![c] = @ \cup Told(f)]
     /\ warned' = [warned EXCEPT ![c] = @ \/ f.r.truncated]
     /\ synced' = [synced EXCEPT ![c] = TRUE]
  \/ f.k \notin {"ev", "lag"} /\ UNCHANGED <<seen, warned, synced>>

\* The reader takes a frame.
LEMMA ReceiveBase ==
  ASSUME Base, NEW c \in Clients, Receive(c)
  PROVE  /\ Base' /\ Up(c) /\ conn[c].out # <<>>
         /\ UNCHANGED <<busVars, serving, mark>> /\ Hears(c, Head(conn[c].out))
         /\ \E n \in Conns : /\ conn' = [conn EXCEPT ![c] = n]
                             /\ n.pos = conn[c].pos /\ n.out = Tail(conn[c].out)
<1> DEFINE f == Head(conn[c].out)
<1>1. /\ Up(c) /\ conn[c].out # <<>>
      /\ UNCHANGED <<busVars, serving, mark, tasks, worker, unlisted, cancels>>
  BY DEF Receive
<1>2. conn[c] \in Conns /\ conn[c].pos <= Len(bus) /\ conn[c].out \in Seq(OutFrames)
      /\ Len(conn[c].out) <= OutCap
  BY <1>1, ConnTypes DEF Base
<1>3. PICK o : o = Tail(conn[c].out)
  OBVIOUS
<1>4. o \in Seq(OutFrames) /\ Len(o) <= OutCap /\ f \in OutFrames
  BY <1>1, <1>2, <1>3, HeadTailProperties, ControlAssumption
<1>5. \E n \in Conns : conn' = [conn EXCEPT ![c] = n] /\ n.pos = conn[c].pos /\ n.out = o
  <2>1. CASE TooLong(f)
    <3>1. PICK n : n = [conn[c] EXCEPT !.out = o, !.deaf = TRUE]
      OBVIOUS
    <3>2. n \in Conns /\ n.out = o /\ n.pos = conn[c].pos
      BY <1>2, <1>4, <3>1 DEF Conns
    <3>3. conn' = [conn EXCEPT ![c].out = Tail(@), ![c].deaf = TRUE]
      BY <2>1 DEF Receive
    <3>4. conn \in [Clients -> Conns \cup {None}]
      BY DEF Base, CtlTyped
    <3>5. conn'[c] = n /\ DOMAIN conn' = Clients /\ \A d \in Clients : d # c => conn'[d] = conn[d]
      BY <1>3, <3>1, <3>3, <3>4
    <3>6. conn' = [d \in Clients |-> conn'[d]]
      BY <3>3, <3>4
    <3>7. conn' = [conn EXCEPT ![c] = n]
      BY <3>4, <3>5, <3>6
    <3> QED BY <3>2, <3>7
  <2>2. CASE ~TooLong(f)
    <3>1. PICK n : n = [conn[c] EXCEPT !.out = o]
      OBVIOUS
    <3>2. n \in Conns /\ n.out = o /\ n.pos = conn[c].pos
      BY <1>2, <1>4, <3>1 DEF Conns
    <3>3. conn' = [conn EXCEPT ![c] = n]
      BY <1>3, <2>2, <3>1 DEF Receive
    <3> QED BY <3>2, <3>3
  <2> QED BY <2>1, <2>2
<1>6. /\ Hears(c, f)
      /\ \/ UNCHANGED cl
         \/ \E k : cl' = [cl EXCEPT ![c] = k] /\ k.pc \in {"idle", "called", "started", "waiting"}
  <2>1. CASE TooLong(f)
    BY <2>1 DEF Receive, Hears, TooLong
  <2>2. CASE ~TooLong(f) /\ f.k = "ev"
    <3>1. HearEvent(c, f.env)
      BY <2>2 DEF Receive
    <3>2. Idle.pc = "idle" /\ cl[c].pc \in {"idle", "called", "started", "waiting"}
      BY DEF Idle, Base, CtlTyped
    <3> QED BY <2>2, <3>1, <3>2 DEF HearEvent, Hears
  <2>3. CASE ~TooLong(f) /\ f.k = "lag"
    BY <2>3 DEF Receive, Hears
  <2>4. CASE ~TooLong(f) /\ f.k \notin {"ev", "lag"}
    <3>1. HearReply(c, f)
      BY <2>4 DEF Receive
    <3>2. AfterReply(c, f).pc \in {"idle", "started"}
      BY DEF AfterReply, Idle
    <3>3. cl' = [cl EXCEPT ![c] = AfterReply(c, f)]
      BY <3>1 DEF HearReply
    <3>4. Hears(c, f)
      BY <2>4, <3>1 DEF HearReply, Hears, Told
    <3> QED BY <3>2, <3>3, <3>4
  <2> QED BY <2>1, <2>2, <2>3, <2>4
<1> HIDE DEF f
<1>7. /\ seen' \in [Clients -> SUBSET Nat] /\ warned' \in [Clients -> BOOLEAN]
      /\ synced' \in [Clients -> BOOLEAN]
  <2>1. /\ f.k = "ev" => f.env.seq \in Nat
        /\ f.k = "replay" => Told(f) \subseteq Nat /\ f.r.truncated \in BOOLEAN
    BY <1>4 DEF OutFrames, Replies, Envelopes, Told
  <2>2. /\ seen \in [Clients -> SUBSET Nat] /\ warned \in [Clients -> BOOLEAN]
        /\ synced \in [Clients -> BOOLEAN]
    BY DEF Base, CtlTyped
  <2>3. CASE f.k = "replay"
    <3>1. PICK w : w = (warned[c] \/ f.r.truncated)
      OBVIOUS
    <3>2. w \in BOOLEAN
      BY <3>1
    <3>3. /\ UNCHANGED seen \/ seen' = [seen EXCEPT ![c] = @ \cup Told(f)]
          /\ UNCHANGED warned \/ warned' = [warned EXCEPT ![c] = w]
          /\ UNCHANGED synced \/ synced' = [synced EXCEPT ![c] = TRUE]
      BY <1>6, <2>3, <3>1, Zenon DEF Hears
    <3>4. seen' \in [Clients -> SUBSET Nat]
      <4>1. seen[c] \cup Told(f) \subseteq Nat
        BY <2>1, <2>2, <2>3
      <4> QED BY <2>2, <3>3, <4>1
    <3>5. warned' \in [Clients -> BOOLEAN]
      BY <2>2, <3>2, <3>3
    <3>6. synced' \in [Clients -> BOOLEAN]
      BY <2>2, <3>3
    <3> QED BY <3>4, <3>5, <3>6
  <2>4. CASE f.k # "replay"
    <3>1. \/ f.k = "ev" /\ seen' = [seen EXCEPT ![c] = @ \cup {f.env.seq}] /\ UNCHANGED <<warned, synced>>
          \/ UNCHANGED <<seen, synced>> /\ (UNCHANGED warned \/ warned' = [warned EXCEPT ![c] = TRUE])
      BY <1>6, <2>4, Zenon DEF Hears
    <3>2. f.k = "ev" => seen[c] \cup {f.env.seq} \subseteq Nat
      BY <2>1, <2>2
    <3>3. seen' \in [Clients -> SUBSET Nat]
      BY <2>2, <3>1, <3>2
    <3>4. warned' \in [Clients -> BOOLEAN]
      BY <2>2, <3>1
    <3>5. synced' \in [Clients -> BOOLEAN]
      BY <2>2, <3>1
    <3> QED BY <3>3, <3>4, <3>5
  <2> QED BY <2>3, <2>4
<1>8. DOMAIN cl' = Clients /\ \A d \in Clients : cl'[d].pc \in {"idle", "called", "started", "waiting"}
  BY <1>6 DEF Base, CtlTyped
<1>9. /\ conn' \in [Clients -> Conns \cup {None}]
      /\ \A d \in Clients : Up(d)' => conn'[d].pos <= Len(bus') /\ Len(conn'[d].out) <= OutCap
  <2>1. PICK n \in Conns : conn' = [conn EXCEPT ![c] = n] /\ n.pos = conn[c].pos /\ n.out = o
    BY <1>5
  <2>2. n.pos <= Len(bus) /\ Len(n.out) <= OutCap /\ UNCHANGED bus
    BY <1>1, <1>2, <1>4, <2>1 DEF busVars
  <2> QED BY <2>1, <2>2, OneConnTyped DEF Base
<1>10. CtlTyped'
  BY <1>1, <1>7, <1>8, <1>9 DEF Base, CtlTyped
<1>11. Base'
  BY <1>1, <1>10, ConnStepBase
<1> QED BY <1>1, <1>3, <1>5, <1>6, <1>11 DEF f

---------------------------------------------------------------------------
\* Numbers are numbers.
LEMMA Numbers ==
  ASSUME Base
  PROVE  /\ \A r \in rung : r \in Nat /\ r > 0
         /\ bus \in Seq(Envelopes) /\ Len(bus) \in Nat /\ DOMAIN bus = 1..Len(bus)
         /\ \A i \in DOMAIN bus : bus[i].seq \in rung
BY DEF Base, BusTyped, OrderInv

\* Nothing that concerns the client changes: no answer is new to it.
LEMMA Standing ==
  ASSUME NEW c \in Clients, Good(c), conn'[c] = conn[c], seen'[c] = seen[c], mark'[c] = mark[c],
         warned'[c] = warned[c], synced'[c] = synced[c], UNCHANGED <<bus, rung, inorder>>,
         Sending' = Sending, \A f \in Replies : Answered(c, f)' => Answered(c, f),
         Up(c) /\ Serving(c, "dispatch")' /\ serving'[c].req.m = "events.replay"
           => serving'[c].req.from = mark[c] + 1
  PROVE  Good(c)'
<1>1. \A r : Doomed(r)' <=> Doomed(r)
  BY DEF Doomed
<1>2. \A X : Gain(c, X)' => Gain(c, X)
  BY DEF Gain
<1>3. \A X : NoGap(c, X) => NoGap(c, X)'
  BY <1>1 DEF NoGap
<1>4. \A X : NoGapInOut(c, X) => NoGapInOut(c, X)'
  BY <1>1 DEF NoGapInOut, Event, NoLag
<1>5. \A X : Complete(c, X) => Complete(c, X)'
  BY DEF Complete, Event, NoLag
<1>6. Whole(c)'
  BY <1>2, <1>3, <1>4, <1>5 DEF Good, Whole, Up
<1>7. Known(c)'
  BY DEF Good, Known, Up, Event
<1>8. Marked(c)'
  BY <1>1 DEF Good, Marked
<1> QED BY <1>6, <1>7, <1>8 DEF Good

\* What a client is about to gain went through the ring.
LEMMA GainRung ==
  ASSUME NEW c \in Clients, Known(c), Up(c), NEW X, Gain(c, X)
  PROVE  X \subseteq rung
BY DEF Known, Gain

\* A number enters the ring, the largest so far.
LEMMA EnterRingGood ==
  ASSUME Base, Base', NEW c \in Clients, Good(c), NEW n \in Nat, rung' = rung \cup {n},
         Sending' = Sending \cup {n}, inorder' => inorder /\ \A r \in rung : r < n,
         UNCHANGED <<bus, ctlVars>>
  PROVE  Good(c)'
<1>0. UNCHANGED <<conn, serving, seen, mark, warned, synced>>
  BY DEF ctlVars
<1>1. \A r : Doomed(r) => Doomed(r)'
  BY DEF Doomed
<1>2. /\ \A f : Answered(c, f)' <=> Answered(c, f)
      /\ \A X : Gain(c, X)' => Gain(c, X)
  BY <1>0 DEF Gain, Answered, Serving
<1>3. n > 0 /\ \A r \in rung : r \in Nat
  <2>1. n \in rung'
    OBVIOUS
  <2>2. seq' \in Nat /\ rung' \subseteq 1..(seq' - 1)
    BY DEF Base, BusTyped
  <2>3. n \in 1..(seq' - 1)
    BY <2>1, <2>2
  <2>4. n > 0
    BY <2>2, <2>3
  <2>5. \A r \in rung : r \in Nat
    BY Numbers
  <2> QED BY <2>4, <2>5
<1>4. Known(c)'
  BY <1>0, <1>2 DEF Good, Known, Up, Event, Serving
<1>5. Marked(c)'
  <2>1. SUFFICES ASSUME inorder', NEW r \in rung', r <= mark[c]
                 PROVE  r \in seen[c] \/ Doomed(r)'
    BY <1>0 DEF Marked
  <2>2. mark[c] \in rung \cup {0}
    BY DEF Good, Known
  <2>3. r \in rung
    BY <1>3, <2>1, <2>2
  <2> QED BY <1>1, <2>1, <2>3 DEF Good, Marked
<1>6. Whole(c)'
  <2>1. SUFFICES ASSUME Up(c), inorder', ~warned[c], NEW X, Gain(c, X)
                 PROVE  NoGap(c, X)' /\ NoGapInOut(c, X)' /\ Complete(c, X)'
    BY <1>0, <1>2 DEF Whole, Up
  <2>2. NoGap(c, X) /\ NoGapInOut(c, X) /\ Complete(c, X)
    BY <2>1 DEF Good, Whole
  <2>3. \A m \in rung : ~(n < m)
    BY <1>3, <2>1
  <2>4. seen[c] \cup X \subseteq rung
    BY <2>1, GainRung DEF Good, Known
  <2>5. NoGap(c, X)'
    BY <1>0, <1>1, <2>2, <2>3, <2>4 DEF NoGap
  <2>6. \A j \in DOMAIN conn[c].out : Event(c, j) => conn[c].out[j].env.seq \in rung
    BY <2>1 DEF Good, Known
  <2>7. NoGapInOut(c, X)'
    BY <1>0, <1>1, <2>2, <2>3, <2>6 DEF NoGapInOut, Event, NoLag
  <2>8. Complete(c, X)'
    BY <1>0, <2>2 DEF Complete, Event, NoLag
  <2> QED BY <2>5, <2>7, <2>8
<1> QED BY <1>4, <1>5, <1>6 DEF Good

\* A number reaches the channel, the largest so far.
LEMMA SendGood ==
  ASSUME Base, Base', NEW c \in Clients, Good(c), NEW n \in Nat,
         Len(bus') = Len(bus) + 1, \A i \in 1..Len(bus) : bus'[i] = bus[i],
         bus'[Len(bus) + 1].seq = n, Sending' \subseteq Sending,
         \A r \in Sending : r = n \/ r \in Sending',
         inorder' => inorder /\ \A i \in DOMAIN bus : bus[i].seq < n,
         UNCHANGED <<rung, ctlVars>>
  PROVE  Good(c)'
<1>0. UNCHANGED <<conn, serving, seen, mark, warned, synced>>
  BY DEF ctlVars
<1>1. /\ Len(bus) \in Nat /\ DOMAIN bus = 1..Len(bus) /\ DOMAIN bus' = 1..(Len(bus) + 1)
      /\ \A i \in DOMAIN bus : bus[i].seq \in Nat
      /\ \A r \in rung : r \in Nat
  <2>1. bus' \in Seq(Envelopes)
    BY DEF Base, BusTyped
  <2>2. DOMAIN bus' = 1..Len(bus')
    BY <2>1
  <2> QED BY <2>2, Numbers
<1>2. ASSUME inorder', NEW r \in rung, Doomed(r) PROVE Doomed(r)'
  <2>1. PICK i \in DOMAIN bus : bus[i].seq > r
    BY <1>2 DEF Doomed
  <2>2. r # n /\ i \in DOMAIN bus' /\ bus'[i].seq > r
    BY <1>1, <1>2, <2>1
  <2> QED BY <1>2, <2>2 DEF Doomed
<1>3. /\ \A f : Answered(c, f)' <=> Answered(c, f)
      /\ \A X : Gain(c, X)' => Gain(c, X)
  BY <1>0 DEF Gain, Answered, Serving
<1>4. Known(c)'
  BY <1>0, <1>3 DEF Good, Known, Up, Event, Serving
<1>5. Marked(c)'
  BY <1>0, <1>2 DEF Good, Marked
<1>6. Whole(c)'
  <2>1. SUFFICES ASSUME Up(c), inorder', ~warned[c], NEW X, Gain(c, X)
                 PROVE  NoGap(c, X)' /\ NoGapInOut(c, X)' /\ Complete(c, X)'
    BY <1>0, <1>3 DEF Whole, Up
  <2>2. NoGap(c, X) /\ NoGapInOut(c, X) /\ Complete(c, X)
    BY <2>1 DEF Good, Whole
  <2>3. NoGap(c, X)'
    BY <1>0, <1>2, <2>1, <2>2 DEF NoGap
  <2>4. NoGapInOut(c, X)'
    BY <1>0, <1>2, <2>1, <2>2 DEF NoGapInOut, Event, NoLag
  <2>5. conn[c].pos \in Nat /\ conn[c].pos <= Len(bus)
    BY <2>1, ConnTypes DEF Base
  <2>6. Complete(c, X)'
    <3>1. SUFFICES ASSUME NoLag(c, Len(conn[c].out)), NEW r \in rung
                   PROVE  \/ r \in seen[c] \cup X \/ r \in Sending'
                          \/ \E i \in DOMAIN conn[c].out : Event(c, i) /\ conn[c].out[i].env.seq = r
                          \/ \E i \in DOMAIN bus' : i > conn[c].pos /\ bus'[i].seq = r
      BY <1>0 DEF Complete, Event, NoLag
    <3>2. \/ r \in seen[c] \cup X \/ r \in Sending
          \/ \E i \in DOMAIN conn[c].out : Event(c, i) /\ conn[c].out[i].env.seq = r
          \/ \E i \in DOMAIN bus : i > conn[c].pos /\ bus[i].seq = r
      BY <2>2, <3>1 DEF Complete
    <3>3. CASE r \in Sending
      <4>1. Len(bus) + 1 \in DOMAIN bus' /\ Len(bus) + 1 > conn[c].pos
        BY <1>1, <2>5
      <4> QED BY <3>3, <4>1
    <3>4. CASE \E i \in DOMAIN bus : i > conn[c].pos /\ bus[i].seq = r
      BY <1>1, <3>4
    <3> QED BY <3>2, <3>3, <3>4
  <2> QED BY <2>3, <2>4, <2>6
<1> QED BY <1>4, <1>5, <1>6 DEF Good

\* A frame that is no event joins the queue.
LEMMA AppendQuiet ==
  ASSUME Base, NEW c \in Clients, Up(c), NEW f \in OutFrames, f.k # "ev", NEW X,
         conn'[c].out = Append(conn[c].out, f), f.k = "lag" \/ conn'[c].pos = conn[c].pos,
         seen'[c] = seen[c], UNCHANGED <<bus, rung>>, Sending' = Sending
  PROVE  /\ NoGap(c, X) => NoGap(c, X)'
         /\ NoGapInOut(c, X) => NoGapInOut(c, X)'
         /\ Complete(c, X) => Complete(c, X)'
<1>1. PICK o : o = conn[c].out
  OBVIOUS
<1>2. PICK p : p = conn'[c].out
  OBVIOUS
<1>3. o \in Seq(OutFrames)
  BY <1>1, ConnTypes DEF Base
<1>4. /\ Len(o) \in Nat /\ DOMAIN o = 1..Len(o) /\ DOMAIN p = 1..(Len(o) + 1) /\ Len(p) = Len(o) + 1
      /\ \A i \in 1..Len(o) : p[i] = o[i]
      /\ p[Len(o) + 1] = f
  BY <1>1, <1>2, <1>3, AppendProperties
<1>5. \A r : Doomed(r)' <=> Doomed(r)
  BY DEF Doomed
<1>6. NoGap(c, X) => NoGap(c, X)'
  BY <1>5 DEF NoGap
<1>7. ASSUME NoGapInOut(c, X) PROVE NoGapInOut(c, X)'
  <2>1. SUFFICES ASSUME NEW j \in DOMAIN p, p[j].k = "ev", \A i \in 1..(j - 1) : p[i].k # "lag",
                        NEW r \in rung, r < p[j].env.seq
                 PROVE  \/ r \in seen[c] \cup X \/ Doomed(r)
                        \/ \E i \in 1..(j - 1) : p[i].k = "ev" /\ p[i].env.seq = r
    BY <1>2, <1>5 DEF NoGapInOut, Event, NoLag
  <2>2. j \in 1..Len(o)
    BY <1>4, <2>1
  <2>3. p[j] = o[j] /\ \A i \in 1..(j - 1) : p[i] = o[i]
    BY <1>4, <2>2
  <2>4. o[j].k = "ev" /\ (\A i \in 1..(j - 1) : o[i].k # "lag") /\ r < o[j].env.seq
    BY <2>1, <2>3
  <2>5. \/ r \in seen[c] \cup X \/ Doomed(r)
        \/ \E i \in 1..(j - 1) : o[i].k = "ev" /\ o[i].env.seq = r
    BY <1>1, <1>4, <1>7, <2>2, <2>4 DEF NoGapInOut, Event, NoLag
  <2> QED BY <2>3, <2>5
<1>8. ASSUME Complete(c, X) PROVE Complete(c, X)'
  <2>1. SUFFICES ASSUME \A i \in 1..Len(p) : p[i].k # "lag", NEW r \in rung
                 PROVE  \/ r \in seen[c] \cup X \/ r \in Sending
                        \/ \E i \in DOMAIN p : p[i].k = "ev" /\ p[i].env.seq = r
                        \/ \E i \in DOMAIN bus : i > conn'[c].pos /\ bus[i].seq = r
    BY <1>2 DEF Complete, Event, NoLag
  <2>2. f.k # "lag" /\ \A i \in 1..Len(o) : o[i].k # "lag"
    BY <1>4, <2>1
  <2>3. \/ r \in seen[c] \cup X \/ r \in Sending
        \/ \E i \in DOMAIN o : o[i].k = "ev" /\ o[i].env.seq = r
        \/ \E i \in DOMAIN bus : i > conn[c].pos /\ bus[i].seq = r
    BY <1>1, <1>8, <2>2 DEF Complete, Event, NoLag
  <2> QED BY <1>4, <2>2, <2>3
<1> QED BY <1>6, <1>7, <1>8

\* The next envelope of the channel joins the queue.
LEMMA AppendEvent ==
  ASSUME Base, inorder, NEW c \in Clients, Up(c), conn[c].pos < Len(bus), NEW X,
         conn'[c].out = Append(conn[c].out, [k |-> "ev", env |-> bus[conn[c].pos + 1]]),
         conn'[c].pos = conn[c].pos + 1,
         seen'[c] = seen[c], UNCHANGED <<bus, rung>>, Sending' = Sending,
         NoGap(c, X), NoGapInOut(c, X), Complete(c, X)
  PROVE  NoGap(c, X)' /\ NoGapInOut(c, X)' /\ Complete(c, X)'
<1>1. PICK o : o = conn[c].out
  OBVIOUS
<1>2. PICK p : p = conn'[c].out
  OBVIOUS
<1>3. PICK q : q = conn[c].pos + 1
  OBVIOUS
<1>4. o \in Seq(OutFrames) /\ q \in DOMAIN bus /\ conn[c].pos \in Nat
  BY <1>1, <1>3, ConnTypes, Numbers DEF Base
<1>5. PICK f : f = [k |-> "ev", env |-> bus[q]]
  OBVIOUS
<1>6. f \in OutFrames /\ f.k = "ev" /\ f.env = bus[q]
  BY <1>4, <1>5, Numbers DEF OutFrames
<1>7. /\ Len(o) \in Nat /\ DOMAIN o = 1..Len(o) /\ DOMAIN p = 1..(Len(o) + 1) /\ Len(p) = Len(o) + 1
      /\ \A i \in 1..Len(o) : p[i] = o[i]
      /\ p[Len(o) + 1] = f
  BY <1>1, <1>2, <1>3, <1>4, <1>5, <1>6, AppendProperties
<1>8. \A r : Doomed(r)' <=> Doomed(r)
  BY DEF Doomed
<1>9. NoGap(c, X)'
  BY <1>8 DEF NoGap
<1>10. \A i \in DOMAIN bus : i > q => bus[q].seq < bus[i].seq
  BY <1>4 DEF Base, OrderInv
<1>11. /\ \A i \in DOMAIN bus : i \in Nat /\ bus[i].seq \in Nat
       /\ \A r \in rung : r \in Nat
  BY Numbers
<1>12. ASSUME \A i \in 1..Len(o) : o[i].k # "lag", NEW r \in rung
       PROVE  \/ r \in seen[c] \cup X \/ r \in Sending
              \/ \E i \in 1..Len(o) : o[i].k = "ev" /\ o[i].env.seq = r
              \/ \E i \in DOMAIN bus : i >= q /\ bus[i].seq = r
  <2>1. \A i \in DOMAIN bus : i > conn[c].pos => i >= q
    BY <1>3, <1>4, <1>11
  <2> QED BY <1>1, <1>7, <1>12, <2>1 DEF Complete, Event, NoLag
<1>13. NoGapInOut(c, X)'
  <2>1. SUFFICES ASSUME NEW j \in DOMAIN p, p[j].k = "ev", \A i \in 1..(j - 1) : p[i].k # "lag",
                        NEW r \in rung, r < p[j].env.seq
                 PROVE  \/ r \in seen[c] \cup X \/ Doomed(r)
                        \/ \E i \in 1..(j - 1) : p[i].k = "ev" /\ p[i].env.seq = r
    BY <1>2, <1>8 DEF NoGapInOut, Event, NoLag
  <2>2. CASE j \in 1..Len(o)
    <3>1. p[j] = o[j] /\ \A i \in 1..(j - 1) : p[i] = o[i]
      BY <1>7, <2>2
    <3>2. o[j].k = "ev" /\ (\A i \in 1..(j - 1) : o[i].k # "lag") /\ r < o[j].env.seq
      BY <2>1, <3>1
    <3>3. \/ r \in seen[c] \cup X \/ Doomed(r)
          \/ \E i \in 1..(j - 1) : o[i].k = "ev" /\ o[i].env.seq = r
      BY <1>1, <1>7, <2>2, <3>2 DEF NoGapInOut, Event, NoLag
    <3> QED BY <3>1, <3>3
  <2>3. CASE j = Len(o) + 1
    <3>1. j - 1 = Len(o) /\ r < bus[q].seq /\ \A i \in 1..Len(o) : p[i] = o[i]
      BY <1>6, <1>7, <2>1, <2>3
    <3>2. ~ \E i \in DOMAIN bus : i >= q /\ bus[i].seq = r
      <4>1. ASSUME NEW i \in DOMAIN bus, i >= q PROVE bus[i].seq # r
        <5>1. i = q \/ i > q
          BY <1>4, <1>11, <4>1
        <5>2. bus[q].seq \in Nat /\ bus[i].seq \in Nat /\ r \in Nat
          BY <1>4, <1>11
        <5>3. i > q => bus[q].seq < bus[i].seq
          BY <1>10
        <5> QED BY <3>1, <5>1, <5>2, <5>3
      <4> QED BY <4>1
    <3>3. \/ r \in seen[c] \cup X \/ r \in Sending
          \/ \E i \in 1..Len(o) : o[i].k = "ev" /\ o[i].env.seq = r
      BY <1>12, <2>1, <3>1, <3>2
    <3>4. r \in Sending => Doomed(r)
      BY <1>4, <1>11, <3>1 DEF Doomed
    <3> QED BY <3>1, <3>3, <3>4
  <2> QED BY <1>7, <2>1, <2>2, <2>3
<1>14. Complete(c, X)'
  <2>1. SUFFICES ASSUME \A i \in 1..Len(p) : p[i].k # "lag", NEW r \in rung
                 PROVE  \/ r \in seen[c] \cup X \/ r \in Sending
                        \/ \E i \in DOMAIN p : p[i].k = "ev" /\ p[i].env.seq = r
                        \/ \E i \in DOMAIN bus : i > q /\ bus[i].seq = r
    BY <1>2, <1>3 DEF Complete, Event, NoLag
  <2>2. \A i \in 1..Len(o) : o[i].k # "lag"
    BY <1>7, <2>1
  <2>3. \/ r \in seen[c] \cup X \/ r \in Sending
        \/ \E i \in 1..Len(o) : o[i].k = "ev" /\ o[i].env.seq = r
        \/ \E i \in DOMAIN bus : i >= q /\ bus[i].seq = r
    BY <1>12, <2>1, <2>2
  <2>4. CASE \E i \in DOMAIN bus : i >= q /\ bus[i].seq = r
    <3>1. PICK i \in DOMAIN bus : i >= q /\ bus[i].seq = r
      BY <2>4
    <3>2. CASE i = q
      BY <1>6, <1>7, <3>1, <3>2
    <3>3. CASE i # q
      <4>1. i > q
        BY <1>4, <1>11, <3>1, <3>3
      <4> QED BY <3>1, <4>1
    <3> QED BY <3>2, <3>3
  <2>5. CASE \E i \in 1..Len(o) : o[i].k = "ev" /\ o[i].env.seq = r
    BY <1>7, <2>5
  <2> QED BY <2>3, <2>4, <2>5
<1> QED BY <1>9, <1>13, <1>14

\* The head of the queue leaves it; if an event, it is counted as received.
LEMMA TailKeeps ==
  ASSUME Base, NEW c \in Clients, Up(c), conn[c].out # <<>>, NEW X, NEW Y,
         conn'[c].out = Tail(conn[c].out), conn'[c].pos = conn[c].pos,
         seen[c] \cup X \subseteq seen'[c] \cup Y, UNCHANGED <<bus, rung>>, Sending' = Sending,
         conn[c].out[1].k # "lag",
         conn[c].out[1].k = "ev" => conn[c].out[1].env.seq \in seen'[c],
         NoGapInOut(c, X), Complete(c, X)
  PROVE  NoGapInOut(c, Y)' /\ Complete(c, Y)'
<1>1. PICK o : o = conn[c].out
  OBVIOUS
<1>2. PICK p : p = conn'[c].out
  OBVIOUS
<1>3. o \in Seq(OutFrames)
  BY <1>1, ConnTypes DEF Base
<1>4. /\ Len(o) \in Nat /\ Len(o) >= 1 /\ DOMAIN o = 1..Len(o)
      /\ DOMAIN p = 1..(Len(o) - 1) /\ Len(p) = Len(o) - 1
      /\ \A i \in 1..(Len(o) - 1) : p[i] = o[i + 1]
  BY <1>1, <1>2, <1>3, HeadTailProperties
<1>5. rung' = rung /\ \A r : Doomed(r)' <=> Doomed(r)
  BY DEF Doomed
<1>6. NoGapInOut(c, Y)'
  <2> SUFFICES ASSUME NEW j \in DOMAIN conn'[c].out, Event(c, j)', NoLag(c, j - 1)',
                      NEW r \in rung', r < conn'[c].out[j].env.seq
               PROVE  (\/ r \in seen[c] \cup Y \/ Doomed(r)
                       \/ \E i \in 1..(j - 1) : Event(c, i) /\ conn[c].out[i].env.seq = r)'
    BY Zenon DEF NoGapInOut
  <2>1. /\ j \in DOMAIN p /\ p[j].k = "ev" /\ (\A i \in 1..(j - 1) : p[i].k # "lag")
        /\ r \in rung /\ r < p[j].env.seq
    BY <1>2, <1>5 DEF Event, NoLag
  <2>2. j \in 1..(Len(o) - 1) /\ p[j] = o[j + 1] /\ j + 1 \in DOMAIN o
    BY <1>4, <2>1
  <2>3. \A i \in 1..j : i = 1 \/ (i - 1 \in 1..(j - 1) /\ p[i - 1] = o[i])
    BY <1>4, <2>2
  <2>4. \A i \in 1..j : o[i].k # "lag"
    BY <1>1, <2>1, <2>3
  <2>5. (j + 1) - 1 = j
    BY <2>2
  <2>6. \/ r \in seen[c] \cup X \/ Doomed(r)
        \/ \E i \in 1..j : o[i].k = "ev" /\ o[i].env.seq = r
    BY <1>1, <2>1, <2>2, <2>4, <2>5 DEF NoGapInOut, Event, NoLag
  <2>7. CASE \E i \in 1..j : o[i].k = "ev" /\ o[i].env.seq = r
    <3>1. r \in seen'[c] \/ \E i \in 1..(j - 1) : p[i].k = "ev" /\ p[i].env.seq = r
      BY <1>1, <2>3, <2>7
    <3> QED BY <1>2, <3>1 DEF Event
  <2> QED BY <1>5, <2>6, <2>7
<1>7. Complete(c, Y)'
  <2>1. SUFFICES ASSUME \A i \in 1..Len(p) : p[i].k # "lag", NEW r \in rung
                 PROVE  \/ r \in seen'[c] \cup Y \/ r \in Sending
                        \/ \E i \in DOMAIN p : p[i].k = "ev" /\ p[i].env.seq = r
                        \/ \E i \in DOMAIN bus : i > conn[c].pos /\ bus[i].seq = r
    BY <1>2 DEF Complete, Event, NoLag
  <2>2. \A i \in 1..Len(o) : i = 1 \/ (i - 1 \in DOMAIN p /\ p[i - 1] = o[i])
    BY <1>4
  <2>3. \A i \in 1..Len(o) : o[i].k # "lag"
    BY <1>1, <1>4, <2>1, <2>2
  <2>4. \/ r \in seen[c] \cup X \/ r \in Sending
        \/ \E i \in 1..Len(o) : o[i].k = "ev" /\ o[i].env.seq = r
        \/ \E i \in DOMAIN bus : i > conn[c].pos /\ bus[i].seq = r
    BY <1>1, <1>4, <2>1, <2>3 DEF Complete, Event, NoLag
  <2>5. CASE \E i \in 1..Len(o) : o[i].k = "ev" /\ o[i].env.seq = r
    BY <1>1, <2>2, <2>5
  <2> QED BY <2>4, <2>5
<1> QED BY <1>6, <1>7

\* The forwarder.
LEMMA ForwardGood ==
  ASSUME Base, ReplayInv, NEW c \in Clients, Forward(c)
  PROVE  Base' /\ ReplayInv'
<1>1. /\ UNCHANGED <<busVars, serving, cl, seen, mark, warned, synced, tasks, worker, unlisted, cancels>>
      /\ CtlTyped' /\ Up(c) /\ conn[c].pos < Len(bus)
  BY ForwardTyped DEF Base, Forward
<1>2. Base'
  BY <1>1, ConnStepBase
<1>3. PICK n \in Conns :
         /\ conn' = [conn EXCEPT ![c] = n]
         /\ \/ n.out = Append(conn[c].out, [k |-> "lag"]) /\ n.pos >= conn[c].pos
            \/ /\ n.out = Append(conn[c].out, [k |-> "ev", env |-> bus[conn[c].pos + 1]])
               /\ n.pos = conn[c].pos + 1
  BY ForwardTyped DEF Base
<1>4. conn'[c] = n /\ \A d \in Clients : d # c => conn'[d] = conn[d]
  BY <1>3 DEF Base, CtlTyped
<1>5. Sending' = Sending /\ UNCHANGED <<bus, rung, inorder>>
  BY <1>1 DEF busVars, Sending
<1>6. ASSUME NEW d \in Clients, d # c PROVE Good(d)'
  <2>1. \A f \in Replies : Answered(d, f)' => Answered(d, f)
    BY <1>1, <1>4, <1>6 DEF Answered, Serving
  <2>2. Up(d) /\ Serving(d, "dispatch")' /\ serving'[d].req.m = "events.replay"
          => serving'[d].req.from = mark[d] + 1
    BY <1>1 DEF ReplayInv, Good, Known, Serving
  <2> QED BY <1>1, <1>4, <1>5, <1>6, <2>1, <2>2, Standing DEF ReplayInv
<1>7. Good(c)'
  <2>1. PICK f \in OutFrames :
          /\ n.out = Append(conn[c].out, f)
          /\ \/ f = [k |-> "lag"]
             \/ f = [k |-> "ev", env |-> bus[conn[c].pos + 1]] /\ n.pos = conn[c].pos + 1
    <3>1. bus[conn[c].pos + 1] \in Envelopes /\ bus[conn[c].pos + 1].seq \in rung
      BY <1>1, ConnTypes, Numbers DEF Base
    <3> QED BY <1>3, <3>1 DEF OutFrames
  <2>2. f.k \in {"lag", "ev"} /\ (f.k = "ev" => f.env.seq \in rung)
    <3>1. bus[conn[c].pos + 1].seq \in rung
      BY <1>1, ConnTypes, Numbers DEF Base
    <3> QED BY <2>1, <3>1
  <2>3. PICK o : o = conn[c].out
    OBVIOUS
  <2>4. PICK p : p = n.out
    OBVIOUS
  <2>5. o \in Seq(OutFrames)
    BY <1>1, <2>3, ConnTypes DEF Base
  <2>6. /\ DOMAIN o = 1..Len(o) /\ DOMAIN p = 1..(Len(o) + 1) /\ Len(o) \in Nat
        /\ \A i \in 1..Len(o) : p[i] = o[i]
        /\ p[Len(o) + 1] = f
    BY <2>1, <2>3, <2>4, <2>5, AppendProperties
  <2>7. \A g \in Replies : Answered(c, g)' => Answered(c, g)
    <3>1. SUFFICES ASSUME NEW g \in Replies, g.k = "replay", NEW i \in DOMAIN p, p[i] = g
                   PROVE  \E j \in DOMAIN o : o[j] = g
      BY <1>1, <1>4, <2>3, <2>4 DEF Answered, Serving
    <3>2. i \in 1..Len(o)
      BY <2>2, <2>6, <3>1
    <3> QED BY <2>6, <3>1, <3>2
  <2>8. Known(c) /\ Marked(c) /\ Whole(c)
    BY DEF ReplayInv, Good
  <2>9. Known(c)'
    <3>1. ASSUME NEW i \in DOMAIN p, p[i].k = "ev" PROVE p[i].env.seq \in rung
      <4>1. CASE i = Len(o) + 1
        BY <2>2, <2>6, <3>1, <4>1
      <4>2. CASE i \in 1..Len(o)
        BY <1>1, <2>3, <2>6, <2>8, <3>1, <4>2 DEF Known, Event
      <4> QED BY <2>6, <4>1, <4>2
    <3>2. \A i \in DOMAIN conn'[c].out : Event(c, i)' => conn'[c].out[i].env.seq \in rung'
      BY <1>4, <1>5, <2>4, <3>1 DEF Event
    <3> QED BY <1>1, <1>5, <2>7, <2>8, <3>2 DEF Known, Serving
  <2>10. Marked(c)'
    <3>1. \A r : Doomed(r)' <=> Doomed(r)
      BY <1>5 DEF Doomed
    <3> QED BY <1>1, <1>5, <2>8, <3>1 DEF Marked
  <2>11. Whole(c)'
    <3>1. SUFFICES ASSUME inorder, ~warned[c], NEW X, Gain(c, X)
                   PROVE  NoGap(c, X)' /\ NoGapInOut(c, X)' /\ Complete(c, X)'
      BY <1>1, <1>5, <2>7 DEF Whole, Gain
    <3>2. NoGap(c, X) /\ NoGapInOut(c, X) /\ Complete(c, X)
      BY <1>1, <2>8, <3>1 DEF Whole
    <3>3. CASE f = [k |-> "lag"]
      BY <1>1, <1>4, <1>5, <2>1, <3>2, <3>3, AppendQuiet
    <3>4. CASE f = [k |-> "ev", env |-> bus[conn[c].pos + 1]] /\ n.pos = conn[c].pos + 1
      <4>1. /\ conn'[c].out = Append(conn[c].out, [k |-> "ev", env |-> bus[conn[c].pos + 1]])
            /\ conn'[c].pos = conn[c].pos + 1
        BY <1>4, <2>1, <3>4
      <4> QED BY <1>1, <1>5, <3>1, <3>2, <4>1, AppendEvent
    <3> QED BY <2>1, <3>3, <3>4
  <2> QED BY <2>9, <2>10, <2>11 DEF Good
<1> QED BY <1>2, <1>6, <1>7 DEF ReplayInv

\* Nothing that concerns the client changes, nor the request it waits for.
LEMMA StandsStill ==
  ASSUME NEW c \in Clients, Good(c), conn'[c] = conn[c], seen'[c] = seen[c], mark'[c] = mark[c],
         warned'[c] = warned[c], synced'[c] = synced[c], serving'[c] = serving[c],
         UNCHANGED <<bus, rung, inorder>>, Sending' = Sending
  PROVE  Good(c)'
<1>1. \A f \in Replies : Answered(c, f)' => Answered(c, f)
  BY DEF Answered, Serving
<1>2. Up(c) /\ Serving(c, "dispatch")' /\ serving'[c].req.m = "events.replay"
        => serving'[c].req.from = mark[c] + 1
  BY DEF Good, Known, Serving
<1> QED BY <1>1, <1>2, Standing

\* The request of one client moves on, to something that is no replay.
LEMMA ServedGood ==
  ASSUME Base, ReplayInv, NEW c \in Clients, NEW s, serving' = [serving EXCEPT ![c] = s],
         s.pc # "dispatch", s.pc = "reply" => s.reply.k # "replay",
         UNCHANGED <<bus, rung, inorder, conn, seen, mark, warned, synced>>, Sending' = Sending
  PROVE  ReplayInv'
<1>1. serving'[c] = s /\ \A d \in Clients : d # c => serving'[d] = serving[d]
  BY DEF Base, CtlTyped
<1>2. ASSUME NEW d \in Clients, d # c PROVE Good(d)'
  BY <1>1, <1>2, StandsStill DEF ReplayInv
<1>3. \A f \in Replies : Answered(c, f)' => Answered(c, f)
  BY <1>1 DEF Answered, Serving
<1>4. ~Serving(c, "dispatch")'
  BY <1>1 DEF Serving
<1>5. Good(c)'
  BY <1>3, <1>4, Standing DEF ReplayInv
<1> QED BY <1>2, <1>5 DEF ReplayInv

\* Every emit step.
LEMMA BusStepGood ==
  ASSUME Base, ReplayInv, NEW e \in Emitters, EmitStep(e), UNCHANGED ctlVars
  PROVE  ReplayInv'
<1>1. Base'
  BY BusStepBase
<1>2. UNCHANGED <<conn, serving, seen, mark, warned, synced>>
  BY DEF ctlVars
<1>3. SUFFICES ASSUME NEW c \in Clients, Good(c) PROVE Good(c)'
  BY DEF ReplayInv
<1>4. CASE TakeSeq(e)
  BY <1>2, <1>3, <1>4, TakeSeqKeeps, StandsStill DEF Base
<1>5. CASE EnterRing(e)
  <2>1. PICK n \in Nat : /\ rung' = rung \cup {n} /\ Sending' = Sending \cup {n}
                         /\ inorder' => \A r \in rung : r < n
    BY <1>5, EnterRingKeeps DEF Base
  <2>2. UNCHANGED bus /\ (inorder' => inorder)
    BY <1>5, EnterRingKeeps DEF Base
  <2> QED BY <1>1, <1>3, <2>1, <2>2, EnterRingGood
<1>6. CASE Send(e)
  <2>1. /\ UNCHANGED rung /\ (inorder' => inorder)
        /\ Len(bus') = Len(bus) + 1 /\ \A i \in 1..Len(bus) : bus'[i] = bus[i]
    BY <1>6, SendKeeps DEF Base
  <2>2. PICK n \in Nat : /\ bus'[Len(bus) + 1].seq = n /\ n \in Sending
                         /\ Sending' \subseteq Sending
                         /\ \A r \in Sending : r = n \/ r \in Sending'
                         /\ inorder' => \A i \in DOMAIN bus : bus[i].seq < n
    BY <1>6, SendKeeps DEF Base
  <2> QED BY <1>1, <1>3, <2>1, <2>2, SendGood
<1> QED BY <1>4, <1>5, <1>6 DEF EmitStep

\* The reply goes out behind what is on its way already.
LEMMA ReplyGood ==
  ASSUME Base, ReplayInv, NEW c \in Clients, Reply(c)
  PROVE  ReplayInv'
<1> DEFINE f == serving[c].reply
<1>1. /\ Serving(c, "reply") /\ f \in Replies /\ serving' = [serving EXCEPT ![c] = None]
      /\ UNCHANGED <<busVars, seen, mark, warned, synced>>
      /\ IF Up(c) THEN \E n \in Conns :
                         /\ conn' = [conn EXCEPT ![c] = n] /\ n.pos = conn[c].pos
                         /\ n.out = Append(conn[c].out, f)
         ELSE UNCHANGED conn
  BY ReplyBase
<1>2. serving'[c] = None /\ \A d \in Clients : d # c => serving'[d] = serving[d]
  BY <1>1 DEF Base, CtlTyped
<1>3. Sending' = Sending /\ UNCHANGED <<bus, rung, inorder>>
  BY <1>1 DEF busVars, Sending
<1>4. \A d \in Clients : d # c => conn'[d] = conn[d]
  BY <1>1 DEF Base, CtlTyped
<1>5. ASSUME NEW d \in Clients, d # c PROVE Good(d)'
  BY <1>1, <1>2, <1>3, <1>4, <1>5, StandsStill DEF ReplayInv
<1>6. CASE ~Up(c)
  <2>1. UNCHANGED conn
    BY <1>1, <1>6
  <2>2. \A g \in Replies : Answered(c, g)' => Answered(c, g)
    BY <1>2, <2>1 DEF Answered, Serving
  <2> QED BY <1>1, <1>2, <1>3, <1>5, <1>6, <2>1, <2>2, Standing DEF ReplayInv
<1>7. CASE Up(c)
  <2>1. PICK n \in Conns : /\ conn' = [conn EXCEPT ![c] = n] /\ n.pos = conn[c].pos
                           /\ n.out = Append(conn[c].out, f)
    BY <1>1, <1>7
  <2>2. conn'[c] = n
    BY <2>1 DEF Base, CtlTyped
  <2>3. f \in OutFrames /\ f.k \notin {"lag", "ev"}
    BY <1>1 DEF OutFrames, Replies
  <2>4. PICK o : o = conn[c].out
    OBVIOUS
  <2>5. PICK p : p = n.out
    OBVIOUS
  <2>6. o \in Seq(OutFrames)
    BY <1>7, <2>4, ConnTypes DEF Base
  <2> HIDE DEF f
  <2>7. /\ DOMAIN o = 1..Len(o) /\ DOMAIN p = 1..(Len(o) + 1) /\ Len(o) \in Nat
        /\ \A i \in 1..Len(o) : p[i] = o[i]
        /\ p[Len(o) + 1] = f
    BY <2>1, <2>3, <2>4, <2>5, <2>6, AppendProperties
  <2>8. \A g \in Replies : Answered(c, g)' => Answered(c, g)
    <3>1. SUFFICES ASSUME NEW g \in Replies, g.k = "replay", NEW i \in DOMAIN p, p[i] = g
                   PROVE  Answered(c, g)
      BY <1>2, <2>2, <2>5 DEF Answered, Serving
    <3>2. CASE i \in 1..Len(o)
      BY <2>4, <2>7, <3>1, <3>2 DEF Answered
    <3>3. CASE i = Len(o) + 1
      BY <1>1, <2>7, <3>1, <3>3 DEF Answered, f
    <3> QED BY <2>7, <3>2, <3>3
  <2>9. Known(c) /\ Marked(c) /\ Whole(c)
    BY DEF ReplayInv, Good
  <2>10. Known(c)'
    <3>1. ASSUME NEW i \in DOMAIN p, p[i].k = "ev" PROVE p[i].env.seq \in rung
      <4>1. i \in 1..Len(o)
        BY <2>3, <2>7, <3>1
      <4> QED BY <1>7, <2>4, <2>7, <2>9, <3>1, <4>1 DEF Known, Event
    <3>2. \A i \in DOMAIN conn'[c].out : Event(c, i)' => conn'[c].out[i].env.seq \in rung'
      BY <1>3, <2>2, <2>5, <3>1 DEF Event
    <3> QED BY <1>1, <1>2, <1>3, <1>7, <2>8, <2>9, <3>2 DEF Known, Serving
  <2>11. Marked(c)'
    <3>1. \A r : Doomed(r)' <=> Doomed(r)
      BY <1>3 DEF Doomed
    <3> QED BY <1>1, <1>3, <2>9, <3>1 DEF Marked
  <2>12. Whole(c)'
    <3>1. SUFFICES ASSUME inorder, ~warned[c], NEW X, Gain(c, X)
                   PROVE  NoGap(c, X)' /\ NoGapInOut(c, X)' /\ Complete(c, X)'
      BY <1>1, <1>3, <2>8 DEF Whole, Gain
    <3>2. NoGap(c, X) /\ NoGapInOut(c, X) /\ Complete(c, X)
      BY <1>7, <2>9, <3>1 DEF Whole
    <3> QED BY <1>1, <1>3, <1>7, <2>1, <2>2, <2>3, <3>2, AppendQuiet
  <2>13. Good(c)'
    BY <2>10, <2>11, <2>12 DEF Good
  <2> QED BY <1>5, <2>13 DEF ReplayInv
<1> QED BY <1>6, <1>7

\* The greatest of some numbers is one of them, and none is above it.
LEMMA MaxOfSome ==
  ASSUME NEW N \in Nat, NEW S, S \subseteq 0..N, S # {}
  PROVE  Max(S) \in S /\ \A y \in S : y <= Max(S)
<1> DEFINE T == {n \in Nat : N - n \in S}
<1> DEFINE R == OpToRel(<, Nat)
<1>1. T \subseteq Nat /\ T # {}
  <2>1. PICK y \in S : TRUE
    OBVIOUS
  <2>2. N - y \in Nat /\ N - (N - y) = y
    BY <2>1
  <2> QED BY <2>1, <2>2
<1>2. PICK x \in T : \A y \in T : ~(<<y, x>> \in R)
  BY <1>1, WFMin, NatLessThanWellFounded
<1>3. \A y \in T : ~(y < x)
  BY <1>2, <1>1 DEF OpToRel
<1>4. N - x \in S /\ \A y \in S : N - x >= y
  <2>1. ASSUME NEW y \in S PROVE N - x >= y
    <3>1. N - y \in Nat /\ N - (N - y) = y
      BY <2>1
    <3>2. N - y \in T
      BY <3>1
    <3> QED BY <3>1, <3>2, <1>3, <1>1
  <2> QED BY <2>1
<1> HIDE DEF T, R
<1>5. Max(S) \in S /\ \A y \in S : Max(S) >= y
  <2>1. \E m \in S : \A y \in S : m >= y
    BY <1>4
  <2> QED BY <2>1, Zenon DEF Max
<1> QED BY <1>5

\* A client attaches: it has gained nothing yet.
LEMMA AttachGood ==
  ASSUME Base, ReplayInv, NEW c \in Clients, NEW roles \in {{"observer"}, {"control"}}, Attach(c, roles)
  PROVE  Base' /\ ReplayInv'
<1> DEFINE n == [roles |-> roles, pos |-> Len(bus), out |-> <<>>, deaf |-> FALSE]
<1>1. /\ serving[c] = None /\ conn' = [conn EXCEPT ![c] = n]
      /\ warned' = [warned EXCEPT ![c] = FALSE] /\ synced' = [synced EXCEPT ![c] = FALSE]
      /\ UNCHANGED <<busVars, serving, cl, seen, mark, tasks, worker, unlisted, cancels>>
  BY DEF Attach
<1>2. mark'[c] \in Nat
  BY <1>1 DEF Base, CtlTyped
<1>3. CtlTyped'
  BY <1>2, ConnectionTyped DEF Base
<1>4. Base'
  BY <1>1, <1>3, ConnStepBase
<1>5. n.out = <<>>
  OBVIOUS
<1> HIDE DEF n
<1>6. /\ conn'[c] = n /\ warned'[c] = FALSE /\ synced'[c] = FALSE
      /\ \A d \in Clients : d # c => conn'[d] = conn[d] /\ warned'[d] = warned[d] /\ synced'[d] = synced[d]
  BY <1>1 DEF Base, CtlTyped
<1>7. Sending' = Sending /\ UNCHANGED <<bus, rung, inorder>>
  BY <1>1 DEF busVars, Sending
<1>8. ASSUME NEW d \in Clients, d # c PROVE Good(d)'
  BY <1>1, <1>6, <1>7, <1>8, StandsStill DEF ReplayInv
<1>9. DOMAIN conn'[c].out = {} /\ ~Serving(c, "reply")' /\ ~Serving(c, "dispatch")'
  BY <1>1, <1>5, <1>6 DEF Serving
<1>10. \A f \in Replies : ~Answered(c, f)'
  BY <1>9 DEF Answered
<1>11. Known(c)' /\ Whole(c)'
  BY <1>1, <1>6, <1>7, <1>9, <1>10 DEF ReplayInv, Good, Known, Whole, Gain
<1>12. \A r : Doomed(r)' <=> Doomed(r)
  BY <1>7 DEF Doomed
<1>13. Marked(c)'
  BY <1>1, <1>7, <1>12 DEF ReplayInv, Good, Marked
<1> QED BY <1>4, <1>8, <1>11, <1>13 DEF ReplayInv, Good

\* A client goes away and keeps the number of the last event of a whole
\* stream.
LEMMA DisconnectGood ==
  ASSUME Base, ReplayInv, NEW c \in Clients, Disconnect(c)
  PROVE  Base' /\ ReplayInv'
<1> DEFINE m == IF synced[c] /\ ~warned[c] THEN Max(seen[c] \cup {0}) ELSE mark[c]
<1>1. /\ Up(c) /\ conn' = [conn EXCEPT ![c] = None] /\ mark' = [mark EXCEPT ![c] = m]
      /\ UNCHANGED <<busVars, serving, seen, warned, synced, tasks, worker, unlisted, cancels>>
  BY DEF Disconnect
<1>2. Known(c) /\ Marked(c) /\ Whole(c)
  BY DEF ReplayInv, Good
<1>3. Max(seen[c] \cup {0}) \in seen[c] \cup {0} /\ \A r \in seen[c] : r <= Max(seen[c] \cup {0})
  <2>1. seq \in Nat /\ rung \subseteq 1..(seq - 1)
    BY DEF Base, BusTyped
  <2>0. seen[c] \subseteq rung
    BY <1>2 DEF Known
  <2>2. seen[c] \cup {0} \subseteq 0..seq
    <3>1. \A r \in 1..(seq - 1) : r \in 0..seq
      BY <2>1
    <3>2. 0 \in 0..seq
      BY <2>1
    <3> QED BY <2>0, <2>1, <3>1, <3>2, Zenon
  <2>3. seen[c] \cup {0} # {}
    OBVIOUS
  <2> QED BY <2>1, <2>2, <2>3, MaxOfSome
<1>4. m \in rung \cup {0}
  BY <1>2, <1>3 DEF Known
<1>5. inorder => \A r \in rung : r <= m => r \in seen[c] \/ Doomed(r)
  <2>1. CASE synced[c] /\ ~warned[c]
    <3>1. Gain(c, {})
      BY <2>1 DEF Gain
    <3>2. inorder => NoGap(c, {})
      BY <1>1, <1>2, <2>1, <3>1 DEF Whole
    <3>3. m \in seen[c] \cup {0}
      BY <1>3, <2>1
    <3> HIDE DEF m
    <3>4. SUFFICES ASSUME inorder, NEW r \in rung, r <= m PROVE r \in seen[c] \/ Doomed(r)
      OBVIOUS
    <3>5. r \in Nat /\ r > 0
      BY Numbers
    <3>6. m \in seen[c] /\ m \in Nat
      <4>1. m # 0
        BY <3>4, <3>5
      <4>2. m \in seen[c] /\ m \in rung
        BY <1>2, <3>3, <4>1 DEF Known
      <4> QED BY <4>2, Numbers
    <3>7. CASE r = m
      BY <3>6, <3>7
    <3>8. CASE r < m
      BY <3>2, <3>4, <3>6, <3>8 DEF NoGap
    <3> QED BY <3>4, <3>5, <3>6, <3>7, <3>8
  <2>2. CASE ~(synced[c] /\ ~warned[c])
    BY <1>2, <2>2 DEF Marked
  <2> QED BY <2>1, <2>2
<1> HIDE DEF m
<1>6. conn'[c] = None /\ mark'[c] = m
      /\ \A d \in Clients : d # c => conn'[d] = conn[d] /\ mark'[d] = mark[d]
  BY <1>1 DEF Base, CtlTyped
<1>7. m \in Nat
  BY <1>4, Numbers
<1>8. CtlTyped'
  BY <1>6, <1>7, ConnectionTyped DEF Base
<1>9. Base'
  BY <1>1, <1>8, ConnStepBase
<1>10. Sending' = Sending /\ UNCHANGED <<bus, rung, inorder>>
  BY <1>1 DEF busVars, Sending
<1>11. ASSUME NEW d \in Clients, d # c PROVE Good(d)'
  BY <1>1, <1>6, <1>10, <1>11, StandsStill DEF ReplayInv
<1>12. ~Up(c)'
  BY <1>6 DEF Up
<1>13. Known(c)' /\ Whole(c)'
  BY <1>1, <1>2, <1>4, <1>6, <1>10, <1>12 DEF Known, Whole
<1>14. \A r : Doomed(r)' <=> Doomed(r)
  BY <1>10 DEF Doomed
<1>15. Marked(c)'
  BY <1>1, <1>5, <1>6, <1>10, <1>14 DEF Marked
<1> QED BY <1>9, <1>11, <1>13, <1>15 DEF ReplayInv, Good

\* A client calls, to replay from the number after its mark.
LEMMA CallGood ==
  ASSUME Base, ReplayInv, NEW c \in Clients, NEW req \in Requests(c), Call(c, req)
  PROVE  ReplayInv'
<1> DEFINE s == [pc |-> "dispatch", req |-> req, roles |-> conn[c].roles]
<1>1. /\ serving[c] = None /\ serving' = [serving EXCEPT ![c] = s]
      /\ UNCHANGED <<busVars, conn, seen, mark, warned, synced>>
  BY DEF Call
<1>2. s.pc = "dispatch" /\ s.req = req
  OBVIOUS
<1> HIDE DEF s
<1>3. serving'[c] = s /\ \A d \in Clients : d # c => serving'[d] = serving[d]
  BY <1>1 DEF Base, CtlTyped
<1>4. Sending' = Sending /\ UNCHANGED <<bus, rung, inorder>>
  BY <1>1 DEF busVars, Sending
<1>5. ASSUME NEW d \in Clients, d # c PROVE Good(d)'
  BY <1>1, <1>3, <1>4, <1>5, StandsStill DEF ReplayInv
<1>6. \A f \in Replies : Answered(c, f)' => Answered(c, f)
  BY <1>1, <1>2, <1>3 DEF Answered, Serving
<1>7. req.m = "events.replay" => req.from = mark[c] + 1
  BY DEF Requests
<1>8. Good(c)'
  BY <1>1, <1>2, <1>3, <1>4, <1>6, <1>7, Standing DEF ReplayInv
<1> QED BY <1>5, <1>8 DEF ReplayInv

\* A refusal, or an answer from the ring: one that tells no truncation has
\* all that came after the mark.
LEMMA AnswerGood ==
  ASSUME Base, ReplayInv, NEW c \in Clients, Refuse(c) \/ events_replay(c)
  PROVE  ReplayInv'
<1>1. /\ Serving(c, "dispatch") /\ UNCHANGED <<busVars, conn, seen, mark, warned, synced>>
  BY AnswerBase
<1>2. PICK f \in Replies :
         /\ serving' = [serving EXCEPT ![c] = [pc |-> "reply", reply |-> f]]
         /\ f.k = "replay" => /\ f.r = replay(serving[c].req.from)
                              /\ serving[c].req.m = "events.replay"
  BY AnswerBase
<1>3. /\ serving'[c] = [pc |-> "reply", reply |-> f]
      /\ \A d \in Clients : d # c => serving'[d] = serving[d]
  BY <1>2 DEF Base, CtlTyped
<1>4. Sending' = Sending /\ UNCHANGED <<bus, ring, rung, inorder>>
  BY <1>1 DEF busVars, Sending
<1>5. ASSUME NEW d \in Clients, d # c PROVE Good(d)'
  BY <1>1, <1>3, <1>4, <1>5, StandsStill DEF ReplayInv
<1>6. CASE f.k # "replay"
  <2>1. PICK s : s = [pc |-> "reply", reply |-> f]
    OBVIOUS
  <2>2. s.pc = "reply" /\ s.reply = f /\ serving' = [serving EXCEPT ![c] = s]
    BY <1>2, <2>1
  <2> QED BY <1>1, <1>4, <1>6, <2>2, ServedGood
<1>7. CASE f.k = "replay"
  <2>1. Known(c) /\ Marked(c) /\ Whole(c)
    BY DEF ReplayInv, Good
  <2>2. /\ ring \in Seq(Envelopes) /\ DOMAIN ring = 1..Len(ring) /\ Len(ring) \in Nat
        /\ \A i \in DOMAIN ring : ring[i].seq \in rung
    BY DEF Base, BusTyped, OrderInv
  <2>3. PICK from : from = serving[c].req.from
    OBVIOUS
  <2>4. /\ f.r.events = {e \in ToSet(ring) : e.seq >= from}
        /\ f.r.truncated = (ring # <<>> /\ Head(ring).seq > from)
    BY <1>2, <1>7, <2>3 DEF replay
  <2>5. Told(f) \subseteq rung
    BY <2>2, <2>4 DEF Told, ToSet
  <2>6. \A g \in Replies : Answered(c, g)' => g = f \/ Answered(c, g)
    BY <1>1, <1>3 DEF Answered, Serving
  <2>7. ~Serving(c, "dispatch")'
    BY <1>3 DEF Serving
  <2>8. Known(c)'
    BY <1>1, <1>4, <2>1, <2>5, <2>6, <2>7 DEF Known, Up, Event
  <2>9. \A r : Doomed(r)' <=> Doomed(r)
    BY <1>4 DEF Doomed
  <2>10. Marked(c)'
    BY <1>1, <1>4, <2>1, <2>9 DEF Marked
  <2>11. ASSUME Up(c), inorder, ~f.r.truncated, NEW r \in rung
         PROVE  r \in seen[c] \cup Told(f) \/ (Doomed(r) /\ r \in Sending)
    <3>1. from = mark[c] + 1 /\ mark[c] \in Nat
      BY <1>1, <1>2, <1>7, <2>1, <2>3, <2>11 DEF Known, Base, CtlTyped
    <3>2. CASE r <= mark[c]
      BY <2>1, <2>11, <3>2 DEF Marked, Doomed
    <3>3. CASE \E i \in DOMAIN ring : ring[i].seq = r /\ r > mark[c]
      <4>1. PICK i \in DOMAIN ring : ring[i].seq = r /\ r > mark[c]
        BY <3>3
      <4>2. r \in Nat
        BY Numbers
      <4>3. ring[i].seq >= from
        BY <3>1, <4>1, <4>2
      <4>4. ring[i] \in f.r.events
        BY <2>4, <4>1, <4>3 DEF ToSet
      <4> QED BY <4>1, <4>4 DEF Told
    <3>4. CASE ring # <<>> /\ r < ring[1].seq /\ r > mark[c]
      <4>1. Head(ring) = ring[1] /\ ring[1].seq \in Nat /\ r \in Nat
        BY <2>2, <3>4, Numbers
      <4>2. ~(ring # <<>> /\ Head(ring).seq > from)
        BY <2>4, <2>11
      <4> QED BY <3>1, <3>4, <4>1, <4>2
    <3>5. r \in Nat
      BY Numbers
    <3> QED BY <2>11, <3>1, <3>2, <3>3, <3>4, <3>5 DEF Base, OrderInv
  <2>12. Whole(c)'
    <3>1. SUFFICES ASSUME Up(c), inorder, ~warned[c], NEW X, Gain(c, X)'
                   PROVE  NoGap(c, X)' /\ NoGapInOut(c, X)' /\ Complete(c, X)'
      BY <1>1, <1>4 DEF Whole, Up
    <3>2. CASE Gain(c, X)
      <4>1. NoGap(c, X) /\ NoGapInOut(c, X) /\ Complete(c, X)
        BY <2>1, <3>1, <3>2 DEF Whole
      <4>2. NoGap(c, X)'
        BY <1>1, <1>4, <2>9, <4>1 DEF NoGap
      <4>3. NoGapInOut(c, X)'
        BY <1>1, <1>4, <2>9, <4>1 DEF NoGapInOut, Event, NoLag
      <4>4. Complete(c, X)'
        BY <1>1, <1>4, <4>1 DEF Complete, Event, NoLag
      <4> QED BY <4>2, <4>3, <4>4
    <3>3. CASE X = Told(f) /\ ~f.r.truncated
      <4>1. \A r \in rung' : r \in seen'[c] \cup X \/ (Doomed(r)' /\ r \in Sending')
        BY <1>1, <1>4, <2>9, <2>11, <3>1, <3>3
      <4> QED BY <4>1 DEF NoGap, NoGapInOut, Complete
    <3>4. Gain(c, X) \/ (X = Told(f) /\ ~f.r.truncated)
      BY <1>1, <2>6, <3>1 DEF Gain
    <3> QED BY <3>2, <3>3, <3>4
  <2> QED BY <1>5, <2>8, <2>10, <2>12 DEF ReplayInv, Good
<1> QED BY <1>6, <1>7

\* The reader takes the head of the queue: an event, a warning, a reply.
LEMMA ReceiveGood ==
  ASSUME Base, ReplayInv, NEW c \in Clients, Receive(c)
  PROVE  ReplayInv'
<1>1. Up(c) /\ conn[c].out # <<>> /\ UNCHANGED <<busVars, serving, mark>>
  BY ReceiveBase
<1>2. PICK n \in Conns : /\ conn' = [conn EXCEPT ![c] = n]
                         /\ n.pos = conn[c].pos /\ n.out = Tail(conn[c].out)
  BY ReceiveBase
<1>3. PICK o : o = conn[c].out
  OBVIOUS
<1>4. PICK p : p = n.out
  OBVIOUS
<1>5. PICK f : f = o[1]
  OBVIOUS
<1>6. o \in Seq(OutFrames)
  BY <1>1, <1>3, ConnTypes DEF Base
<1>7. /\ DOMAIN o = 1..Len(o) /\ Len(o) \in Nat /\ 1 \in DOMAIN o /\ f \in OutFrames /\ f = Head(o)
      /\ DOMAIN p = 1..(Len(o) - 1) /\ \A i \in 1..(Len(o) - 1) : p[i] = o[i + 1]
  BY <1>1, <1>2, <1>3, <1>4, <1>5, <1>6, HeadTailProperties
<1>8. Hears(c, f)
  BY <1>3, <1>7, ReceiveBase
<1>9. conn'[c] = n /\ \A d \in Clients : d # c => conn'[d] = conn[d]
  BY <1>2 DEF Base, CtlTyped
<1>10. Sending' = Sending /\ UNCHANGED <<bus, rung, inorder>>
  BY <1>1 DEF busVars, Sending
<1>11. ASSUME NEW d \in Clients, d # c
       PROVE  seen'[d] = seen[d] /\ warned'[d] = warned[d] /\ synced'[d] = synced[d]
  BY <1>8, <1>11 DEF Hears, Base, CtlTyped
<1>12. ASSUME NEW d \in Clients, d # c PROVE Good(d)'
  BY <1>1, <1>9, <1>10, <1>11, <1>12, StandsStill DEF ReplayInv
<1>13. \A g \in Replies : Answered(c, g)' => Answered(c, g)
  <2>1. \A i \in DOMAIN p : i + 1 \in DOMAIN o /\ p[i] = o[i + 1]
    BY <1>7
  <2> QED BY <1>1, <1>3, <1>4, <1>9, <2>1 DEF Answered, Serving
<1>14. Known(c) /\ Marked(c) /\ Whole(c)
  BY DEF ReplayInv, Good
<1>15. f.k = "replay" => f \in Replies /\ Answered(c, f)
  BY <1>3, <1>5, <1>7 DEF OutFrames, Answered
<1>16. /\ seen[c] \subseteq seen'[c]
       /\ seen'[c] \subseteq rung
  <2>1. f.k = "ev" => f.env.seq \in rung
    BY <1>1, <1>3, <1>5, <1>7, <1>14 DEF Known, Event
  <2>2. f.k = "replay" => Told(f) \subseteq rung
    BY <1>1, <1>14, <1>15 DEF Known
  <2>3. \/ seen'[c] = seen[c]
        \/ f.k = "ev" /\ seen'[c] = seen[c] \cup {f.env.seq}
        \/ f.k = "replay" /\ seen'[c] = seen[c] \cup Told(f)
    BY <1>8 DEF Hears, Base, CtlTyped
  <2> QED BY <1>14, <2>1, <2>2, <2>3 DEF Known
<1>17. Known(c)'
  <2>1. ASSUME NEW i \in DOMAIN p, p[i].k = "ev" PROVE p[i].env.seq \in rung
    <3>1. i + 1 \in DOMAIN o /\ p[i] = o[i + 1]
      BY <1>7
    <3> QED BY <1>1, <1>3, <1>14, <2>1, <3>1 DEF Known, Event
  <2>2. \A i \in DOMAIN conn'[c].out : Event(c, i)' => conn'[c].out[i].env.seq \in rung'
    BY <1>4, <1>9, <1>10, <2>1 DEF Event
  <2> QED BY <1>1, <1>10, <1>13, <1>14, <1>16, <2>2 DEF Known, Serving
<1>18. \A r : Doomed(r)' <=> Doomed(r)
  BY <1>10 DEF Doomed
<1>19. Marked(c)'
  BY <1>1, <1>10, <1>14, <1>16, <1>18 DEF Marked
<1>20. ASSUME NEW X, NEW Y, f.k # "lag", f.k = "ev" => f.env.seq \in seen'[c],
              seen[c] \cup X \subseteq seen'[c] \cup Y, NoGapInOut(c, X), Complete(c, X)
       PROVE  NoGapInOut(c, Y)' /\ Complete(c, Y)'
  <2>1. conn'[c].out = Tail(conn[c].out) /\ conn'[c].pos = conn[c].pos /\ conn[c].out[1] = f
    BY <1>2, <1>3, <1>5, <1>9
  <2> QED BY <1>1, <1>10, <1>20, <2>1, TailKeeps
<1>21. Whole(c)'
  <2>1. SUFFICES ASSUME inorder, ~warned'[c], NEW X, Gain(c, X)'
                 PROVE  NoGap(c, X)' /\ NoGapInOut(c, X)' /\ Complete(c, X)'
    BY <1>10 DEF Whole
  <2>2. f.k # "lag"
    BY <1>8, <2>1 DEF Hears, Base, CtlTyped
  <2>3. CASE f.k = "ev"
    <3>1. seen'[c] = seen[c] \cup {f.env.seq} /\ UNCHANGED <<warned, synced>>
      BY <1>8, <2>3 DEF Hears, Base, CtlTyped
    <3>2. Gain(c, X)
      BY <1>13, <2>1, <3>1 DEF Gain
    <3>3. NoGap(c, X) /\ NoGapInOut(c, X) /\ Complete(c, X)
      BY <1>1, <1>14, <2>1, <3>1, <3>2 DEF Whole
    <3>4. NoGapInOut(c, X)' /\ Complete(c, X)'
      BY <1>20, <2>2, <3>1, <3>3
    <3>5. \A r \in rung : r < f.env.seq => r \in seen[c] \cup X \/ Doomed(r)
      <4>1. 1 \in DOMAIN conn[c].out /\ Event(c, 1) /\ conn[c].out[1].env.seq = f.env.seq
        BY <1>3, <1>5, <1>7, <2>3 DEF Event
      <4>2. 1..(1 - 1) = {}
        OBVIOUS
      <4>3. NoLag(c, 1 - 1)
        BY <4>2 DEF NoLag
      <4> QED BY <3>3, <4>1, <4>2, <4>3 DEF NoGapInOut
    <3>6. NoGap(c, X)'
      BY <1>10, <1>18, <3>1, <3>3, <3>5 DEF NoGap
    <3> QED BY <3>4, <3>6
  <2>4. CASE f.k # "ev" /\ UNCHANGED <<seen, warned, synced>>
    <3>1. Gain(c, X)
      BY <1>13, <2>1, <2>4 DEF Gain
    <3>2. NoGap(c, X) /\ NoGapInOut(c, X) /\ Complete(c, X)
      BY <1>1, <1>14, <2>1, <2>4, <3>1 DEF Whole
    <3>3. NoGapInOut(c, X)' /\ Complete(c, X)'
      BY <1>20, <2>2, <2>4, <3>2
    <3>4. NoGap(c, X)'
      BY <1>10, <1>18, <2>4, <3>2 DEF NoGap
    <3> QED BY <3>3, <3>4
  <2>5. CASE /\ f.k = "replay" /\ seen' = [seen EXCEPT ![c] = @ \cup Told(f)]
             /\ warned' = [warned EXCEPT ![c] = @ \/ f.r.truncated]
             /\ synced' = [synced EXCEPT ![c] = TRUE]
    <3>1. seen'[c] = seen[c] \cup Told(f) /\ ~warned[c] /\ ~f.r.truncated
      <4>1. seen'[c] = seen[c] \cup Told(f)
        BY <2>5 DEF Base, CtlTyped
      <4>2. warned'[c] = (warned[c] \/ f.r.truncated)
        BY <2>5 DEF Base, CtlTyped
      <4> QED BY <2>1, <4>1, <4>2
    <3>2. Gain(c, Told(f))
      BY <1>15, <2>5, <3>1 DEF Gain
    <3>3. NoGap(c, Told(f)) /\ NoGapInOut(c, Told(f)) /\ Complete(c, Told(f))
      BY <1>1, <1>14, <2>1, <3>1, <3>2 DEF Whole
    <3>4. NoGapInOut(c, X)' /\ Complete(c, X)'
      BY <1>20, <2>2, <2>5, <3>1, <3>3
    <3>5. X = {} \/ Gain(c, X)
      BY <1>13, <2>1 DEF Gain
    <3>6. X = {} \/ NoGap(c, X)
      BY <1>1, <1>14, <2>1, <3>1, <3>5 DEF Whole
    <3>7. NoGap(c, X)'
      BY <1>10, <1>18, <3>1, <3>3, <3>6 DEF NoGap
    <3> QED BY <3>4, <3>7
  <2> QED BY <1>8, <2>2, <2>3, <2>4, <2>5, Zenon DEF Hears
<1>22. Good(c)'
  BY <1>17, <1>19, <1>21 DEF Good
<1> QED BY <1>12, <1>22 DEF ReplayInv

---------------------------------------------------------------------------
\* Every step of the daemon, its tasks and its clients keeps all of it.
LEMMA StepKeeps ==
  ASSUME Base, ReplayInv, [Next]_vars
  PROVE  Base' /\ ReplayInv'
<1>1. ASSUME NEW e \in Emitters, EmitStep(e), UNCHANGED ctlVars PROVE Base' /\ ReplayInv'
  BY <1>1, BusStepBase, BusStepGood
<1>2. ASSUME NEW c \in Clients,
             \/ \E roles \in {{"observer"}, {"control"}} : Attach(c, roles)
             \/ Disconnect(c) \/ Forward(c) \/ Receive(c) \/ wait_for(c)
             \/ \E req \in Requests(c) : Call(c, req)
             \/ ServeStep(c)
      PROVE  Base' /\ ReplayInv'
  <2>1. CASE \E roles \in {{"observer"}, {"control"}} : Attach(c, roles)
    BY <2>1, AttachGood
  <2>2. CASE Disconnect(c)
    BY <2>2, DisconnectGood
  <2>3. CASE Forward(c)
    BY <2>3, ForwardGood
  <2>4. CASE Receive(c)
    BY <2>4, ReceiveBase, ReceiveGood
  <2>5. CASE wait_for(c)
    <3>1. Base' /\ UNCHANGED <<busVars, conn, serving, seen, mark, warned, synced>>
      BY <2>5, WaitBase
    <3>2. Sending' = Sending /\ UNCHANGED <<bus, rung, inorder>>
      BY <3>1 DEF busVars, Sending
    <3> QED BY <3>1, <3>2, StandsStill DEF ReplayInv
  <2>6. CASE \E req \in Requests(c) : Call(c, req)
    BY <2>6, CallBase, CallGood
  <2>7. CASE Refuse(c) \/ events_replay(c)
    BY <2>7, AnswerBase, AnswerGood
  <2>8. CASE SpawnTask(c)
    <3>1. Base' /\ UNCHANGED <<busVars, conn, seen, mark, warned, synced>>
      BY <2>8, SpawnBase
    <3>2. PICK s : serving' = [serving EXCEPT ![c] = s] /\ s.pc = "insert"
      BY <2>8, SpawnBase
    <3>3. Sending' = Sending /\ UNCHANGED <<bus, rung, inorder>>
      BY <3>1 DEF busVars, Sending
    <3> QED BY <3>1, <3>2, <3>3, ServedGood
  <2>9. CASE InsertTask(c) \/ task_cancel(c)
    <3>1. /\ Base' /\ Sending' = Sending
          /\ UNCHANGED <<bus, rung, inorder, conn, seen, mark, warned, synced>>
      BY <2>9, InsertBase, CancelBase
    <3>2. PICK f : serving' = [serving EXCEPT ![c] = [pc |-> "reply", reply |-> f]] /\ f.k # "replay"
      BY <2>9, InsertBase, CancelBase
    <3>3. PICK s : s = [pc |-> "reply", reply |-> f]
      OBVIOUS
    <3>4. s.pc = "reply" /\ s.reply = f /\ serving' = [serving EXCEPT ![c] = s]
      BY <3>2, <3>3
    <3> QED BY <3>1, <3>2, <3>4, ServedGood
  <2>10. CASE Reply(c)
    BY <2>10, ReplyBase, ReplyGood
  <2> QED BY <1>2, <2>1, <2>2, <2>3, <2>4, <2>5, <2>6, <2>7, <2>8, <2>9, <2>10, Zenon DEF ServeStep
<1>3. ASSUME NEW t \in Tasks, Settle(t) \/ \E o \in Outcomes : WorkEnds(t, o)
      PROVE  Base' /\ ReplayInv'
  <2>1. /\ Base' /\ Sending' = Sending
        /\ UNCHANGED <<bus, rung, inorder, conn, serving, seen, mark, warned, synced>>
    BY <1>3, SettleBase, WorkBase
  <2> QED BY <2>1, StandsStill DEF ReplayInv
<1>4. CASE UNCHANGED vars
  <2>1. UNCHANGED <<busVars, conn, serving, cl, seen, mark, warned, synced, tasks, worker, unlisted, cancels>>
    BY <1>4 DEF vars, ctlVars
  <2>2. Sending' = Sending /\ UNCHANGED <<bus, rung, inorder>>
    BY <2>1 DEF busVars, Sending
  <2>3. CtlTyped'
    BY <2>1, <2>2 DEF Base, CtlTyped, Up
  <2>4. Base'
    BY <2>1, <2>3, ConnStepBase
  <2> QED BY <2>1, <2>2, <2>4, StandsStill DEF ReplayInv
<1> QED BY <1>1, <1>2, <1>3, <1>4, Zenon DEF Next

\* It holds when the daemon starts.
LEMMA InitHolds ==
  ASSUME Init
  PROVE  Base /\ ReplayInv
<1>1. BusTyped
  BY EventBusAssumption DEF Init, BusInit, BusTyped
<1>2. OrderInv
  BY DEF Init, BusInit, OrderInv
<1>3. CtlTyped
  BY ControlAssumption DEF Init, CtlTyped, Up, Idle
<1>4. TaskInv
  BY Apart DEF Init, TaskInv, Inserting, Serving, RunningIsRunning
<1>5. EmitInv
  BY Apart DEF Init, BusInit, EmitInv
<1>6. ReplayInv
  BY DEF Init, BusInit, ReplayInv, Good, Known, Marked, Whole, Up
<1> QED BY <1>1, <1>2, <1>3, <1>4, <1>5, <1>6 DEF Base

\* Types and replays at once.
LEMMA AllHolds == Spec => [](Base /\ ReplayInv)
<1>1. Init => Base /\ ReplayInv
  BY InitHolds
<1>2. Base /\ ReplayInv /\ [Next]_vars => (Base /\ ReplayInv)'
  BY StepKeeps
<1> QED BY <1>1, <1>2, PTL DEF Spec

\* Control.TypeOK, for any clients, tasks and sizes.
THEOREM ControlTypes == Spec => []TypeOK
<1>1. Base /\ ReplayInv => TypeOK
  <2> SUFFICES ASSUME Base, ReplayInv PROVE TypeOK
    OBVIOUS
  <2>1. BusTyped /\ CtlTyped
    BY DEF Base
  <2>2. BusTypeOK
    <3>1. \A v \in Envelopes : v.seq \in Nat \ {0}
      BY DEF Envelopes
    <3>2. (\A i \in DOMAIN ring : ring[i] \in Envelopes) /\ (\A i \in DOMAIN bus : bus[i] \in Envelopes)
      BY <2>1 DEF BusTyped
    <3>3. \A e \in Emitters : emitting[e] = None \/ emitting[e].stage \in {"seq", "ring", "send"}
      BY <2>1 DEF BusTyped, Emits
    <3> QED BY <2>1, <3>1, <3>2, <3>3 DEF BusTyped, BusTypeOK
  <2>3. ASSUME NEW c \in Clients
        PROVE  /\ Up(c) => /\ conn[c].pos \in 0..Len(bus) /\ conn[c].deaf \in BOOLEAN
                           /\ Len(conn[c].out) <= OutCap
               /\ cl[c].pc \in {"idle", "called", "started", "waiting"}
               /\ serving[c] # None => serving[c].pc \in {"dispatch", "insert", "reply"}
               /\ seen[c] \subseteq 1..seq /\ mark[c] \in 0..seq
    <3>1. Up(c) => /\ conn[c].pos \in 0..Len(bus) /\ conn[c].deaf \in BOOLEAN
                   /\ Len(conn[c].out) <= OutCap
      BY <2>1, ConnTypes, Numbers
    <3>2. serving[c] # None => serving[c].pc \in {"dispatch", "insert", "reply"}
      BY <2>1, ServingTypes DEF Servings
    <3>3. seen[c] \subseteq rung /\ mark[c] \in rung \cup {0}
      BY DEF ReplayInv, Good, Known
    <3>4. seq \in Nat /\ rung \subseteq 1..(seq - 1)
      BY <2>1 DEF BusTyped
    <3>5. seen[c] \subseteq 1..seq /\ mark[c] \in 0..seq
      <4>1. (\A r \in 1..(seq - 1) : r \in 1..seq /\ r \in 0..seq) /\ 0 \in 0..seq
        BY <3>4
      <4> QED BY <3>3, <3>4, <4>1, Zenon
    <3> QED BY <2>1, <3>1, <3>2, <3>5 DEF CtlTyped
  <2> QED BY <2>1, <2>2, <2>3 DEF TypeOK, CtlTyped
<1> QED BY <1>1, AllHolds, PTL

\* Control.RunningIsRunning: task.list tells the truth about a task, however
\* spawn_task, task_cancel and the future itself interleave.
THEOREM TaskListIsTrue == Spec => []RunningIsRunning
<1>1. Base /\ ReplayInv => RunningIsRunning
  BY DEF Base, TaskInv
<1> QED BY <1>1, AllHolds, PTL

\* Control.ReplayTellsAll: after a reconnect and events.replay from the number
\* it persisted, a client that was not warned has, or is about to get, every
\* event, whatever the sizes of the ring, the channel and the connection.
THEOREM ReplayIsComplete == Spec => []ReplayTellsAll
<1>1. Base /\ ReplayInv => ReplayTellsAll
  <2> SUFFICES ASSUME Base, ReplayInv, NEW c \in Clients, Up(c), synced[c], ~Warned(c), inorder,
                      NEW r \in rung
               PROVE  r \in seen[c] \cup OnTheWay(c)
    BY DEF ReplayTellsAll
  <2>1. PICK o : o = conn[c].out
    OBVIOUS
  <2>2. o \in Seq(OutFrames) /\ conn[c].pos \in Nat
    BY <2>1, ConnTypes DEF Base
  <2>3. Len(o) \in Nat /\ DOMAIN o = 1..Len(o)
    BY <2>2
  <2>4. ~warned[c] /\ \A i \in DOMAIN o : o[i].k # "lag"
    BY <2>1 DEF Warned, ToSet
  <2>5. Gain(c, {})
    BY DEF Gain
  <2>6. Complete(c, {})
    BY <2>4, <2>5 DEF ReplayInv, Good, Whole
  <2>7. \/ r \in seen[c] \/ r \in Sending
        \/ \E i \in DOMAIN o : o[i].k = "ev" /\ o[i].env.seq = r
        \/ \E i \in DOMAIN bus : i > conn[c].pos /\ bus[i].seq = r
    BY <2>1, <2>3, <2>4, <2>6 DEF Complete, NoLag, Event
  <2>8. CASE r \in Sending
    BY <2>8 DEF OnTheWay, Sending
  <2>9. CASE \E i \in DOMAIN o : o[i].k = "ev" /\ o[i].env.seq = r
    <3>1. PICK i \in DOMAIN o : o[i].k = "ev" /\ o[i].env.seq = r
      BY <2>9
    <3>2. o[i] \in {g \in ToSet(conn[c].out) : g.k = "ev"}
      BY <2>1, <3>1 DEF ToSet
    <3> QED BY <3>1, <3>2 DEF OnTheWay
  <2>10. CASE \E i \in DOMAIN bus : i > conn[c].pos /\ bus[i].seq = r
    <3>1. PICK i \in DOMAIN bus : i > conn[c].pos /\ bus[i].seq = r
      BY <2>10
    <3>2. PICK p : p = conn[c].pos
      OBVIOUS
    <3>3. PICK s : s = SubSeq(bus, p + 1, Len(bus))
      OBVIOUS
    <3>4. bus \in Seq(Envelopes) /\ Len(bus) \in Nat /\ p \in Nat /\ i \in 1..Len(bus) /\ i > p
      BY <2>2, <3>1, <3>2, Numbers
    <3>5. i - p \in DOMAIN s /\ s[i - p] = bus[i]
      BY <3>3, <3>4
    <3>6. bus[i] \in ToSet(SubSeq(bus, conn[c].pos + 1, Len(bus)))
      BY <3>2, <3>3, <3>5 DEF ToSet
    <3> QED BY <3>1, <3>6 DEF OnTheWay
  <2> QED BY <2>7, <2>8, <2>9, <2>10
<1> QED BY <1>1, AllHolds, PTL

---------------------------------------------------------------------------
(* What a step may never do to a task. *)

\* A task that task.list calls settled is never running again, no entry is
\* lost, and a future that was aborted or has ended does nothing more.
Settled(t) ==
  /\ tasks[t] \in Terminal => tasks'[t] \in Terminal
  /\ tasks[t] # None => tasks'[t] # None
  /\ worker[t] \in {"aborted", "ended"} => worker'[t] = worker[t]

\* spawn_task enters "running" after the future has started, task_cancel and
\* the future write the entry without looking at it: even so no late insert
\* reopens a settled entry, whatever the order of their steps.
THEOREM TasksStaySettled == Spec => [][\A t \in Tasks : Settled(t)]_vars
<1>1. ASSUME Base, [Next]_vars, NEW t \in Tasks
      PROVE  Settled(t)
  <2> USE <1>1
  <2>0. CtlTyped /\ TaskInv
    BY DEF Base
  <2>1. /\ None \notin Terminal /\ "running" # None /\ Outcomes \subseteq Terminal
        /\ "aborted" \notin Outcomes /\ "ended" \notin Outcomes
    BY ControlAssumption DEF Terminal
  <2>2. CASE UNCHANGED <<tasks, worker>>
    BY <2>2 DEF Settled
  <2>3. ASSUME NEW c \in Clients, SpawnTask(c) PROVE Settled(t)
    BY <2>0, <2>3 DEF SpawnTask, Settled, CtlTyped
  <2>4. ASSUME NEW c \in Clients, InsertTask(c) PROVE Settled(t)
    <3>1. /\ Serving(c, "insert") /\ UNCHANGED worker
          /\ tasks' = [tasks EXCEPT ![serving[c].req.t] = "running"]
      BY <2>4 DEF InsertTask
    <3>2. CASE serving[c].req.t = t
      <4>1. tasks[t] = None
        BY <2>0, <3>1, <3>2 DEF TaskInv, Inserting
      <4> QED BY <2>1, <3>1, <4>1 DEF Settled
    <3>3. CASE serving[c].req.t # t
      <4>1. tasks'[t] = tasks[t]
        BY <2>0, <3>1, <3>3 DEF CtlTyped
      <4> QED BY <3>1, <4>1 DEF Settled
    <3> QED BY <3>2, <3>3
  <2>5. ASSUME NEW c \in Clients, task_cancel(c) PROVE Settled(t)
    <3>1. \/ UNCHANGED <<tasks, worker>>
          \/ LET u == serving[c].req.t
             IN  /\ tasks' = [tasks EXCEPT ![u] = "cancelled"]
                 /\ worker' = [worker EXCEPT ![u] = IF worker[u] = "work" THEN "aborted" ELSE worker[u]]
      BY <2>5 DEF task_cancel
    <3>2. CASE UNCHANGED <<tasks, worker>>
      BY <2>2, <3>2
    <3>3. PICK u : u = serving[c].req.t
      OBVIOUS
    <3>4. CASE /\ tasks' = [tasks EXCEPT ![u] = "cancelled"]
               /\ worker' = [worker EXCEPT ![u] = IF worker[u] = "work" THEN "aborted" ELSE worker[u]]
      <4>1. /\ tasks'[t] = (IF t = u THEN "cancelled" ELSE tasks[t])
            /\ worker'[t] = (IF t = u /\ worker[u] = "work" THEN "aborted" ELSE worker[t])
        BY <2>0, <3>4 DEF CtlTyped
      <4>2. "cancelled" \in Terminal
        BY DEF Terminal
      <4> QED BY <2>1, <4>1, <4>2 DEF Settled
    <3> QED BY <3>1, <3>2, <3>3, <3>4
  <2>6. ASSUME NEW u \in Tasks, NEW o \in Outcomes, WorkEnds(u, o) PROVE Settled(t)
    <3>1. worker[u] = "work" /\ worker' = [worker EXCEPT ![u] = o] /\ UNCHANGED tasks
      BY <2>6 DEF WorkEnds
    <3>2. t # u => worker'[t] = worker[t]
      BY <2>0, <3>1 DEF CtlTyped
    <3> QED BY <3>1, <3>2 DEF Settled
  <2>7. ASSUME NEW u \in Tasks, Settle(u) PROVE Settled(t)
    <3>1. /\ worker[u] \in Outcomes /\ worker' = [worker EXCEPT ![u] = "ended"]
          /\ tasks' = IF tasks[u] = None THEN tasks ELSE [tasks EXCEPT ![u] = worker[u]]
      BY <2>7 DEF Settle
    <3>2. (t # u => worker'[t] = worker[t]) /\ (t = u => worker[t] \notin {"aborted", "ended"})
      BY <2>0, <2>1, <3>1 DEF CtlTyped
    <3>3. tasks'[t] = tasks[t] \/ tasks'[t] \in Outcomes
      BY <2>0, <3>1 DEF CtlTyped
    <3> QED BY <2>1, <3>2, <3>3 DEF Settled
  <2>8. ASSUME NEW c \in Clients, Refuse(c) \/ events_replay(c) \/ Reply(c) PROVE Settled(t)
    BY <2>2, <2>8 DEF Refuse, events_replay, Reply
  <2>9. ASSUME NEW c \in Clients,
               \/ \E roles \in {{"observer"}, {"control"}} : Attach(c, roles)
               \/ Disconnect(c) \/ Forward(c) \/ Receive(c) \/ wait_for(c)
               \/ \E req \in Requests(c) : Call(c, req)
        PROVE  Settled(t)
    BY <2>2, <2>9 DEF Attach, Disconnect, Forward, Receive, wait_for, Call
  <2>10. CASE UNCHANGED ctlVars
    BY <2>2, <2>10 DEF ctlVars
  <2>11. CASE UNCHANGED vars
    BY <2>10, <2>11 DEF vars
  <2> QED
    BY <2>3, <2>4, <2>5, <2>6, <2>7, <2>8, <2>9, <2>10, <2>11, Zenon DEF Next, ServeStep
<1>2. Base /\ [Next]_vars => [\A t \in Tasks : Settled(t)]_vars
  BY <1>1
<1> QED BY <1>2, AllHolds, PTL DEF Spec
=============================================================================
