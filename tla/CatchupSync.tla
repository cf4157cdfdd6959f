---------------------------- MODULE CatchupSync ----------------------------
(***************************************************************************)
(* Catch-up sync between the members of one drop (sync.rs), with the       *)
(* front half of handle_message that live gossip and replayed pages share: *)
(* rate limit, dedup, retention.  Live frames arrive at both ends while a  *)
(* pull is under way; the dedup cache forgets; connections fail anywhere.  *)
(***************************************************************************)
EXTENDS SyncLog

CONSTANTS
  Nodes,
  Members,          \* the nodes with a live session for the topic
  Author,           \* Author[f]: the node that signed f
  Sealed,           \* DropMode::Sealed
  KeyHolders,       \* the nodes with the drop key (sealed drops)
  Unknown,          \* frames whose body a session does not decode, extensions
  Transient,        \* Request frames, never retained
  Bootstrap,        \* Bootstrap[n]: the peers of n's ticket, in order
  DEDUP_CAPACITY,
  Burst,            \* limits.rs: MESSAGES.burst
  MAX_FRAMES_PER_PAGE, MAX_PAGES_PER_ATTEMPT, MAX_TOTAL_FRAMES,
  MAX_TOTAL_BYTES_PER_ATTEMPT,
  Overhead,         \* envelope bytes around a page's frames
  Pullers,          \* bound: the nodes whose pulls are modelled
  MaxRetained,      \* bound: frames a node ever retains
  MaxRounds         \* bound: pulls a node ever starts (0: no bound)

ASSUME SyncAssumption ==
  /\ Members \subseteq Nodes /\ KeyHolders \subseteq Nodes /\ Sealed \in BOOLEAN
  /\ Author \in [Frames -> Nodes]
  /\ Unknown \subseteq Frames /\ Transient \subseteq Frames
  /\ Bootstrap \in [Nodes -> Seq(Nodes)]
  /\ Pullers \subseteq Nodes /\ MaxRetained \in Nat /\ MaxRounds \in Nat
  /\ DEDUP_CAPACITY \in Nat \ {0} /\ Burst \in Nat \ {0}
  /\ MAX_FRAMES_PER_PAGE \in Nat \ {0} /\ MAX_PAGES_PER_ATTEMPT \in Nat
  /\ Overhead \in Nat

VARIABLES
  log,      \* log[n]: n's retained frames
  seen,     \* seen[n]: DedupCache.order; its entries are the same set
  tokens,   \* tokens[n][p]: what p may still deliver to n
  task,     \* task[n]: the pull n is running (sync_catchup)
  rounds,   \* rounds[n]: pulls started (1 for any, when MaxRounds is 0)
  pending,  \* pending[n]: live frames on their way to n; any may be lost
  applied,  \* applied[n]: frames n dispatched at least once (history)
  owed,     \* owed[n]: what the peer retained at the pull's first page (history)
  lossy     \* lossy[n]: the pull saw a truncated page or a limited frame

vars == <<log, seen, tokens, task, rounds, pending, applied, owed, lossy>>

Idle == [pc |-> "idle", peers |-> <<>>]

Init ==
  /\ log = [n \in Nodes |-> EmptyLog]
  /\ seen = [n \in Nodes |-> <<>>]
  /\ tokens = [n \in Nodes |-> [p \in Nodes |-> Burst]]
  /\ task = [n \in Nodes |-> Idle]
  /\ rounds = [n \in Nodes |-> 0]
  /\ pending = [n \in Nodes |-> {}]
  /\ applied = [n \in Nodes |-> {}]
  /\ owed = [n \in Nodes |-> {}]
  /\ lossy = [n \in Nodes |-> FALSE]

InLog(n) == {log[n].frames[i] : i \in DOMAIN log[n].frames}
InCache(n) == {seen[n][i] : i \in DOMAIN seen[n]}

---------------------------------------------------------------------------
\* DedupCache::check_and_insert for a new key; expiry is Expire's business.
Remember(n, f) ==
  LET s == seen[n]
      k == IF Len(s) >= DEDUP_CAPACITY THEN Len(s) - DEDUP_CAPACITY + 1 ELSE 0
  IN  [seen EXCEPT ![n] = Append(SubSeq(s, k + 1, Len(s)), f)]

\* A blind relay decodes no sealed frame: all of them are unknown to it.
IsUnknown(n, f) == f \in Unknown \/ (Sealed /\ n \notin KeyHolders)

Retain(n, f) ==
  IF IsUnknown(n, f) THEN retain_unknown_frame(log[n], f)
  ELSE IF f \in Transient THEN log[n] ELSE retain_frame(log[n], f)

\* Mutant of Limited: the last token of a bucket is kept.
Limited_reserve(n, from) == tokens[n][from] <= 1

\* PeerRateLimiter::allow refuses the delivering peer.
Limited(n, from) == tokens[n][from] = 0

\* handle_message up to dispatch: flood control first, then the dedup cache,
\* then retention.
handle_message(n, from, f) ==
  /\ tokens' = IF Limited(n, from) THEN tokens
               ELSE [tokens EXCEPT ![n][from] = @ - 1]
  /\ IF Limited(n, from) \/ f \in InCache(n)
     THEN UNCHANGED <<log, seen, applied>>
     ELSE /\ End(log[n]) < MaxRetained
          /\ seen' = Remember(n, f)
          /\ log' = [log EXCEPT ![n] = Retain(n, f)]
          /\ applied' = [applied EXCEPT ![n] = @ \cup {f}]

---------------------------------------------------------------------------
\* broadcast_signed: our own frame enters our dedup cache and log first.
broadcast_signed(n, f) ==
  /\ n \in Members /\ (Sealed => n \in KeyHolders)
  /\ \A m \in Nodes : f \notin applied[m]
  /\ End(log[n]) < MaxRetained
  /\ seen' = Remember(n, f)
  /\ log' = [log EXCEPT ![n] = Retain(n, f)]
  /\ applied' = [applied EXCEPT ![n] = @ \cup {f}]
  /\ pending' = [m \in Nodes |-> IF m \in Members \ {n} THEN pending[m] \cup {f}
                                ELSE pending[m]]
  /\ UNCHANGED <<tokens, task, rounds, owed, lossy>>

\* TransportEvent::Received from a neighbour, any time after the broadcast;
\* further copies of the frame reach n through pulls.
Received(n, from, f) ==
  /\ n # from
  /\ pending' = [pending EXCEPT ![n] = @ \ {f}]
  /\ handle_message(n, from, f)
  /\ UNCHANGED <<task, rounds, owed, lossy>>

\* Time passes: the oldest dedup entry outlives DEDUP_TTL.  (Bounded so that
\* every frame can still be retained once more.)
Expire(n) ==
  /\ seen[n] # <<>>
  /\ End(log[n]) + Cardinality(Frames) <= MaxRetained
  /\ seen' = [seen EXCEPT ![n] = Tail(@)]
  /\ UNCHANGED <<log, tokens, task, rounds, pending, applied, owed, lossy>>

\* Time passes: a bucket refills.
Refill(n, p) ==
  /\ tokens[n][p] < Burst
  /\ tokens' = [tokens EXCEPT ![n][p] = @ + 1]
  /\ UNCHANGED <<log, seen, task, rounds, pending, applied, owed, lossy>>

---------------------------------------------------------------------------
\* The next peer of the list, or the end of sync_catchup.
NextPeer(peers) ==
  IF peers = <<>> THEN Idle ELSE [pc |-> "connect", peers |-> peers]

\* join: the ticket's bootstrap peers; maybe_sync_from_neighbor: the new
\* neighbour alone.  The neighbour cooldown (60 s) outlasts a bucket's refill.
StartPull(n, peers) ==
  /\ n \in Pullers /\ task[n] = Idle /\ peers # <<>>
  /\ n \in Members /\ (Sealed => n \in KeyHolders)
  /\ MaxRounds = 0 \/ rounds[n] < MaxRounds
  /\ rounds' = [rounds EXCEPT ![n] = IF MaxRounds = 0 THEN 1 ELSE @ + 1]
  /\ task' = [task EXCEPT ![n] = NextPeer(peers)]
  /\ UNCHANGED <<log, seen, tokens, pending, applied, owed, lossy>>

join(n) == rounds[n] = 0 /\ StartPull(n, Bootstrap[n])
maybe_sync_from_neighbor(n, p) ==
  /\ n # p
  /\ \A q \in Nodes \ {n} : tokens[n][q] = Burst
  /\ StartPull(n, <<p>>)

\* No connection, or a peer that speaks another version or serves no pages.
ConnectFails(n) ==
  /\ task[n].pc = "connect"
  /\ task' = [task EXCEPT ![n] = NextPeer(Tail(@.peers))]
  /\ UNCHANGED <<log, seen, tokens, rounds, pending, applied, owed, lossy>>

\* Connected, hello exchanged or given up on: page from the beginning.
Connect(n) ==
  /\ task[n].pc = "connect"
  /\ task' = [task EXCEPT ![n] =
       [pc |-> "request", peers |-> @.peers, cursor |-> 0, pages |-> 0,
        total |-> 0, total_bytes |-> 0]]
  /\ lossy' = [lossy EXCEPT ![n] = FALSE]
  /\ UNCHANGED <<log, seen, tokens, rounds, pending, applied, owed>>

\* Mutant of AfterPeer: a peer that sent nothing is tried again.
AfterPeer_retry(t) == IF t.total > 0 THEN Idle ELSE NextPeer(t.peers)

\* The loop over one peer ends; a peer that sent anything is the last.
AfterPeer(t) == IF t.total > 0 THEN Idle ELSE NextPeer(Tail(t.peers))

\* sync_page: a member serves, in sealed drops only a proven key holder, and
\* only if it holds the key itself.
Serves(s, n) == s \in Members /\ (Sealed => {s, n} \subseteq KeyHolders)

Answer(s, n, cursor) ==
  IF Serves(s, n) THEN page(log[s], cursor, MAX_FRAMES_PER_PAGE) ELSE EmptyPage

\* What the client's read_to_end accepts: the whole encoded response.
Readable(r) == Bytes(r.frames) + Overhead <= MAX_RESPONSE_BYTES

\* A page arrives; past the page budget it is thrown away.
RequestPage(n) ==
  LET t == task[n]
      s == Head(t.peers)
      r == Answer(s, n, t.cursor)
  IN  /\ t.pc = "request"
      /\ Readable(r)
      /\ task' = [task EXCEPT ![n] =
           IF t.pages + 1 > MAX_PAGES_PER_ATTEMPT THEN AfterPeer(t)
           ELSE [pc |-> "replay", peers |-> t.peers, cursor |-> t.cursor,
                 pages |-> t.pages + 1, total |-> t.total,
                 total_bytes |-> t.total_bytes, frames |-> r.frames,
                 next_cursor |-> r.next_cursor]]
      /\ owed' = [owed EXCEPT ![n] = IF t.pages # 0 THEN @ ELSE IF Serves(s, n) THEN InLog(s) ELSE {}]
      /\ lossy' = [lossy EXCEPT ![n] = @ \/ r.truncated]
      /\ UNCHANGED <<log, seen, tokens, rounds, pending, applied>>

\* The exchange times out, the server's limiter or its serving permits refuse
\* it, or the response is longer than the client reads.
PageFails(n) ==
  /\ task[n].pc = "request"
  /\ task' = [task EXCEPT ![n] = AfterPeer(@)]
  /\ UNCHANGED <<log, seen, tokens, rounds, pending, applied, owed, lossy>>

\* One frame of the page goes through handle_message, delivered by the peer
\* that served it; past the attempt's budgets sync_catchup returns.
ReplayFrame(n) ==
  LET t == task[n]
      s == Head(t.peers)
      f == Head(t.frames)
      over == \/ t.total + 1 > MAX_TOTAL_FRAMES
              \/ t.total_bytes + Size[f] > MAX_TOTAL_BYTES_PER_ATTEMPT
  IN  /\ t.pc = "replay" /\ t.frames # <<>>
      /\ IF over
         THEN /\ task' = [task EXCEPT ![n] = Idle]
              /\ UNCHANGED <<log, seen, tokens, applied, lossy>>
         ELSE /\ task' = [task EXCEPT ![n].frames = Tail(@), ![n].total = @ + 1,
                                      ![n].total_bytes = @ + Size[f]]
              /\ lossy' = [lossy EXCEPT ![n] = @ \/ Limited(n, s)]
              /\ handle_message(n, s, f)
      /\ UNCHANGED <<rounds, pending, owed>>

\* The page is done: go on while the cursor strictly advances.
EndPage(n) ==
  LET t == task[n]
  IN  /\ t.pc = "replay" /\ t.frames = <<>>
      /\ task' = [task EXCEPT ![n] =
           IF t.next_cursor # None /\ t.next_cursor > t.cursor
           THEN [pc |-> "request", peers |-> t.peers, cursor |-> t.next_cursor,
                 pages |-> t.pages, total |-> t.total,
                 total_bytes |-> t.total_bytes]
           ELSE AfterPeer(t)]
      /\ UNCHANGED <<log, seen, tokens, rounds, pending, applied, owed, lossy>>

PullStep(n) ==
  \/ Connect(n) \/ ConnectFails(n)
  \/ RequestPage(n) \/ PageFails(n)
  \/ ReplayFrame(n) \/ EndPage(n)

Next ==
  \E n \in Nodes :
    \/ \E f \in Frames : n = Author[f] /\ broadcast_signed(n, f)
    \/ \E p \in Nodes, f \in pending[n] : Received(n, p, f)
    \/ Expire(n)
    \/ \E p \in Nodes : Refill(n, p) \/ maybe_sync_from_neighbor(n, p)
    \/ join(n)
    \/ PullStep(n)

Spec == Init /\ [][Next]_vars

\* Every exchange of a pull has a timeout and replay awaits nothing, so a pull
\* that can go on does.
PullsGoOn == \A n \in Nodes : WF_vars(PullStep(n))
LiveSpec == Spec /\ PullsGoOn

\* A network that lets every exchange through now and then, and neighbours
\* that reconnect for ever: what anti-entropy relies on.
Reconnecting ==
  \A n \in Nodes :
    /\ \A p \in Nodes : WF_vars(Refill(n, p)) /\ WF_vars(maybe_sync_from_neighbor(n, p))
    /\ SF_vars(Connect(n))
    /\ \A c \in 0..MaxRetained : SF_vars(task[n].pc = "request" /\ task[n].cursor = c
                                        /\ RequestPage(n))
ReconnectSpec == LiveSpec /\ Reconnecting

---------------------------------------------------------------------------
TaskTypes ==
  /\ DOMAIN task = Nodes
  /\ \A n \in Nodes :
       LET t == task[n]
       IN  \/ t = Idle
           \/ t.pc = "connect" /\ t.peers \in Seq(Nodes) \ {<<>>}
           \/ /\ t.pc \in {"request", "replay"} /\ t.peers \in Seq(Nodes) \ {<<>>}
              /\ {t.cursor, t.pages, t.total, t.total_bytes} \subseteq Nat
              /\ t.pc = "replay" =>
                   /\ t.frames \in Seq(Frames)
                   /\ t.next_cursor \in Nat \cup {None}

\* The retained log respects both its bounds, and the frames a node cannot
\* read never take more than their own share of it.
LogBounded ==
  \A n \in Nodes :
    LET fs == log[n].frames
    IN  /\ Len(fs) <= SYNC_LOG_CAP
        /\ Bytes(fs) <= SYNC_LOG_MAX_BYTES \/ Len(fs) = 1
        /\ Cardinality({i \in DOMAIN fs : IsUnknown(n, fs[i])}) <= MAX_UNKNOWN_FRAMES

TypeOK ==
  /\ DOMAIN log = Nodes
  /\ \A n \in Nodes :
       /\ log[n].frames \in Seq(Frames)
       /\ {log[n].start, log[n].unknown, log[n].unknown_bytes} \subseteq Nat
  /\ seen \in [Nodes -> Seq(Frames)]
  /\ tokens \in [Nodes -> [Nodes -> 0..Burst]]
  /\ TaskTypes /\ LogBounded
  /\ rounds \in [Nodes -> Nat]
  /\ pending \in [Nodes -> SUBSET Frames] /\ applied \in [Nodes -> SUBSET Frames]
  /\ owed \in [Nodes -> SUBSET Frames] /\ lossy \in [Nodes -> BOOLEAN]

\* The last page of a pull has been replayed and the peer had no more.
CaughtUp(n) ==
  task[n].pc = "replay" /\ task[n].frames = <<>> /\ task[n].next_cursor = None

\* A pull that runs to the end without a truncated page or a rate-limited
\* frame has brought across everything the peer retained when it began,
\* whatever the peer retained or evicted and whatever arrived live meanwhile.
CaughtUpMeansComplete ==
  \A n \in Nodes : CaughtUp(n) /\ ~lossy[n] => owed[n] \subseteq applied[n]

\* Every pull ends, however the peer behaves and however its log grows.
PullsEnd == \A n \in Nodes : task[n] # Idle ~> task[n] = Idle

\* "a bigger backlog simply takes another anti-entropy round (already-seen
\* frames dedup cheaply)" (docs/protocol.md:227): what a peer retains reaches
\* every member that keeps reconnecting to it.
BacklogDrains ==
  \A n, s \in Nodes : \A f \in Frames :
    n \in Pullers /\ f \in InLog(s) ~> f \in applied[n] \/ f \notin InLog(s)
=============================================================================
