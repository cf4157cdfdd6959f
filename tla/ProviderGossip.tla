--------------------------- MODULE ProviderGossip ---------------------------
(***************************************************************************)
(* One blob's provider index on several replicas of a drop.  Authors       *)
(* announce and withdraw availability with their own wall clock; relays    *)
(* and catch-up logs deliver those frames to every replica in any order,   *)
(* late and more than once (the dedup cache forgets after ten minutes).    *)
(***************************************************************************)
EXTENDS ProviderSet

CONSTANTS
  Peers,       \* endpoint ids, ordered as naturals
  Replicas,    \* the peers whose index is modelled
  Authors,     \* the peers that serve the blob
  Fetchers,    \* the replicas that download it
  MaxClaims,   \* bound: provider frames ever published
  MaxClock,    \* bound: authors' clocks, in milliseconds
  MaxFailures  \* bound: consecutive failures recorded for a provider

ASSUME PeersAssumption ==
  /\ Peers \subseteq Nat /\ IsFiniteSet(Peers)
  /\ Replicas \subseteq Peers /\ Authors \subseteq Peers /\ Fetchers \subseteq Replicas
ASSUME BoundsAssumption ==
  /\ MaxClaims \in Nat /\ MaxClock \in Nat \ {0} /\ MaxFailures \in Nat

VARIABLES
  index,      \* index[r]: replica r's ProviderSet for the blob
  published,  \* every provider frame any author has broadcast
  latest,     \* latest[p]: the author's own last claim (history)
  offered,    \* the replicas whose offer table holds the blob
  trying,     \* trying[r]: providers of r's running download, untried yet
  heard,      \* heard[r]: frames applied by r (history)
  dropped     \* dropped[r]: peers whose entry r has ever forgotten (history)

vars == <<index, published, latest, offered, trying, heard, dropped>>

FrameIds == 1..MaxClaims
Claims ==
  [author : Authors, ts : 1..MaxClock, frame : FrameIds, withdrawn : BOOLEAN]
NoClaim == [author |-> None]

Init ==
  /\ index = [r \in Replicas |-> EmptySet]
  /\ published = {}
  /\ latest = [p \in Authors |-> NoClaim]
  /\ offered = {}
  /\ trying = [r \in Replicas |-> {}]
  /\ heard = [r \in Replicas |-> {}]
  /\ dropped = [r \in Replicas |-> {}]

\* now_ms(): a wall clock that does not run backwards but may return the
\* same millisecond twice.
ClockOk(p, ts) == latest[p] # NoClaim => latest[p].ts <= ts

\* Random 16-byte ids: any value no other frame has.
FreshFrame(f) == \A m \in published : m.frame # f

Publish(p, ts, f, w) ==
  LET m == [author |-> p, ts |-> ts, frame |-> f, withdrawn |-> w]
  IN  /\ ClockOk(p, ts)
      /\ FreshFrame(f)
      /\ published' = published \cup {m}
      /\ latest' = [latest EXCEPT ![p] = m]

\* mark_complete: enter ourselves in our own index and announce Available; a
\* blob without a record gets one, with us as its offerer, within our quota.
mark_complete(p, ts, f) ==
  /\ Publish(p, ts, f, FALSE)
  /\ \E synthesized \in BOOLEAN :
       /\ synthesized => p \in Replicas \ offered
       /\ index' = IF p \in Replicas
                   THEN [index EXCEPT ![p] = add(index[p], p, synthesized)] ELSE index
       /\ offered' = IF synthesized THEN offered \cup {p} ELSE offered
  /\ UNCHANGED <<trying, heard, dropped>>

\* announce_withdrawal: broadcast Withdrawing for a blob we announced and
\* have on record; our own index is not touched.
announce_withdrawal(p, ts, f) ==
  /\ latest[p] # NoClaim
  /\ p \in Replicas => p \in offered
  /\ Publish(p, ts, f, TRUE)
  /\ UNCHANGED <<index, offered, trying, heard, dropped>>

\* handle_request: a peer whose store holds the blob answers Available; its
\* reply is not retained and its own tables are not touched.
handle_request(p, ts, f) ==
  /\ latest[p] # NoClaim
  /\ Publish(p, ts, f, FALSE)
  /\ UNCHANGED <<index, offered, trying, heard, dropped>>

\* The Provider arm of handle_message (record_provider, withdraw_provider).
HearClaim(r, m) ==
  LET s == record(index[r], m.author, m.ts, m.frame, m.withdrawn)
  IN  /\ index' = [index EXCEPT ![r] = s]
      /\ heard' = [heard EXCEPT ![r] = @ \cup {m}]
      /\ dropped' = [dropped EXCEPT ![r] =
                       @ \cup ((Known(index[r]) \cup {m.author}) \ Known(s))]
      /\ UNCHANGED <<published, latest, offered, trying>>

\* record_offer_inner: the offerer is assumed to serve the content.
HearOffer(r, p) ==
  /\ index' = [index EXCEPT ![r] = add(index[r], p, TRUE)]
  /\ offered' = offered \cup {r}
  /\ UNCHANGED <<published, latest, trying, heard, dropped>>

\* enforce_offer_cap evicts the offer and with it the whole ProviderSet.
EvictOffer(r) ==
  /\ r \in offered
  /\ offered' = offered \ {r}
  /\ index' = [index EXCEPT ![r] = EmptySet]
  /\ dropped' = [dropped EXCEPT ![r] = @ \cup Known(index[r])]
  /\ UNCHANGED <<published, latest, trying, heard>>

\* download_attempt: the list handed to the downloader is a snapshot.
StartDownload(r) ==
  /\ trying[r] = {}
  /\ Live(index[r]) \ {r} # {}
  /\ trying' = [trying EXCEPT ![r] = Live(index[r]) \ {r}]
  /\ UNCHANGED <<index, published, latest, offered, heard, dropped>>

\* DownloadProgressItem::ProviderFailed; by then the set may be gone.
ProviderFailed(r, p) ==
  /\ EntryOf(index[r], p).failures < MaxFailures
  /\ trying' = [trying EXCEPT ![r] = @ \ {p}]
  /\ index' = IF index[r] = EmptySet THEN index
              ELSE [index EXCEPT ![r] = mark_failure(index[r], p)]
  /\ UNCHANGED <<published, latest, offered, heard, dropped>>

\* The download completes from provider p.
ProviderSucceeded(r, p) ==
  /\ trying' = [trying EXCEPT ![r] = {}]
  /\ index' = [index EXCEPT ![r] = mark_success(index[r], p)]
  /\ UNCHANGED <<published, latest, offered, heard, dropped>>

Next ==
  \/ \E p \in Authors, ts \in 1..MaxClock, f \in FrameIds :
       \/ mark_complete(p, ts, f)
       \/ announce_withdrawal(p, ts, f)
       \/ handle_request(p, ts, f)
  \/ \E r \in Replicas :
       \/ \E m \in published : HearClaim(r, m)
       \/ \E p \in Authors : HearOffer(r, p)
       \/ EvictOffer(r)
  \/ \E r \in Fetchers :
       \/ StartDownload(r)
       \/ \E p \in trying[r] : ProviderFailed(r, p) \/ ProviderSucceeded(r, p)

Spec == Init /\ [][Next]_vars

---------------------------------------------------------------------------
IsProviderSet(s) ==
  /\ s = [original |-> s.original, providers |-> s.providers]
  /\ s.original \in Peers \cup {None}
  /\ Known(s) \subseteq Peers
  /\ s.providers \in [Known(s) -> ProviderInfo]

TypeOK ==
  /\ DOMAIN index = Replicas
  /\ \A r \in Replicas : IsProviderSet(index[r])
  /\ published \subseteq Claims
  /\ latest \in [Authors -> Claims \cup {NoClaim}]
  /\ offered \subseteq Replicas
  /\ trying \in [Replicas -> SUBSET Peers]
  /\ heard \in [Replicas -> SUBSET Claims]
  /\ dropped \in [Replicas -> SUBSET Peers]

HeardOf(r, p) == {m \in heard[r] : m.author = p}

\* m precedes n in their author's order of its own claims.
ClaimBefore(m, n) == Before(m.ts, m.frame, n.ts, n.frame)

SaysOnRecord(r, p, m) ==
  LET e == EntryOf(index[r], p)
  IN  /\ e.announced
      /\ e.announced_at_ms = m.ts
      /\ e.last_frame_id = m.frame
      /\ e.withdrawn = m.withdrawn

\* Unless the entry was dropped, what a replica has on record about an author
\* is that author's newest claim among all it was handed, in whatever order
\* and however often they were delivered (ProviderSet::record).
RecordIsNewestHeard ==
  \A r \in Replicas : \A p \in Peers \ dropped[r] : \A m \in HeardOf(r, p) :
    (\A n \in HeardOf(r, p) : ~ClaimBefore(m, n)) => SaysOnRecord(r, p, m)

\* Two replicas that were handed the same claims of an author agree on
\* whether it serves the blob ("every peer - whatever order its relay
\* delivered the two assertions in - converges on the same winner").
Convergence ==
  \A r1, r2 \in Replicas : \A p \in Peers \ (dropped[r1] \cup dropped[r2]) :
    HeardOf(r1, p) = HeardOf(r2, p) /\ HeardOf(r1, p) # {}
      => (p \in Live(index[r1]) <=> p \in Live(index[r2]))

\* A withdrawal later than every other claim of its author is final: no stale
\* relay, offer or failed download puts the author back among the providers.
WithdrawalSticksUnlessDropped ==
  \A r \in Replicas : \A p \in Authors \ dropped[r] :
    /\ latest[p] # NoClaim /\ latest[p].withdrawn /\ latest[p] \in heard[r]
    /\ \A m \in published : m.author = p /\ m # latest[p] => m.ts < latest[p].ts
    => p \notin Live(index[r])

\* The original offerer keeps its place: whenever it and another provider
\* have failed equally often, the original is tried first.
OriginalFirstAmongEquals ==
  \A r \in Replicas :
    LET o == index[r].original
        f == FirstTried(index[r], r)
    IN  o \in Live(index[r]) \ {r}
          => f = o \/ EntryOf(index[r], f).failures < EntryOf(index[r], o).failures

---------------------------------------------------------------------------
\* The claim a replica holds, as NewestClaims sees it.
ClaimOnRecord(r, p) ==
  LET e == EntryOf(index[r], p)
  IN  IF e.announced
      THEN [ts |-> e.announced_at_ms, frame |-> e.last_frame_id,
            withdrawn |-> e.withdrawn]
      ELSE NoClaim

Abstract ==
  INSTANCE NewestClaims WITH
    ClaimValues <- [ts : 1..MaxClock, frame : FrameIds, withdrawn : BOOLEAN],
    view <- [r \in Replicas |-> [p \in Peers |-> ClaimOnRecord(r, p)]]

\* The index moves each author's claim only forward in that author's own
\* order, or forgets it.
NewestClaimsImplemented == Abstract!Spec
=============================================================================
