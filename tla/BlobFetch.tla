----------------------------- MODULE BlobFetch -----------------------------
(***************************************************************************)
(* Fetching in one session (crates/iroh-drop/src/session.rs, policy.rs):   *)
(* offers arrive on several handlers at once (the gossip loop and catch-up *)
(* replays), may start automatic fetches within the policy's budget, and   *)
(* run beside manual fetches of the same blobs.  Every lock, atomic and    *)
(* await of the code ends a step.  The blob store, the downloader and the  *)
(* network are external: they succeed or fail as they like.                *)
(***************************************************************************)
EXTENDS Integers, FiniteSets, Functions

CONSTANTS
  Hashes,
  Size,       \* Size[h]: the size its offer advertises
  Accepted,   \* hashes whose media type the policy accepts
  Handlers,   \* concurrent callers of handle_offer
  Tasks,      \* bound: fetches in flight at once
  max_blob_size, max_concurrent_fetches, max_total_auto_fetch_bytes,
  Attempts,   \* rounds of fetch_inner_impl, 3 in the code
  Permits,    \* fetch_sem, 64 in the code
  Quota,      \* whether an author's quota may refuse an offer (DropState)
  MaxOffers   \* the offer table's cap (DropState says which offer goes)

ASSUME FetchAssumption ==
  /\ Size \in [Hashes -> Nat] /\ Accepted \subseteq Hashes
  /\ IsFiniteSet(Tasks) /\ IsFiniteSet(Hashes) /\ IsFiniteSet(Handlers)
  /\ Attempts \in Nat \ {0} /\ Permits \in Nat \ {0} /\ MaxOffers \in Nat \ {0}
  /\ Quota \in BOOLEAN
  /\ max_blob_size \in Nat /\ max_concurrent_fetches \in Nat
  /\ max_total_auto_fetch_bytes \in Nat

VARIABLES
  status,     \* status[h]: LocalBlobStatus of its record, "none" without one
  stored,     \* hashes complete in the blob store
  announced,  \* hashes whose last provider frame of ours says Available
  active,     \* active_fetches
  spent,      \* auto_fetch_bytes
  handler,    \* handler[w]: where the handle_offer call of w is
  fetch,      \* fetch[t]: where fetch t is
  kept        \* bytes of the automatic fetches that succeeded (history)

vars == <<status, stored, announced, active, spent, handler, fetch, kept>>
counters == <<active, spent, kept>>

Ready == [pc |-> "ready"]
Free == [pc |-> "free"]

Init ==
  /\ status = [h \in Hashes |-> "none"]
  /\ stored = {} /\ announced = {}
  /\ active = 0 /\ spent = 0 /\ kept = 0
  /\ handler = [w \in Handlers |-> Ready]
  /\ fetch = [t \in Tasks |-> Free]

Records == {h \in Hashes : status[h] # "none"}

\* set_status: only a record still in the table has a status.
set_status(h, s) ==
  IF status[h] = "none" THEN status ELSE [status EXCEPT ![h] = s]

\* The tables that recording h with status s may leave: past the cap one
\* record goes.
Recorded(h, s) ==
  IF Cardinality(Records \cup {h}) <= MaxOffers THEN {[status EXCEPT ![h] = s]}
  ELSE {[status EXCEPT ![h] = s, ![g] = "none"] : g \in Records \cup {h}}

\* record_offer of our own blob, with the status set under the same lock.
RecordedOwn(h) ==
  IF status[h] # "none" THEN {[status EXCEPT ![h] = "Complete"]}
  ELSE Recorded(h, "Complete") \cup (IF Quota THEN {status} ELSE {})

---------------------------------------------------------------------------
\* handle_offer: the decider (external) accepts or says record only; a
\* rejected offer leaves no trace.
HandleOffer(w, h, decision) ==
  /\ handler[w] = Ready
  /\ handler' = [handler EXCEPT ![w] =
                   [pc |-> "record", hash |-> h, decision |-> decision]]
  /\ UNCHANGED <<status, stored, announced, counters, fetch>>

\* Mutant of RecordOffer: a known offer goes on as if it were new.
RecordOffer_known(w) ==
  LET h == handler[w].hash
  IN  /\ handler[w].pc = "record"
      /\ status' \in IF status[h] = "none" THEN Recorded(h, "Missing") ELSE {status}
      /\ handler' = [handler EXCEPT ![w].pc = "already"]
      /\ UNCHANGED <<stored, announced, counters, fetch>>

\* record_offer_bounded: refused over quota, merged if known, else new.
RecordOffer(w) ==
  LET h == handler[w].hash
  IN  /\ handler[w].pc = "record"
      /\ \/ /\ status[h] # "none" \/ Quota
            /\ handler' = [handler EXCEPT ![w] = Ready]
            /\ UNCHANGED status
         \/ /\ status[h] = "none"
            /\ status' \in Recorded(h, "Missing")
            /\ handler' = [handler EXCEPT ![w].pc = "already"]
      /\ UNCHANGED <<stored, announced, counters, fetch>>

\* Nothing to do for a blob we have or are fetching.
CheckAlready(w) ==
  /\ handler[w].pc = "already"
  /\ handler' = [handler EXCEPT ![w] =
       IF status[handler[w].hash] \in {"Complete", "Fetching"} THEN Ready
       ELSE [handler[w] EXCEPT !.pc = "load_active"]]
  /\ UNCHANGED <<status, stored, announced, counters, fetch>>

LoadActive(w) ==
  /\ handler[w].pc = "load_active"
  /\ handler' = [handler EXCEPT ![w] =
       [pc |-> "load_spent", hash |-> handler[w].hash,
        decision |-> handler[w].decision, active |-> active]]
  /\ UNCHANGED <<status, stored, announced, counters, fetch>>

\* Mutant of check_auto_fetch: the concurrency limit is off by one.
check_auto_fetch_off(h, act, sp) ==
  /\ Size[h] <= max_blob_size
  /\ h \in Accepted
  /\ act <= max_concurrent_fetches
  /\ sp + Size[h] <= max_total_auto_fetch_bytes

\* DropPolicy::check_auto_fetch.
check_auto_fetch(h, act, sp) ==
  /\ Size[h] <= max_blob_size
  /\ h \in Accepted
  /\ act < max_concurrent_fetches
  /\ sp + Size[h] <= max_total_auto_fetch_bytes

LoadSpent(w) ==
  LET c == handler[w]
  IN  /\ c.pc = "load_spent"
      /\ handler' = [handler EXCEPT ![w] =
           IF check_auto_fetch(c.hash, c.active, spent) /\ c.decision = "Accept"
           THEN [pc |-> "reserve", hash |-> c.hash] ELSE Ready]
      /\ UNCHANGED <<status, stored, announced, counters, fetch>>

\* The bytes are reserved up front, then the fetch is counted and spawned.
ReserveBytes(w) ==
  /\ handler[w].pc = "reserve"
  /\ spent' = spent + Size[handler[w].hash]
  /\ handler' = [handler EXCEPT ![w].pc = "spawn"]
  /\ UNCHANGED <<status, stored, announced, active, kept, fetch>>

Spawn(w, t) ==
  /\ handler[w].pc = "spawn" /\ fetch[t] = Free
  /\ active' = active + 1
  /\ fetch' = [fetch EXCEPT ![t] =
       [pc |-> "queued", hash |-> handler[w].hash, auto |-> TRUE, attempt |-> 0]]
  /\ handler' = [handler EXCEPT ![w] = Ready]
  /\ UNCHANGED <<status, stored, announced, spent, kept>>

---------------------------------------------------------------------------
InFlight(pcs) == {t \in Tasks : fetch[t].pc \in pcs}
Working == {"status", "attempt", "download", "verify", "mark", "announce", "export", "fail",
            "refund", "release"}
AutoFetches == {t \in InFlight(Working \cup {"queued"}) : fetch[t].auto}

Goto(t, pc) == fetch' = [fetch EXCEPT ![t].pc = pc]

\* A manual fetch: no policy, no permit.
FetchManually(t, h) ==
  /\ fetch[t] = Free
  /\ fetch' = [fetch EXCEPT ![t] =
       [pc |-> "status", hash |-> h, auto |-> FALSE, attempt |-> 0]]
  /\ UNCHANGED <<status, stored, announced, counters, handler>>

Acquire(t) ==
  /\ fetch[t].pc = "queued"
  /\ Cardinality({u \in InFlight(Working) : fetch[u].auto}) < Permits
  /\ Goto(t, "status")
  /\ UNCHANGED <<status, stored, announced, counters, handler>>

\* Already complete locally?
CheckStore(t) ==
  /\ fetch[t].pc = "status"
  /\ Goto(t, IF fetch[t].hash \in stored THEN "mark" ELSE "attempt")
  /\ UNCHANGED <<status, stored, announced, counters, handler>>

\* Mutant of NextRound: a round without the blob does not count.
NextRound_free(t) == fetch' = [fetch EXCEPT ![t].pc = "attempt"]

\* The end of a round without the blob: another round, or the last error.
NextRound(t) ==
  fetch' = [fetch EXCEPT ![t] =
              [pc |-> IF fetch[t].attempt + 1 < Attempts THEN "attempt" ELSE "fail",
               hash |-> fetch[t].hash, auto |-> fetch[t].auto,
               attempt |-> fetch[t].attempt + 1]]

\* No provider known and none answered the request, or it was not sent.
NoProviders(t) ==
  /\ fetch[t].pc = "attempt"
  /\ NextRound(t) \/ Goto(t, "fail")
  /\ UNCHANGED <<status, stored, announced, counters, handler>>

StartDownload(t) ==
  /\ fetch[t].pc = "attempt"
  /\ status' = set_status(fetch[t].hash, "Fetching")
  /\ Goto(t, "download")
  /\ UNCHANGED <<stored, announced, counters, handler>>

Progress(t) ==
  /\ fetch[t].pc = "download"
  /\ status' = set_status(fetch[t].hash, "Fetching")
  /\ UNCHANGED <<stored, announced, counters, handler, fetch>>

\* The progress stream ends without an error, with the blob or without.
DownloadEnds(t) ==
  /\ fetch[t].pc = "download"
  /\ stored' \in {stored, stored \cup {fetch[t].hash}}
  /\ Goto(t, "verify")
  /\ UNCHANGED <<status, announced, counters, handler>>

\* Every provider failed: ask again and go round, or fail to ask.
DownloadFails(t) ==
  /\ fetch[t].pc = "download"
  /\ NextRound(t) \/ Goto(t, "fail")
  /\ UNCHANGED <<status, stored, announced, counters, handler>>

\* Mutant of VerifyStore: the end of the stream is taken for success.
VerifyStore_trusting(t) ==
  /\ fetch[t].pc = "verify"
  /\ Goto(t, "mark")
  /\ UNCHANGED <<status, stored, announced, counters, handler>>

\* Confirm the local status before announcing.
VerifyStore(t) ==
  /\ fetch[t].pc = "verify"
  /\ Goto(t, IF fetch[t].hash \in stored THEN "mark" ELSE "fail")
  /\ UNCHANGED <<status, stored, announced, counters, handler>>

\* mark_complete under the state lock; without a record one is synthesized,
\* unless our own quota is exhausted.
MarkComplete(t) ==
  LET h == fetch[t].hash
  IN  /\ fetch[t].pc = "mark"
      /\ status' \in RecordedOwn(h)
      /\ Goto(t, "announce")
      /\ UNCHANGED <<stored, announced, counters, handler>>

\* The rest of mark_complete: tag the blob, broadcast Available (retained
\* before it is sent, so a failed send still announces it through sync).
Announce(t) ==
  /\ fetch[t].pc = "announce"
  /\ \/ announced' = announced \cup {fetch[t].hash} /\ Goto(t, "export")
     \/ announced' = announced \cup {fetch[t].hash} /\ Goto(t, "fail")
     \/ UNCHANGED announced /\ Goto(t, "fail")
  /\ UNCHANGED <<status, stored, counters, handler>>

Release(t) == IF fetch[t].auto THEN Goto(t, "release")
              ELSE fetch' = [fetch EXCEPT ![t] = Free]

Export(t) ==
  /\ fetch[t].pc = "export"
  /\ \/ /\ Release(t)
        /\ kept' = IF fetch[t].auto THEN kept + Size[fetch[t].hash] ELSE kept
     \/ Goto(t, "fail") /\ UNCHANGED kept
  /\ UNCHANGED <<status, stored, announced, active, spent, handler>>

\* Mutant of FailFetch: the error is returned without the uniform handling.
FailFetch_silent(t) ==
  /\ fetch[t].pc = "fail"
  /\ IF fetch[t].auto THEN Goto(t, "refund") ELSE fetch' = [fetch EXCEPT ![t] = Free]
  /\ UNCHANGED <<status, stored, announced, counters, handler>>

\* fetch_inner's uniform terminal-failure handling.
FailFetch(t) ==
  /\ fetch[t].pc = "fail"
  /\ status' = set_status(fetch[t].hash, "Failed")
  /\ IF fetch[t].auto THEN Goto(t, "refund") ELSE fetch' = [fetch EXCEPT ![t] = Free]
  /\ UNCHANGED <<stored, announced, counters, handler>>

\* Mutant of Refund: the reservation is kept.
Refund_kept(t) ==
  /\ fetch[t].pc = "refund"
  /\ Goto(t, "release")
  /\ UNCHANGED <<status, stored, announced, counters, handler>>

Refund(t) ==
  /\ fetch[t].pc = "refund"
  /\ spent' = spent - Size[fetch[t].hash]
  /\ Goto(t, "release")
  /\ UNCHANGED <<status, stored, announced, active, kept, handler>>

\* Mutant of EndAuto: the counter is decremented on both sides of the match.
EndAuto_twice(t) ==
  /\ fetch[t].pc = "release"
  /\ active' = active - 2
  /\ fetch' = [fetch EXCEPT ![t] = Free]
  /\ UNCHANGED <<status, stored, announced, spent, kept, handler>>

EndAuto(t) ==
  /\ fetch[t].pc = "release"
  /\ active' = active - 1
  /\ fetch' = [fetch EXCEPT ![t] = Free]
  /\ UNCHANGED <<status, stored, announced, spent, kept, handler>>

---------------------------------------------------------------------------
\* finish_import: our own blob is complete, recorded unless our quota is
\* exhausted, and announced unless it cannot be encoded.
publish(h) ==
  /\ stored' = stored \cup {h}
  /\ status' \in RecordedOwn(h)
  /\ announced' \in {announced, announced \cup {h}}
  /\ UNCHANGED <<counters, handler, fetch>>

HandlerStep(w) ==
  \/ RecordOffer(w) \/ CheckAlready(w) \/ LoadActive(w) \/ LoadSpent(w)
  \/ ReserveBytes(w)
  \/ \E t \in Tasks : Spawn(w, t)

FetchStep(t) ==
  \/ Acquire(t) \/ CheckStore(t) \/ NoProviders(t) \/ StartDownload(t)
  \/ DownloadEnds(t) \/ DownloadFails(t) \/ VerifyStore(t)
  \/ MarkComplete(t) \/ Announce(t) \/ Export(t)
  \/ FailFetch(t) \/ Refund(t) \/ EndAuto(t)

Next ==
  \/ \E w \in Handlers :
       \/ \E h \in Hashes, d \in {"Accept", "RecordOnly"} : HandleOffer(w, h, d)
       \/ HandlerStep(w)
  \/ \E t \in Tasks :
       \/ \E h \in Hashes : FetchManually(t, h)
       \/ FetchStep(t) \/ Progress(t)
  \/ \E h \in Hashes : publish(h)

Spec == Init /\ [][Next]_vars

\* Downloads, requests and waits all time out and nothing blocks a fetch but
\* the permits other fetches give back.
LiveSpec == Spec /\ \A t \in Tasks : WF_vars(FetchStep(t))

---------------------------------------------------------------------------
Statuses == {"none", "Missing", "Fetching", "Complete", "Failed"}

TypeOK ==
  /\ status \in [Hashes -> Statuses]
  /\ stored \subseteq Hashes /\ announced \subseteq Hashes
  /\ active \in Nat /\ spent \in Nat /\ kept \in Nat
  /\ DOMAIN handler = Handlers /\ DOMAIN fetch = Tasks
  /\ \A w \in Handlers : handler[w] = Ready \/ handler[w].hash \in Hashes
  /\ \A t \in Tasks :
       \/ fetch[t] = Free
       \/ /\ fetch[t].pc \in Working \cup {"queued"} /\ fetch[t].hash \in Hashes
          /\ fetch[t].auto \in BOOLEAN /\ fetch[t].attempt \in 0..Attempts

\* The policy's counters are exact: every fetch counted is in flight, every
\* byte spent belongs to an automatic fetch about to start, in flight or
\* done, and a failure at any point gives back just what it took.
BudgetExact ==
  LET starting == {w \in Handlers : handler[w].pc = "spawn"}
      charged == {t \in AutoFetches : fetch[t].pc # "release"}
  IN  /\ active = Cardinality(AutoFetches)
      /\ spent = kept + SumFunction([w \in starting |-> Size[handler[w].hash]])
                      + SumFunction([t \in charged |-> Size[fetch[t].hash]])

\* "Maximum number of concurrent automatic fetches" and "Total byte budget
\* for automatic fetches within one session" (policy.rs:20-23).
PolicyRespected ==
  /\ Cardinality(AutoFetches) <= max_concurrent_fetches
  /\ spent <= max_total_auto_fetch_bytes

\* A record says Fetching only while some fetch of that blob is under way
\* that has yet to give it a final status: a blob is never stuck in Fetching,
\* where no offer would start it again.
FetchingMeansRunning ==
  \A h \in Hashes : status[h] = "Fetching" =>
    \E t \in InFlight({"attempt", "download", "verify", "mark", "fail"}) : fetch[t].hash = h

\* A record that says Complete has its bytes, so what is announced is served.
CompleteIsStored ==
  /\ \A h \in Hashes : status[h] = "Complete" => h \in stored
  /\ announced \subseteq stored

\* Concurrent handlers never start two automatic fetches of one blob (as long
\* as the table evicts nothing in between).
AutoFetchedOnce ==
  \A t, u \in AutoFetches : fetch[t].hash = fetch[u].hash => t = u

\* Every fetch ends.
FetchesEnd == \A t \in Tasks : fetch[t] # Free ~> fetch[t] = Free
=============================================================================
