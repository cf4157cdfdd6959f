-------------------------- MODULE BlobFetch_proofs --------------------------
(***************************************************************************)
(* Proofs about BlobFetch for any number of blobs, handlers and fetches:   *)
(* what is announced or on record as complete is stored, no record is left *)
(* in Fetching, the counters of automatic fetches equal what they count,   *)
(* and the policy's limits are exceeded by no more than one fetch for each *)
(* handler that runs beside another, and no fetch goes back to where it    *)
(* was.                                                                    *)
(***************************************************************************)
EXTENDS BlobFetch, FiniteSetTheorems, NaturalsInduction, TLAPS

\* The shapes of a handler's and a fetch's state.
Offering ==
  [pc : {"record", "already", "load_active"}, hash : Hashes,
   decision : {"Accept", "RecordOnly"}]
Checking ==
  [pc : {"load_spent"}, hash : Hashes, decision : {"Accept", "RecordOnly"}, active : Int]
Starting == [pc : {"reserve", "spawn"}, hash : Hashes]
Running ==
  [pc : Working \cup {"queued"}, hash : Hashes, auto : BOOLEAN, attempt : Nat]

Shapes ==
  /\ status \in [Hashes -> Statuses]
  /\ active \in Int
  /\ handler \in [Handlers -> {Ready} \cup Offering \cup Checking \cup Starting]
  /\ fetch \in [Tasks -> {Free} \cup Running]

\* CompleteIsStored, strengthened by the fetches about to say so.
StoredInv ==
  /\ CompleteIsStored
  /\ \A t \in Tasks : fetch[t].pc \in {"mark", "announce"} => fetch[t].hash \in stored

---------------------------------------------------------------------------
\* A step of a fetch changes its program counter and perhaps its round.
LEMMA GotoShape ==
  ASSUME Shapes, NEW t \in Tasks, fetch[t] # Free, NEW pc \in Working, Goto(t, pc)
  PROVE  /\ fetch' \in [Tasks -> {Free} \cup Running]
         /\ fetch'[t].pc = pc /\ fetch'[t].hash = fetch[t].hash
         /\ \A u \in Tasks \ {t} : fetch'[u] = fetch[u]
<1>1. fetch[t] \in Running
  BY DEF Shapes
<1>2. fetch' = [fetch EXCEPT ![t] = [fetch[t] EXCEPT !.pc = pc]]
  BY DEF Goto
<1>3. [fetch[t] EXCEPT !.pc = pc] \in Running
  BY <1>1 DEF Running
<1>4. [fetch[t] EXCEPT !.pc = pc].pc = pc /\ [fetch[t] EXCEPT !.pc = pc].hash = fetch[t].hash
  BY <1>1 DEF Running
<1> QED
  BY <1>2, <1>3, <1>4 DEF Shapes

\* The end of a round leaves the fetch trying again or failing.
LEMMA NextRoundShape ==
  ASSUME Shapes, NEW t \in Tasks, fetch[t] # Free, NextRound(t)
  PROVE  /\ fetch' \in [Tasks -> {Free} \cup Running]
         /\ fetch'[t].pc \in {"attempt", "fail"} /\ fetch'[t].hash = fetch[t].hash
         /\ \A u \in Tasks \ {t} : fetch'[u] = fetch[u]
<1> DEFINE pc == IF fetch[t].attempt + 1 < Attempts THEN "attempt" ELSE "fail"
           r == [pc |-> pc, hash |-> fetch[t].hash, auto |-> fetch[t].auto,
                 attempt |-> fetch[t].attempt + 1]
<1>1. fetch[t] \in Running
  BY DEF Shapes
<1>2. fetch' = [fetch EXCEPT ![t] = r]
  BY DEF NextRound
<1>3. pc \in {"attempt", "fail"} /\ pc \in Working
  BY DEF Working
<1> HIDE DEF pc
<1>4. fetch[t].hash \in Hashes /\ fetch[t].auto \in BOOLEAN /\ fetch[t].attempt + 1 \in Nat
  BY <1>1 DEF Running
<1>5. r \in Running /\ r.pc = pc /\ r.hash = fetch[t].hash
  BY <1>3, <1>4 DEF Running
<1> QED
  BY <1>2, <1>3, <1>5 DEF Shapes

\* Recording our own blob makes its record Complete or leaves none; other
\* records stay or are evicted.
LEMMA OwnRecord ==
  ASSUME status \in [Hashes -> Statuses], NEW h \in Hashes, status' \in RecordedOwn(h)
  PROVE  /\ status' \in [Hashes -> Statuses]
         /\ status'[h] \in {"Complete", "none"}
         /\ \A g \in Hashes \ {h} : status'[g] \in {status[g], "none"}
BY DEF RecordedOwn, Recorded, Records, Statuses

\* A new offer is recorded as Missing, with the same effect on the others.
LEMMA NewRecord ==
  ASSUME status \in [Hashes -> Statuses], NEW h \in Hashes,
         status' \in Recorded(h, "Missing")
  PROVE  /\ status' \in [Hashes -> Statuses]
         /\ status'[h] \in {"Missing", "none"}
         /\ \A g \in Hashes \ {h} : status'[g] \in {status[g], "none"}
BY DEF Recorded, Records, Statuses

\* set_status changes one record, if it is there.
LEMMA SetStatus ==
  ASSUME status \in [Hashes -> Statuses], NEW h \in Hashes, NEW s \in Statuses,
         status' = set_status(h, s)
  PROVE  /\ status' \in [Hashes -> Statuses]
         /\ status'[h] \in {s, "none"}
         /\ \A g \in Hashes \ {h} : status'[g] = status[g]
BY DEF set_status, Statuses

---------------------------------------------------------------------------
\* How each kind of step looks to the two invariants.  Reach is the part of a
\* fetch that still owes its record a final status.
Reach == {"attempt", "download", "verify", "mark", "fail"}

\* The handler's steps: no fetch moves but one that is spawned, and a status
\* only becomes Missing or is evicted.
HandlerEffect ==
  /\ Shapes'
  /\ stored' = stored /\ announced' = announced
  /\ \A h \in Hashes : status'[h] \in {status[h], "Missing", "none"}
  /\ \A t \in Tasks :
       fetch'[t] = fetch[t] \/ (fetch[t] = Free /\ fetch'[t].pc = "queued")

\* Every step of handle_offer has that effect.
LEMMA HandlerStepEffect ==
  ASSUME Shapes, NEW w \in Handlers,
         \/ HandlerStep(w)
         \/ \E h \in Hashes, d \in {"Accept", "RecordOnly"} : HandleOffer(w, h, d)
  PROVE  HandlerEffect
<1> DEFINE c == handler[w]
<1> USE DEF Shapes
<1>1. ASSUME NEW h \in Hashes, NEW d \in {"Accept", "RecordOnly"}, HandleOffer(w, h, d)
      PROVE  HandlerEffect
  BY <1>1 DEF HandleOffer, HandlerEffect, Offering, counters
<1>2. CASE RecordOffer(w)
  <2>1. c \in Offering /\ c.hash \in Hashes
    BY <1>2 DEF RecordOffer, Ready, Offering, Checking, Starting
  <2>2. [c EXCEPT !.pc = "already"] \in Offering
    BY <2>1 DEF Offering
  <2>3. CASE status' = status
    BY <1>2, <2>2, <2>3 DEF RecordOffer, HandlerEffect, counters
  <2>4. CASE status' \in Recorded(c.hash, "Missing")
    BY <1>2, <2>1, <2>2, <2>4, NewRecord DEF RecordOffer, HandlerEffect, counters
  <2> QED
    BY <1>2, <2>3, <2>4 DEF RecordOffer
<1>3. CASE CheckAlready(w)
  <2>1. c \in Offering
    BY <1>3 DEF CheckAlready, Ready, Offering, Checking, Starting
  <2>2. [c EXCEPT !.pc = "load_active"] \in Offering
    BY <2>1 DEF Offering
  <2> QED
    BY <1>3, <2>2 DEF CheckAlready, HandlerEffect, counters
<1>4. CASE LoadActive(w)
  <2>1. c \in Offering
    BY <1>4 DEF LoadActive, Ready, Offering, Checking, Starting
  <2>2. [pc |-> "load_spent", hash |-> c.hash, decision |-> c.decision,
         active |-> active] \in Checking
    BY <2>1 DEF Offering, Checking
  <2> QED
    BY <1>4, <2>2 DEF LoadActive, HandlerEffect, counters
<1>5. CASE LoadSpent(w)
  <2>1. c \in Checking
    BY <1>5 DEF LoadSpent, Ready, Offering, Checking, Starting
  <2>2. [pc |-> "reserve", hash |-> c.hash] \in Starting
    BY <2>1 DEF Checking, Starting
  <2> QED
    BY <1>5, <2>2 DEF LoadSpent, HandlerEffect, counters
<1>6. CASE ReserveBytes(w)
  <2>1. c \in Starting
    BY <1>6 DEF ReserveBytes, Ready, Offering, Checking, Starting
  <2>2. [c EXCEPT !.pc = "spawn"] \in Starting
    BY <2>1 DEF Starting
  <2> QED
    BY <1>6, <2>2 DEF ReserveBytes, HandlerEffect
<1>7. ASSUME NEW t \in Tasks, Spawn(w, t) PROVE HandlerEffect
  <2> DEFINE r == [pc |-> "queued", hash |-> c.hash, auto |-> TRUE, attempt |-> 0]
  <2>1. c \in Starting
    BY <1>7 DEF Spawn, Ready, Offering, Checking, Starting
  <2>2. r \in Running /\ r.pc = "queued"
    BY <2>1 DEF Starting, Running
  <2>3. fetch[t] = Free /\ fetch' = [fetch EXCEPT ![t] = r]
    BY <1>7 DEF Spawn
  <2>4. active' \in Int /\ status' = status /\ stored' = stored /\ announced' = announced
    BY <1>7 DEF Spawn
  <2>5. handler' \in [Handlers -> {Ready} \cup Offering \cup Checking \cup Starting]
    BY <1>7 DEF Spawn
  <2> HIDE DEF r
  <2>6. /\ fetch' \in [Tasks -> {Free} \cup Running]
        /\ fetch'[t].pc = "queued" /\ \A u \in Tasks \ {t} : fetch'[u] = fetch[u]
    BY <2>2, <2>3
  <2> QED
    BY <2>3, <2>4, <2>5, <2>6 DEF HandlerEffect
<1> QED
  BY <1>1, <1>2, <1>3, <1>4, <1>5, <1>6, <1>7 DEF HandlerStep

\* A step of fetch t: it touches its own blob only (and may evict records),
\* moves towards announcing only what is stored, and leaves its record in
\* Fetching only if it goes on, or did not owe it a status to begin with.
FetchEffect(t) ==
  LET h == fetch[t].hash
  IN  /\ h \in Hashes
      /\ Shapes'
      /\ \A u \in Tasks \ {t} : fetch'[u] = fetch[u]
      /\ stored' \in {stored, stored \cup {h}}
      /\ announced' = announced \/ (announced' = announced \cup {h} /\ h \in stored)
      /\ \A g \in Hashes \ {h} : status'[g] \in {status[g], "none"}
      /\ status'[h] = "Complete" => status[h] = "Complete" \/ h \in stored
      /\ fetch'[t].pc \in {"mark", "announce"} => fetch'[t].hash \in stored
      /\ status'[h] = "Fetching" =>
           \/ fetch'[t].pc \in Reach /\ fetch'[t].hash = h
           \/ fetch[t].pc \notin Reach /\ status[h] = "Fetching"

\* Every step of a fetch has that effect.
LEMMA FetchStepEffect ==
  ASSUME Shapes, StoredInv, NEW t \in Tasks, FetchStep(t) \/ Progress(t)
  PROVE  FetchEffect(t)
<1> DEFINE h == fetch[t].hash
<1>0. fetch[t] # Free
  BY DEF FetchStep, Progress, Acquire, CheckStore, NoProviders, StartDownload, DownloadEnds,
         DownloadFails, VerifyStore, MarkComplete, Announce, Export, FailFetch, Refund,
         EndAuto, Free
<1>1. fetch[t] \in Running /\ h \in Hashes
  BY <1>0 DEF Shapes, Running
<1>2. Working = {"status", "attempt", "download", "verify", "mark", "announce", "export",
                 "fail", "refund", "release"}
  BY DEF Working
\* Steps that only move the program counter.
<1>3. ASSUME NEW pc \in Working, Goto(t, pc),
             UNCHANGED <<status, stored, announced, active, handler>>,
             pc \in {"mark", "announce"} => h \in stored,
             fetch[t].pc \in Reach => pc \in Reach
      PROVE  FetchEffect(t)
  <2>1. /\ fetch' \in [Tasks -> {Free} \cup Running]
        /\ fetch'[t].pc = pc /\ fetch'[t].hash = h
        /\ \A u \in Tasks \ {t} : fetch'[u] = fetch[u]
    BY <1>0, <1>3, GotoShape
  <2>2. Shapes'
    BY <1>3, <2>1 DEF Shapes
  <2> QED
    BY <1>1, <1>3, <2>1, <2>2 DEF FetchEffect
<1>4. ASSUME NextRound(t), UNCHANGED <<status, stored, announced, active, handler>>
      PROVE  FetchEffect(t)
  <2>1. /\ fetch' \in [Tasks -> {Free} \cup Running]
        /\ fetch'[t].pc \in {"attempt", "fail"} /\ fetch'[t].hash = h
        /\ \A u \in Tasks \ {t} : fetch'[u] = fetch[u]
    BY <1>0, <1>4, NextRoundShape
  <2>2. Shapes'
    BY <1>4, <2>1 DEF Shapes
  <2> QED
    BY <1>1, <1>4, <2>1, <2>2 DEF FetchEffect, Reach
<1>5. ASSUME fetch' = [fetch EXCEPT ![t] = Free], fetch[t].pc \notin Reach,
             UNCHANGED <<status, stored, announced, handler>>, active' \in Int
      PROVE  FetchEffect(t)
  <2>1. /\ fetch' \in [Tasks -> {Free} \cup Running] /\ fetch'[t].pc = "free"
        /\ \A u \in Tasks \ {t} : fetch'[u] = fetch[u]
    BY <1>5 DEF Shapes, Free
  <2>2. Shapes'
    BY <1>5, <2>1 DEF Shapes
  <2> QED
    BY <1>1, <1>5, <2>1, <2>2 DEF FetchEffect
<1>6. CASE Acquire(t)
  BY <1>2, <1>3, <1>6 DEF Acquire, Reach, counters
<1>7. CASE CheckStore(t)
  BY <1>2, <1>3, <1>7 DEF CheckStore, Reach, counters
<1>8. CASE NoProviders(t)
  BY <1>2, <1>3, <1>4, <1>8 DEF NoProviders, Reach, counters
<1>9. CASE DownloadFails(t)
  BY <1>2, <1>3, <1>4, <1>9 DEF DownloadFails, Reach, counters
<1>10. CASE VerifyStore(t)
  BY <1>2, <1>3, <1>10 DEF VerifyStore, Reach, counters
<1>11. CASE StartDownload(t)
  <2>1. /\ fetch' \in [Tasks -> {Free} \cup Running]
        /\ fetch'[t].pc = "download" /\ fetch'[t].hash = h
        /\ \A u \in Tasks \ {t} : fetch'[u] = fetch[u]
    BY <1>0, <1>2, <1>11, GotoShape DEF StartDownload
  <2>2. /\ status' \in [Hashes -> Statuses] /\ status'[h] \in {"Fetching", "none"}
        /\ \A g \in Hashes \ {h} : status'[g] = status[g]
    BY <1>1, <1>11, SetStatus DEF StartDownload, Shapes, Statuses
  <2>3. Shapes'
    BY <1>11, <2>1, <2>2 DEF Shapes, StartDownload, counters
  <2> QED
    BY <1>1, <1>11, <2>1, <2>2, <2>3 DEF FetchEffect, StartDownload, Reach
<1>12. CASE Progress(t)
  <2>1. fetch' = fetch /\ fetch[t].pc = "download"
    BY <1>12 DEF Progress
  <2>2. /\ status' \in [Hashes -> Statuses] /\ status'[h] \in {"Fetching", "none"}
        /\ \A g \in Hashes \ {h} : status'[g] = status[g]
    BY <1>1, <1>12, SetStatus DEF Progress, Shapes, Statuses
  <2>3. Shapes'
    BY <1>12, <2>1, <2>2 DEF Shapes, Progress, counters
  <2> QED
    BY <1>1, <1>12, <2>1, <2>2, <2>3 DEF FetchEffect, Progress, Reach
<1>13. CASE DownloadEnds(t)
  <2>1. /\ fetch' \in [Tasks -> {Free} \cup Running]
        /\ fetch'[t].pc = "verify" /\ fetch'[t].hash = h
        /\ \A u \in Tasks \ {t} : fetch'[u] = fetch[u]
    BY <1>0, <1>2, <1>13, GotoShape DEF DownloadEnds
  <2>2. Shapes'
    BY <1>13, <2>1 DEF Shapes, DownloadEnds, counters
  <2> QED
    BY <1>1, <1>13, <2>1, <2>2 DEF FetchEffect, DownloadEnds, Reach
<1>14. CASE MarkComplete(t)
  <2>1. /\ fetch' \in [Tasks -> {Free} \cup Running]
        /\ fetch'[t].pc = "announce" /\ fetch'[t].hash = h
        /\ \A u \in Tasks \ {t} : fetch'[u] = fetch[u]
    BY <1>0, <1>2, <1>14, GotoShape DEF MarkComplete
  <2>2. /\ status' \in [Hashes -> Statuses] /\ status'[h] \in {"Complete", "none"}
        /\ \A g \in Hashes \ {h} : status'[g] \in {status[g], "none"}
    BY <1>1, <1>14, OwnRecord DEF MarkComplete, Shapes
  <2>3. h \in stored
    BY <1>14 DEF MarkComplete, StoredInv
  <2>4. Shapes'
    BY <1>14, <2>1, <2>2 DEF Shapes, MarkComplete, counters
  <2> QED
    BY <1>1, <1>14, <2>1, <2>2, <2>3, <2>4 DEF FetchEffect, MarkComplete
<1>15. CASE Announce(t)
  <2>1. h \in stored /\ fetch[t].pc = "announce"
    BY <1>15 DEF Announce, StoredInv
  <2>2. PICK pc \in {"export", "fail"} : Goto(t, pc)
    BY <1>15 DEF Announce
  <2>3. /\ fetch' \in [Tasks -> {Free} \cup Running]
        /\ fetch'[t].pc = pc /\ fetch'[t].hash = h
        /\ \A u \in Tasks \ {t} : fetch'[u] = fetch[u]
    BY <1>0, <1>2, <2>2, GotoShape
  <2>4. Shapes'
    BY <1>15, <2>3 DEF Shapes, Announce, counters
  <2>5. announced' \in {announced, announced \cup {h}}
    BY <1>15 DEF Announce
  <2> QED
    BY <1>1, <1>15, <2>1, <2>2, <2>3, <2>4, <2>5 DEF FetchEffect, Announce, Reach
<1>16. CASE Export(t)
  <2>1. fetch[t].pc = "export" /\ UNCHANGED <<status, stored, announced, active, handler>>
    BY <1>16 DEF Export
  <2>2. \/ Goto(t, "release") \/ Goto(t, "fail") \/ fetch' = [fetch EXCEPT ![t] = Free]
    BY <1>16 DEF Export, Release
  <2>3. active' \in Int
    BY <2>1 DEF Shapes
  <2> QED
    BY <1>2, <1>3, <1>5, <2>1, <2>2, <2>3 DEF Reach
<1>17. CASE FailFetch(t)
  <2>1. Goto(t, "refund") \/ fetch' = [fetch EXCEPT ![t] = Free]
    BY <1>17 DEF FailFetch
  <2>2. /\ fetch' \in [Tasks -> {Free} \cup Running]
        /\ fetch'[t].pc \in {"refund", "free"}
        /\ \A u \in Tasks \ {t} : fetch'[u] = fetch[u]
    <3>1. CASE Goto(t, "refund")
      BY <1>0, <1>2, <3>1, GotoShape
    <3>2. CASE fetch' = [fetch EXCEPT ![t] = Free]
      BY <3>2 DEF Shapes, Free
    <3> QED
      BY <2>1, <3>1, <3>2
  <2>3. /\ status' \in [Hashes -> Statuses] /\ status'[h] \in {"Failed", "none"}
        /\ \A g \in Hashes \ {h} : status'[g] = status[g]
    BY <1>1, <1>17, SetStatus DEF FailFetch, Shapes, Statuses
  <2>4. Shapes'
    BY <1>17, <2>2, <2>3 DEF Shapes, FailFetch, counters
  <2> QED
    BY <1>1, <1>17, <2>2, <2>3, <2>4 DEF FetchEffect, FailFetch
<1>18. CASE Refund(t)
  BY <1>2, <1>3, <1>18 DEF Refund, Reach
<1>19. CASE EndAuto(t)
  <2>1. active' \in Int
    BY <1>19 DEF EndAuto, Shapes
  <2> QED
    BY <1>5, <1>19, <2>1 DEF EndAuto, Reach
<1> QED
  BY <1>6, <1>7, <1>8, <1>9, <1>10, <1>11, <1>12, <1>13, <1>14, <1>15, <1>16, <1>17, <1>18,
     <1>19 DEF FetchStep

---------------------------------------------------------------------------
\* The inductive invariant.
FetchInv == Shapes /\ StoredInv /\ FetchingMeansRunning

\* Nothing is recorded, stored or running in a new session.
LEMMA InitFetchInv == Init => FetchInv
<1> SUFFICES ASSUME Init PROVE FetchInv
  OBVIOUS
<1>1. Shapes
  BY DEF Init, Shapes, Statuses
<1>2. StoredInv
  BY DEF Init, StoredInv, CompleteIsStored, Free
<1>3. FetchingMeansRunning
  BY DEF Init, FetchingMeansRunning
<1> QED
  BY <1>1, <1>2, <1>3 DEF FetchInv

\* The handlers cannot disturb a blob's status or a running fetch.
LEMMA HandlerKeeps ==
  ASSUME FetchInv, HandlerEffect
  PROVE  FetchInv'
<1> USE DEF FetchInv
<1>1. StoredInv'
  BY DEF HandlerEffect, StoredInv, CompleteIsStored, Free
<1>2. FetchingMeansRunning'
  <2> SUFFICES ASSUME NEW h \in Hashes, status'[h] = "Fetching"
               PROVE  \E t \in Tasks : fetch'[t].pc \in Reach /\ fetch'[t].hash = h
    BY DEF FetchingMeansRunning, InFlight, Reach
  <2>1. status[h] = "Fetching"
    BY DEF HandlerEffect
  <2>2. PICK t \in Tasks : fetch[t].pc \in Reach /\ fetch[t].hash = h
    BY <2>1 DEF FetchingMeansRunning, InFlight, Reach
  <2>3. fetch'[t] = fetch[t]
    BY <2>2 DEF HandlerEffect, Free, Reach
  <2> QED
    BY <2>2, <2>3
<1> QED
  BY <1>1, <1>2 DEF HandlerEffect

\* A fetch marks and announces what is stored, and either keeps the record's
\* Fetching justified itself or leaves it to the fetch that justified it.
LEMMA FetchKeeps ==
  ASSUME FetchInv, NEW t \in Tasks, FetchEffect(t)
  PROVE  FetchInv'
<1> DEFINE h == fetch[t].hash
<1> USE DEF FetchInv
<1>1. StoredInv'
  <2>1. stored \subseteq stored'
    BY DEF FetchEffect
  <2>2. announced' \subseteq stored'
    BY <2>1 DEF FetchEffect, StoredInv, CompleteIsStored
  <2>3. ASSUME NEW g \in Hashes, status'[g] = "Complete" PROVE g \in stored'
    <3>1. CASE g = h
      BY <2>1, <2>3, <3>1 DEF FetchEffect, StoredInv, CompleteIsStored
    <3>2. CASE g # h
      BY <2>1, <2>3, <3>2 DEF FetchEffect, StoredInv, CompleteIsStored
    <3> QED
      BY <3>1, <3>2
  <2>4. ASSUME NEW u \in Tasks, fetch'[u].pc \in {"mark", "announce"}
        PROVE  fetch'[u].hash \in stored'
    <3>1. CASE u = t
      BY <2>1, <2>4, <3>1 DEF FetchEffect
    <3>2. CASE u # t
      BY <2>1, <2>4, <3>2 DEF FetchEffect, StoredInv
    <3> QED
      BY <3>1, <3>2
  <2> QED
    BY <2>2, <2>3, <2>4 DEF StoredInv, CompleteIsStored
<1>2. FetchingMeansRunning'
  <2> SUFFICES ASSUME NEW g \in Hashes, status'[g] = "Fetching"
               PROVE  \E u \in Tasks : fetch'[u].pc \in Reach /\ fetch'[u].hash = g
    BY DEF FetchingMeansRunning, InFlight, Reach
  <2>1. CASE fetch'[t].pc \in Reach /\ fetch'[t].hash = g
    BY <2>1
  <2>2. CASE ~(fetch'[t].pc \in Reach /\ fetch'[t].hash = g)
    <3>1. status[g] = "Fetching" /\ (fetch[t].pc \notin Reach \/ g # h)
      BY <2>2 DEF FetchEffect
    <3>2. PICK u \in Tasks : fetch[u].pc \in Reach /\ fetch[u].hash = g
      BY <3>1 DEF FetchingMeansRunning, InFlight, Reach
    <3>3. u # t /\ fetch'[u] = fetch[u]
      BY <3>1, <3>2 DEF FetchEffect
    <3> QED
      BY <3>2, <3>3
  <2> QED
    BY <2>1, <2>2
<1> QED
  BY <1>1, <1>2 DEF FetchEffect

\* A manual fetch starts beside whatever else is running.
LEMMA ManualKeeps ==
  ASSUME FetchInv, NEW t \in Tasks, NEW h \in Hashes, FetchManually(t, h)
  PROVE  FetchInv'
<1> DEFINE r == [pc |-> "status", hash |-> h, auto |-> FALSE, attempt |-> 0]
<1> USE DEF FetchInv
<1>1. r \in Running /\ r.pc = "status"
  BY DEF Running, Working
<1>2. /\ fetch[t] = Free /\ fetch' = [fetch EXCEPT ![t] = r]
      /\ UNCHANGED <<status, stored, announced, active, handler>>
  BY DEF FetchManually, counters
<1> HIDE DEF r
<1>3. /\ fetch' \in [Tasks -> {Free} \cup Running] /\ fetch'[t].pc = "status"
      /\ \A u \in Tasks \ {t} : fetch'[u] = fetch[u]
  BY <1>1, <1>2 DEF Shapes
<1>4. Shapes'
  BY <1>2, <1>3 DEF Shapes
<1>5. StoredInv'
  BY <1>2, <1>3 DEF StoredInv, CompleteIsStored
<1>6. FetchingMeansRunning'
  <2> SUFFICES ASSUME NEW g \in Hashes, status'[g] = "Fetching"
               PROVE  \E u \in Tasks : fetch'[u].pc \in Reach /\ fetch'[u].hash = g
    BY DEF FetchingMeansRunning, InFlight, Reach
  <2>1. PICK u \in Tasks : fetch[u].pc \in Reach /\ fetch[u].hash = g
    BY <1>2 DEF FetchingMeansRunning, InFlight, Reach
  <2>2. u # t
    BY <1>2, <2>1 DEF Free, Reach
  <2> QED
    BY <1>3, <2>1, <2>2
<1> QED
  BY <1>4, <1>5, <1>6

\* Publishing stores the blob before it records or announces it.
LEMMA PublishKeeps ==
  ASSUME FetchInv, NEW h \in Hashes, publish(h)
  PROVE  FetchInv'
<1> USE DEF FetchInv
<1>1. /\ stored' = stored \cup {h} /\ announced' \in {announced, announced \cup {h}}
      /\ UNCHANGED <<active, handler, fetch>>
  BY DEF publish, counters
<1>2. /\ status' \in [Hashes -> Statuses] /\ status'[h] \in {"Complete", "none"}
      /\ \A g \in Hashes \ {h} : status'[g] \in {status[g], "none"}
  BY OwnRecord DEF publish, Shapes
<1>3. Shapes'
  BY <1>1, <1>2 DEF Shapes
<1>4. StoredInv'
  BY <1>1, <1>2 DEF StoredInv, CompleteIsStored
<1>5. FetchingMeansRunning'
  <2> SUFFICES ASSUME NEW g \in Hashes, status'[g] = "Fetching"
               PROVE  \E u \in Tasks : fetch'[u].pc \in Reach /\ fetch'[u].hash = g
    BY DEF FetchingMeansRunning, InFlight, Reach
  <2>1. status[g] = "Fetching"
    BY <1>2
  <2>2. PICK u \in Tasks : fetch[u].pc \in Reach /\ fetch[u].hash = g
    BY <2>1 DEF FetchingMeansRunning, InFlight, Reach
  <2> QED
    BY <1>1, <2>2
<1> QED
  BY <1>3, <1>4, <1>5

\* The invariant holds throughout a session's life, whatever the number of
\* handle_offer calls and fetches that overlap.
THEOREM FetchInvariance == Spec => []FetchInv
<1>1. ASSUME FetchInv, [Next]_vars PROVE FetchInv'
  <2> USE <1>1 DEF FetchInv
  <2>1. ASSUME NEW w \in Handlers,
               \/ \E h \in Hashes, d \in {"Accept", "RecordOnly"} : HandleOffer(w, h, d)
               \/ HandlerStep(w)
        PROVE  FetchInv'
    BY <2>1, HandlerStepEffect, HandlerKeeps
  <2>2. ASSUME NEW t \in Tasks, NEW h \in Hashes, FetchManually(t, h) PROVE FetchInv'
    BY <2>2, ManualKeeps
  <2>3. ASSUME NEW t \in Tasks, FetchStep(t) \/ Progress(t) PROVE FetchInv'
    BY <2>3, FetchStepEffect, FetchKeeps
  <2>4. ASSUME NEW h \in Hashes, publish(h) PROVE FetchInv'
    BY <2>4, PublishKeeps
  <2>5. CASE UNCHANGED vars
    BY <2>5 DEF vars, Shapes, StoredInv, CompleteIsStored, FetchingMeansRunning, InFlight
  <2> QED
    BY <2>1, <2>2, <2>3, <2>4, <2>5 DEF Next
<1> QED
  BY <1>1, InitFetchInv, PTL DEF Spec

\* A record Complete, or a blob announced as Available, has its bytes in the
\* store: fetch_inner_impl's final check and the order of finish_import
\* suffice, however fetches, offers and publications interleave.
THEOREM CompleteHasBytes == Spec => []CompleteIsStored
<1>1. FetchInv => CompleteIsStored
  BY DEF FetchInv, StoredInv
<1> QED
  BY <1>1, FetchInvariance, PTL

\* No blob is stuck in Fetching: fetch_inner's uniform failure handling
\* reaches every exit of fetch_inner_impl after the status was set, also when
\* several fetches of the same blob overlap.
THEOREM NeverStuckFetching == Spec => []FetchingMeansRunning
<1>1. FetchInv => FetchingMeansRunning
  BY DEF FetchInv
<1> QED
  BY <1>1, FetchInvariance, PTL

---------------------------------------------------------------------------
(* Sums, for the byte budget. *)

\* The recursion of SumFunctionOnSet(f, S), which takes the elements of a set
\* in the order of Pick.
Pick(s) == CHOOSE x \in s : TRUE
SumsOf(g, f, S) ==
  g = [s \in SUBSET S |-> IF s = {} THEN 0 ELSE f[Pick(s)] + g[s \ {Pick(s)}]]

\* A set that holds 0 and with n also n + 1 holds every natural number.
LEMMA Counting ==
  ASSUME NEW T, 0 \in T, \A n \in Nat : n \in T => n + 1 \in T
  PROVE  Nat \subseteq T
<1> DEFINE R == OpToRel(<, Nat)
           F == {n \in Nat : n \notin T}
<1> SUFFICES ASSUME F # {} PROVE FALSE
  OBVIOUS
<1>1. PICK x \in F : \A y \in F : ~(<<y, x>> \in R)
  BY WFMin, NatLessThanWellFounded
<1>2. \A y \in F : ~(y < x)
  BY <1>1 DEF OpToRel
<1>3. x \in Nat /\ x # 0
  BY <1>1
<1>4. PICK m \in Nat : x = m + 1 /\ m < x
  <2>1. x - 1 \in Nat /\ x = (x - 1) + 1 /\ x - 1 < x
    BY <1>3
  <2> QED BY <2>1
<1>5. m \in T
  BY <1>2, <1>4
<1> QED BY <1>1, <1>4, <1>5

\* A set loses one element when its pick is taken out.
LEMMA PickLemma ==
  ASSUME NEW S, IsFiniteSet(S), NEW s \in SUBSET S, s # {}
  PROVE  /\ Pick(s) \in s /\ IsFiniteSet(s) /\ s \ {Pick(s)} \in SUBSET S
         /\ Cardinality(s) \in Nat /\ Cardinality(s \ {Pick(s)}) \in Nat
         /\ Cardinality(s) = Cardinality(s \ {Pick(s)}) + 1
<1>1. Pick(s) \in s
  BY DEF Pick
<1>2. IsFiniteSet(s)
  BY FS_Subset
<1>3. Cardinality(s) \in Nat
  BY <1>2, FS_CardinalityType
<1>4. /\ Cardinality(s \ {Pick(s)}) = Cardinality(s) - 1 /\ IsFiniteSet(s \ {Pick(s)})
  BY <1>1, <1>2, FS_RemoveElement
<1>5. Cardinality(s \ {Pick(s)}) \in Nat
  BY <1>4, FS_CardinalityType
<1> QED BY <1>1, <1>2, <1>3, <1>4, <1>5

\* The recursion has a solution over a finite set.
LEMMA SumsExist ==
  ASSUME NEW f, NEW S, IsFiniteSet(S)
  PROVE  \E g : SumsOf(g, f, S)
<1> DEFINE Upto(n) == {s \in SUBSET S : Cardinality(s) <= n}
           Part(g, n) == g = [s \in Upto(n) |->
                                IF s = {} THEN 0 ELSE f[Pick(s)] + g[s \ {Pick(s)}]]
           T == {n \in Nat : \E g : Part(g, n)}
<1>0. \A s \in SUBSET S : IsFiniteSet(s) /\ Cardinality(s) \in Nat /\ (Cardinality(s) = 0 <=> s = {})
  <2>1. \A s \in SUBSET S : IsFiniteSet(s)
    BY FS_Subset
  <2> QED BY <2>1, FS_CardinalityType, FS_EmptySet
<1>1. 0 \in T
  <2>1. \A s \in Upto(0) : s = {}
    BY <1>0
  <2> DEFINE g == [s \in Upto(0) |-> 0]
  <2>2. Part(g, 0)
    BY <2>1
  <2> QED BY <2>2
<1>2. ASSUME NEW n \in Nat, n \in T PROVE n + 1 \in T
  <2>1. PICK g : Part(g, n)
    BY <1>2
  <2> DEFINE U == Upto(n)
             V == Upto(n + 1)
             k == [s \in V |-> IF s \in U THEN g[s] ELSE f[Pick(s)] + g[s \ {Pick(s)}]]
  <2>2. \A s \in V : s # {} => s \ {Pick(s)} \in U
    <3> SUFFICES ASSUME NEW s \in V, s # {} PROVE s \ {Pick(s)} \in U
      OBVIOUS
    <3>1. /\ s \ {Pick(s)} \in SUBSET S /\ Cardinality(s) \in Nat
          /\ Cardinality(s \ {Pick(s)}) \in Nat /\ Cardinality(s) = Cardinality(s \ {Pick(s)}) + 1
      BY PickLemma
    <3> QED BY <3>1
  <2>3. U \subseteq V /\ {} \in U
    <3>1. ASSUME NEW s \in U PROVE s \in V
      <4>1. PICK c \in Nat : c = Cardinality(s) /\ c <= n
        BY <1>0
      <4>2. c <= n + 1
        BY <4>1
      <4> QED BY <4>1, <4>2
    <3>2. Cardinality({}) = 0 /\ {} \in SUBSET S
      BY <1>0
    <3> QED BY <3>1, <3>2
  <2>4. \A s \in U : g[s] = IF s = {} THEN 0 ELSE f[Pick(s)] + g[s \ {Pick(s)}]
    BY <2>1
  <2> HIDE DEF U, V, Upto
  <2>5. \A s \in V : k[s] = IF s \in U THEN g[s] ELSE f[Pick(s)] + g[s \ {Pick(s)}]
    OBVIOUS
  <2>6. k = [s \in V |-> k[s]]
    OBVIOUS
  <2> HIDE DEF k
  <2>7. \A s \in V : k[s] = IF s = {} THEN 0 ELSE f[Pick(s)] + k[s \ {Pick(s)}]
    <3> SUFFICES ASSUME NEW s \in V
                 PROVE  k[s] = IF s = {} THEN 0 ELSE f[Pick(s)] + k[s \ {Pick(s)}]
      OBVIOUS
    <3>1. CASE s = {}
      BY <2>3, <2>4, <2>5, <3>1
    <3>2. CASE s # {}
      <4>1. PICK r : r = s \ {Pick(s)}
        OBVIOUS
      <4>2. r \in U /\ r \in V
        BY <2>2, <2>3, <3>2, <4>1
      <4>3. k[r] = g[r]
        BY <2>5, <4>2
      <4>4. k[s] = f[Pick(s)] + g[r]
        BY <2>4, <2>5, <3>2, <4>1
      <4> QED BY <3>2, <4>1, <4>3, <4>4
    <3> QED BY <3>1, <3>2
  <2>8. k = [s \in V |-> IF s = {} THEN 0 ELSE f[Pick(s)] + k[s \ {Pick(s)}]]
    BY <2>6, <2>7
  <2>9. Part(k, n + 1)
    BY <2>8 DEF V
  <2>10. n + 1 \in Nat
    OBVIOUS
  <2> HIDE DEF Part
  <2> QED BY <2>9, <2>10
<1>3. Nat \subseteq T
  <2> HIDE DEF T
  <2> QED BY <1>1, <1>2, Counting
<1>4. PICK N \in Nat : N = Cardinality(S)
  BY FS_CardinalityType
<1>5. PICK g : Part(g, N)
  BY <1>3
<1>6. Upto(N) = SUBSET S
  BY <1>4, FS_Subset
<1> QED BY <1>5, <1>6 DEF SumsOf

\* It has one solution, which depends on the values of f only.
LEMMA SumsUnique ==
  ASSUME NEW f, NEW e, NEW S, IsFiniteSet(S), NEW T \in SUBSET S,
         NEW g, SumsOf(g, f, S), NEW k, SumsOf(k, e, T), \A x \in T : f[x] = e[x]
  PROVE  \A s \in SUBSET T : g[s] = k[s]
<1> DEFINE M == {n \in Nat : \A s \in SUBSET T : Cardinality(s) = n => g[s] = k[s]}
<1>0. IsFiniteSet(T)
  BY FS_Subset
<1>1. \A s \in SUBSET S : g[s] = IF s = {} THEN 0 ELSE f[Pick(s)] + g[s \ {Pick(s)}]
  BY DEF SumsOf
<1>2. \A s \in SUBSET T : k[s] = IF s = {} THEN 0 ELSE e[Pick(s)] + k[s \ {Pick(s)}]
  BY DEF SumsOf
<1>3. \A s \in SUBSET T : IsFiniteSet(s) /\ Cardinality(s) \in Nat /\ s \in SUBSET S
  <2>1. \A s \in SUBSET T : IsFiniteSet(s)
    BY <1>0, FS_Subset
  <2> QED BY <2>1, FS_CardinalityType
<1>4. 0 \in M
  <2>1. \A s \in SUBSET T : Cardinality(s) = 0 => s = {}
    BY <1>3, FS_EmptySet
  <2> QED BY <1>1, <1>2, <1>3, <2>1
<1>5. ASSUME NEW n \in Nat, n \in M PROVE n + 1 \in M
  <2> SUFFICES ASSUME NEW s \in SUBSET T, Cardinality(s) = n + 1 PROVE g[s] = k[s]
    BY <1>5
  <2>1. s # {}
    BY FS_EmptySet
  <2>2. PICK r : r = s \ {Pick(s)}
    OBVIOUS
  <2>3. /\ Pick(s) \in s /\ r \in SUBSET T /\ Cardinality(r) = n
    BY <1>0, <2>1, <2>2, PickLemma
  <2>4. g[r] = k[r]
    BY <1>5, <2>3
  <2>5. f[Pick(s)] = e[Pick(s)]
    BY <2>3
  <2> QED BY <1>1, <1>2, <1>3, <2>1, <2>2, <2>4, <2>5
<1>6. Nat \subseteq M
  <2> HIDE DEF M
  <2> QED BY <1>4, <1>5, Counting
<1> QED BY <1>3, <1>6

\* SumFunctionOnSet is that solution.
LEMMA SumSolves ==
  ASSUME NEW f, NEW S, IsFiniteSet(S)
  PROVE  \E g : SumsOf(g, f, S) /\ SumFunctionOnSet(f, S) = g[S]
<1>1. SumFunctionOnSet(f, S) = (CHOOSE g : SumsOf(g, f, S))[S]
  BY DEF SumFunctionOnSet, FoldFunctionOnSet, MapThenFoldSet, SumsOf, Pick
<1>2. SumsOf(CHOOSE g : SumsOf(g, f, S), f, S)
  BY SumsExist
<1> QED BY <1>1, <1>2

\* Sums over the same set of the same values are the same.
LEMMA SumSame ==
  ASSUME NEW f, NEW e, NEW S, IsFiniteSet(S), \A x \in S : f[x] = e[x]
  PROVE  SumFunctionOnSet(f, S) = SumFunctionOnSet(e, S)
<1>1. PICK g : SumsOf(g, f, S) /\ SumFunctionOnSet(f, S) = g[S]
  BY SumSolves
<1>2. PICK k : SumsOf(k, e, S) /\ SumFunctionOnSet(e, S) = k[S]
  BY SumSolves
<1> QED BY <1>1, <1>2, SumsUnique

\* The sum of nothing, and one step of the recursion.
LEMMA SumStep ==
  ASSUME NEW f, NEW S, IsFiniteSet(S)
  PROVE  /\ S = {} => SumFunctionOnSet(f, S) = 0
         /\ S # {} => SumFunctionOnSet(f, S) =
                        f[Pick(S)] + SumFunctionOnSet(f, S \ {Pick(S)})
<1>1. PICK g : SumsOf(g, f, S) /\ SumFunctionOnSet(f, S) = g[S]
  BY SumSolves
<1>2. g[S] = IF S = {} THEN 0 ELSE f[Pick(S)] + g[S \ {Pick(S)}]
  BY <1>1 DEF SumsOf
<1>3. CASE S # {}
  <2>1. PICK r : r = S \ {Pick(S)} /\ r \in SUBSET S
    OBVIOUS
  <2>2. IsFiniteSet(r)
    BY <2>1, FS_Subset
  <2>3. PICK e : e = f
    OBVIOUS
  <2>4. PICK k : SumsOf(k, e, r) /\ SumFunctionOnSet(e, r) = k[r]
    BY <2>2, SumSolves
  <2>5. r \in SUBSET S /\ r \in SUBSET r /\ \A x \in r : f[x] = e[x]
    BY <2>1, <2>3
  <2>6. \A s \in SUBSET r : g[s] = k[s]
    BY <1>1, <2>4, <2>5, SumsUnique
  <2> QED BY <1>1, <1>2, <1>3, <2>1, <2>3, <2>4, <2>5, <2>6
<1> QED BY <1>1, <1>2, <1>3

\* A sum of natural numbers is one.
LEMMA SumIsNat ==
  ASSUME NEW S, IsFiniteSet(S), NEW f, \A x \in S : f[x] \in Nat
  PROVE  \A s \in SUBSET S : SumFunctionOnSet(f, s) \in Nat
<1> DEFINE Sum(s) == SumFunctionOnSet(f, s)
           M == {n \in Nat : \A s \in SUBSET S : Cardinality(s) = n => Sum(s) \in Nat}
<1>0. \A s \in SUBSET S : IsFiniteSet(s) /\ Cardinality(s) \in Nat
  <2>1. \A s \in SUBSET S : IsFiniteSet(s)
    BY FS_Subset
  <2> QED BY <2>1, FS_CardinalityType
<1>1. 0 \in M
  <2>1. ASSUME NEW s \in SUBSET S, Cardinality(s) = 0 PROVE Sum(s) = 0
    BY <1>0, <2>1, FS_EmptySet, SumStep
  <2> HIDE DEF Sum
  <2> QED BY <2>1
<1>2. ASSUME NEW n \in Nat, n \in M PROVE n + 1 \in M
  <2> SUFFICES ASSUME NEW s \in SUBSET S, Cardinality(s) = n + 1 PROVE Sum(s) \in Nat
    BY <1>2
  <2>1. s # {}
    BY FS_EmptySet
  <2>2. PICK c : c = Pick(s)
    OBVIOUS
  <2>3. c \in s /\ s \ {c} \in SUBSET S /\ Cardinality(s \ {c}) = n
    BY <2>1, <2>2, PickLemma
  <2>4. Sum(s) = f[c] + Sum(s \ {c})
    BY <1>0, <2>1, <2>2, SumStep
  <2> HIDE DEF Sum
  <2>5. Sum(s \ {c}) \in Nat /\ f[c] \in Nat
    BY <1>2, <2>3
  <2> QED BY <2>4, <2>5
<1>3. Nat \subseteq M
  <2> HIDE DEF M
  <2> QED BY <1>1, <1>2, Counting
<1> QED BY <1>0, <1>3

\* Any element may be taken first: the sum of S is f[x] more than without x.
LEMMA SumWithout ==
  ASSUME NEW S, IsFiniteSet(S), NEW f, \A x \in S : f[x] \in Nat
  PROVE  /\ SumFunctionOnSet(f, S) \in Nat
         /\ \A x \in S : SumFunctionOnSet(f, S) = f[x] + SumFunctionOnSet(f, S \ {x})
<1> DEFINE Sum(s) == SumFunctionOnSet(f, s)
           Ok(s) == Sum(s) \in Nat /\ \A x \in s : Sum(s) = f[x] + Sum(s \ {x})
           M == {n \in Nat : \A s \in SUBSET S : Cardinality(s) = n => Ok(s)}
<1>0. \A s \in SUBSET S : IsFiniteSet(s) /\ Cardinality(s) \in Nat
  <2>1. \A s \in SUBSET S : IsFiniteSet(s)
    BY FS_Subset
  <2> QED BY <2>1, FS_CardinalityType
<1>1. 0 \in M
  <2>1. ASSUME NEW s \in SUBSET S, Cardinality(s) = 0 PROVE Ok(s)
    <3>1. s = {}
      BY <1>0, <2>1, FS_EmptySet
    <3>2. Sum(s) = 0
      BY <1>0, <3>1, SumStep
    <3> HIDE DEF Sum
    <3> QED BY <3>1, <3>2
  <2> QED BY <2>1
<1>2. ASSUME NEW n \in Nat, n \in M PROVE n + 1 \in M
  <2> SUFFICES ASSUME NEW s \in SUBSET S, Cardinality(s) = n + 1 PROVE Ok(s)
    BY <1>2
  <2>1. \A r \in SUBSET S : Cardinality(r) = n => Ok(r)
    BY <1>2
  <2> HIDE DEF M, Ok
  <2>2. s # {}
    BY FS_EmptySet
  <2>3. PICK c : c = Pick(s)
    OBVIOUS
  <2>4. c \in s /\ s \ {c} \in SUBSET S /\ Cardinality(s \ {c}) = n
    BY <2>2, <2>3, PickLemma
  <2>5. Sum(s) = f[c] + Sum(s \ {c})
    BY <1>0, <2>2, <2>3, SumStep
  <2>6. Ok(s \ {c})
    BY <2>1, <2>4
  <2>7. Sum(s) \in Nat
    <3>1. Sum(s \ {c}) \in Nat /\ f[c] \in Nat
      BY <2>4, <2>6 DEF Ok
    <3> HIDE DEF Sum
    <3> QED BY <2>5, <3>1
  <2>8. ASSUME NEW x \in s PROVE Sum(s) = f[x] + Sum(s \ {x})
    <3>1. CASE x = c
      BY <2>5, <3>1
    <3>2. CASE x # c
      <4>1. s \ {x} \in SUBSET S /\ Cardinality(s \ {x}) = n
        <5>1. IsFiniteSet(s) /\ s \ {x} \in SUBSET S
          BY <1>0
        <5>2. Cardinality(s \ {x}) = Cardinality(s) - 1
          BY <5>1, FS_RemoveElement
        <5> QED BY <5>1, <5>2
      <4>2. Ok(s \ {x})
        BY <2>1, <4>1
      <4>3. PICK r : r = (s \ {x}) \ {c} /\ r = (s \ {c}) \ {x}
        OBVIOUS
      <4>4. Sum(s \ {x}) = f[c] + Sum(r)
        BY <2>4, <3>2, <4>2, <4>3 DEF Ok
      <4>5. Sum(s \ {c}) = f[x] + Sum(r)
        BY <2>6, <3>2, <4>3 DEF Ok
      <4>6. r \in SUBSET S /\ f[x] \in Nat /\ f[c] \in Nat
        BY <2>4, <4>3
      <4>7. Sum(r) \in Nat
        BY <1>0, <4>6, SumIsNat
      <4> HIDE DEF Sum
      <4> QED BY <2>5, <4>4, <4>5, <4>6, <4>7
    <3> QED BY <3>1, <3>2
  <2> QED BY <2>7, <2>8 DEF Ok
<1>3. Nat \subseteq M
  <2> HIDE DEF M
  <2> QED BY <1>1, <1>2, Counting
<1>4. Cardinality(S) \in Nat /\ S \in SUBSET S
  BY FS_CardinalityType
<1> QED BY <1>3, <1>4

\* One element more: the sum grows by its value.
LEMMA SumGrows ==
  ASSUME NEW S, IsFiniteSet(S), NEW x, x \notin S, NEW T, T = S \cup {x}, NEW f, NEW g,
         \A y \in T : g[y] \in Nat, \A y \in S : f[y] = g[y]
  PROVE  /\ SumFunctionOnSet(g, T) = g[x] + SumFunctionOnSet(f, S)
         /\ SumFunctionOnSet(f, S) \in Nat
<1>2. IsFiniteSet(T) /\ T \ {x} = S /\ x \in T
  BY FS_AddElement
<1>3. SumFunctionOnSet(g, T) = g[x] + SumFunctionOnSet(g, S)
  BY <1>2, SumWithout
<1>4. SumFunctionOnSet(g, S) = SumFunctionOnSet(f, S)
  BY SumSame
<1>5. SumFunctionOnSet(f, S) \in Nat
  <2>1. \A y \in S : f[y] \in Nat
    OBVIOUS
  <2> QED BY <2>1, SumWithout
<1> QED BY <1>3, <1>4, <1>5

---------------------------------------------------------------------------
(* The policy's counters. *)

\* The handlers about to spawn, the fetches that hold a reservation, and the
\* bytes of each.
Spawning == {w \in Handlers : handler[w].pc = "spawn"}
Charged == {t \in AutoFetches : fetch[t].pc # "release"}
HandlerBytes == SumFunctionOnSet([w \in Spawning |-> Size[handler[w].hash]], Spawning)
FetchBytes == SumFunctionOnSet([t \in Charged |-> Size[fetch[t].hash]], Charged)

\* Only automatic fetches queue, refund and release; no fetch exceeds its rounds.
RoundOK(f) ==
  /\ f.pc \in {"queued", "refund", "release"} => f.auto
  /\ f.attempt <= Attempts
  /\ f.pc \in {"queued", "status", "attempt", "download"} => f.attempt < Attempts

BudgetInv ==
  /\ stored \subseteq Hashes
  /\ \A t \in Tasks : fetch[t] # Free => RoundOK(fetch[t])
  /\ kept \in Nat /\ spent \in Int
  /\ active = Cardinality(AutoFetches)
  /\ spent = kept + HandlerBytes + FetchBytes

\* What BudgetExact says.
LEMMA BudgetMeaning ==
  BudgetExact <=> /\ active = Cardinality(AutoFetches)
                  /\ spent = kept + HandlerBytes + FetchBytes
<1>1. SumFunction([w \in Spawning |-> Size[handler[w].hash]]) = HandlerBytes
  BY DEF SumFunction, HandlerBytes
<1>2. SumFunction([t \in Charged |-> Size[fetch[t].hash]]) = FetchBytes
  BY DEF SumFunction, FetchBytes
<1> QED BY <1>1, <1>2 DEF BudgetExact, Spawning, Charged

\* The sets are finite and their members have a size.
LEMMA Sizes ==
  ASSUME Shapes
  PROVE  /\ IsFiniteSet(Spawning) /\ IsFiniteSet(AutoFetches) /\ IsFiniteSet(Charged)
         /\ Spawning \subseteq Handlers /\ AutoFetches \subseteq Tasks /\ Charged \subseteq Tasks
         /\ \A w \in Spawning : handler[w].hash \in Hashes /\ Size[handler[w].hash] \in Nat
         /\ \A t \in AutoFetches : fetch[t].hash \in Hashes /\ Size[fetch[t].hash] \in Nat
         /\ HandlerBytes \in Nat /\ FetchBytes \in Nat
<1>1. IsFiniteSet(Handlers) /\ IsFiniteSet(Tasks) /\ Size \in [Hashes -> Nat]
  BY FetchAssumption
<1>2. Spawning \subseteq Handlers /\ AutoFetches \subseteq Tasks /\ Charged \subseteq Tasks
  BY DEF Spawning, AutoFetches, InFlight, Charged
<1>3. IsFiniteSet(Spawning) /\ IsFiniteSet(AutoFetches) /\ IsFiniteSet(Charged)
  BY <1>1, <1>2, FS_Subset
<1>4. \A w \in Spawning : handler[w].hash \in Hashes /\ Size[handler[w].hash] \in Nat
  BY <1>1 DEF Spawning, Shapes, Ready, Offering, Checking, Starting
<1>5. \A t \in AutoFetches : fetch[t].hash \in Hashes /\ Size[fetch[t].hash] \in Nat
  BY <1>1 DEF AutoFetches, InFlight, Shapes, Free, Running, Working
<1>6. HandlerBytes \in Nat
  <2>1. PICK f : f = [w \in Spawning |-> Size[handler[w].hash]]
    OBVIOUS
  <2>2. \A w \in Spawning : f[w] \in Nat
    BY <1>4, <2>1
  <2> QED BY <1>3, <2>1, <2>2, SumWithout DEF HandlerBytes
<1>7. FetchBytes \in Nat
  <2>1. PICK f : f = [t \in Charged |-> Size[fetch[t].hash]]
    OBVIOUS
  <2>2. \A t \in Charged : f[t] \in Nat
    BY <1>5, <2>1 DEF Charged
  <2> QED BY <1>3, <2>1, <2>2, SumWithout DEF FetchBytes
<1> QED BY <1>2, <1>3, <1>4, <1>5, <1>6, <1>7

\* The handlers' bytes change only with the handlers about to spawn.
LEMMA HandlerBytesSame ==
  ASSUME Shapes, Spawning' = Spawning, \A w \in Spawning : handler'[w] = handler[w]
  PROVE  HandlerBytes' = HandlerBytes
<1>1. PICK S : S = Spawning
  OBVIOUS
<1>2. PICK f : f = [w \in S |-> Size[handler[w].hash]]
  OBVIOUS
<1>3. PICK g : g = [w \in S |-> Size[handler'[w].hash]]
  OBVIOUS
<1>4. \A w \in S : f[w] = g[w]
  BY <1>1, <1>2, <1>3
<1>5. HandlerBytes = SumFunctionOnSet(f, S)
  BY <1>1, <1>2 DEF HandlerBytes
<1>6. HandlerBytes' = SumFunctionOnSet(g, S)
  BY <1>1, <1>3 DEF HandlerBytes
<1>7. IsFiniteSet(S)
  BY <1>1, Sizes
<1> QED BY <1>4, <1>5, <1>6, <1>7, SumSame

\* A handler reserves the bytes of its blob.
LEMMA HandlerBytesMore ==
  ASSUME Shapes, Shapes', NEW w \in Handlers, w \notin Spawning, Spawning' = Spawning \cup {w},
         \A v \in Spawning : handler'[v] = handler[v]
  PROVE  HandlerBytes' = Size[handler'[w].hash] + HandlerBytes
<1>1. PICK S : S = Spawning
  OBVIOUS
<1>2. PICK f : f = [v \in S |-> Size[handler[v].hash]]
  OBVIOUS
<1>3. PICK g : g = [v \in S \cup {w} |-> Size[handler'[v].hash]]
  OBVIOUS
<1>4. \A v \in S : f[v] = g[v]
  BY <1>1, <1>2, <1>3
<1>5. HandlerBytes = SumFunctionOnSet(f, S)
  BY <1>1, <1>2 DEF HandlerBytes
<1>6. HandlerBytes' = SumFunctionOnSet(g, S \cup {w})
  BY <1>1, <1>3 DEF HandlerBytes
<1>7. IsFiniteSet(S)
  BY <1>1, Sizes
<1>8. \A v \in S : f[v] \in Nat
  BY <1>1, <1>2, Sizes
<1>9. g[w] \in Nat /\ g[w] = Size[handler'[w].hash]
  <2>1. handler'[w].hash \in Hashes
    BY DEF Spawning, Shapes, Ready, Offering, Checking, Starting
  <2> QED BY <1>3, <2>1, FetchAssumption
<1>10. \A v \in S \cup {w} : g[v] \in Nat
  BY <1>4, <1>8, <1>9
<1>11. w \notin S
  BY <1>1
<1>12. PICK T : T = S \cup {w}
  OBVIOUS
<1>13. /\ SumFunctionOnSet(g, T) = g[w] + SumFunctionOnSet(f, S)
       /\ SumFunctionOnSet(f, S) \in Nat
  <2>1. \A v \in T : g[v] \in Nat
    BY <1>10, <1>12
  <2> QED BY <1>4, <1>7, <1>11, <1>12, <2>1, SumGrows, SMTT(30)
<1> QED BY <1>5, <1>6, <1>9, <1>12, <1>13

\* A handler hands its reservation to a fetch.
LEMMA HandlerBytesLess ==
  ASSUME Shapes, NEW w \in Spawning, Spawning' = Spawning \ {w},
         \A v \in Spawning \ {w} : handler'[v] = handler[v]
  PROVE  HandlerBytes = Size[handler[w].hash] + HandlerBytes' /\ HandlerBytes' \in Nat
<1>1. PICK S : S = Spawning \ {w} /\ Spawning = S \cup {w} /\ w \notin S
  OBVIOUS
<1>2. PICK f : f = [v \in S |-> Size[handler'[v].hash]]
  OBVIOUS
<1>3. PICK g : g = [v \in S \cup {w} |-> Size[handler[v].hash]]
  OBVIOUS
<1>4. \A v \in S : f[v] = g[v]
  BY <1>1, <1>2, <1>3
<1>5. HandlerBytes' = SumFunctionOnSet(f, S)
  BY <1>1, <1>2 DEF HandlerBytes
<1>6. HandlerBytes = SumFunctionOnSet(g, S \cup {w})
  BY <1>1, <1>3 DEF HandlerBytes
<1>7. IsFiniteSet(S)
  BY <1>1, Sizes, FS_Subset
<1>8. \A v \in S \cup {w} : g[v] \in Nat
  BY <1>1, <1>3, Sizes
<1>9. g[w] = Size[handler[w].hash]
  BY <1>3
<1>11. w \notin S
  BY <1>1
<1>12. PICK T : T = S \cup {w}
  OBVIOUS
<1>13. /\ SumFunctionOnSet(g, T) = g[w] + SumFunctionOnSet(f, S)
       /\ SumFunctionOnSet(f, S) \in Nat
  BY <1>4, <1>7, <1>8, <1>11, <1>12, SumGrows, SMTT(30)
<1> QED BY <1>5, <1>6, <1>9, <1>12, <1>13

\* The same for the fetches that hold a reservation.
LEMMA FetchBytesSame ==
  ASSUME Shapes, Charged' = Charged, \A t \in Charged : fetch'[t].hash = fetch[t].hash
  PROVE  FetchBytes' = FetchBytes
<1>1. PICK S : S = Charged
  OBVIOUS
<1>2. PICK f : f = [t \in S |-> Size[fetch[t].hash]]
  OBVIOUS
<1>3. PICK g : g = [t \in S |-> Size[fetch'[t].hash]]
  OBVIOUS
<1>4. \A t \in S : f[t] = g[t]
  BY <1>1, <1>2, <1>3
<1>5. FetchBytes = SumFunctionOnSet(f, S)
  BY <1>1, <1>2 DEF FetchBytes
<1>6. FetchBytes' = SumFunctionOnSet(g, S)
  BY <1>1, <1>3 DEF FetchBytes
<1>7. IsFiniteSet(S)
  BY <1>1, Sizes
<1> QED BY <1>4, <1>5, <1>6, <1>7, SumSame

\* A fetch starts with a reservation.
LEMMA FetchBytesMore ==
  ASSUME Shapes, NEW t \in Tasks, t \notin Charged, Charged' = Charged \cup {t},
         fetch'[t].hash \in Hashes, \A u \in Charged : fetch'[u].hash = fetch[u].hash
  PROVE  FetchBytes' = Size[fetch'[t].hash] + FetchBytes
<1>1. PICK S : S = Charged
  OBVIOUS
<1>2. PICK f : f = [v \in S |-> Size[fetch[v].hash]]
  OBVIOUS
<1>3. PICK g : g = [v \in S \cup {t} |-> Size[fetch'[v].hash]]
  OBVIOUS
<1>4. \A v \in S : f[v] = g[v]
  BY <1>1, <1>2, <1>3
<1>5. FetchBytes = SumFunctionOnSet(f, S)
  BY <1>1, <1>2 DEF FetchBytes
<1>6. FetchBytes' = SumFunctionOnSet(g, S \cup {t})
  BY <1>1, <1>3 DEF FetchBytes
<1>7. IsFiniteSet(S)
  BY <1>1, Sizes
<1>8. \A v \in S : f[v] \in Nat
  BY <1>1, <1>2, Sizes DEF Charged
<1>9. g[t] \in Nat /\ g[t] = Size[fetch'[t].hash]
  BY <1>3, FetchAssumption
<1>10. \A v \in S \cup {t} : g[v] \in Nat
  BY <1>4, <1>8, <1>9
<1>11. t \notin S
  BY <1>1
<1>12. PICK T : T = S \cup {t}
  OBVIOUS
<1>13. /\ SumFunctionOnSet(g, T) = g[t] + SumFunctionOnSet(f, S)
       /\ SumFunctionOnSet(f, S) \in Nat
  <2>1. \A v \in T : g[v] \in Nat
    BY <1>10, <1>12
  <2> QED BY <1>4, <1>7, <1>11, <1>12, <2>1, SumGrows, SMTT(30)
<1> QED BY <1>5, <1>6, <1>9, <1>12, <1>13

\* A fetch settles its reservation.
LEMMA FetchBytesLess ==
  ASSUME Shapes, NEW t \in Charged, Charged' = Charged \ {t},
         \A u \in Charged \ {t} : fetch'[u].hash = fetch[u].hash
  PROVE  FetchBytes = Size[fetch[t].hash] + FetchBytes' /\ FetchBytes' \in Nat
<1>1. PICK S : S = Charged \ {t} /\ Charged = S \cup {t} /\ t \notin S
  OBVIOUS
<1>2. PICK f : f = [v \in S |-> Size[fetch'[v].hash]]
  OBVIOUS
<1>3. PICK g : g = [v \in S \cup {t} |-> Size[fetch[v].hash]]
  OBVIOUS
<1>4. \A v \in S : f[v] = g[v]
  BY <1>1, <1>2, <1>3
<1>5. FetchBytes' = SumFunctionOnSet(f, S)
  BY <1>1, <1>2 DEF FetchBytes
<1>6. FetchBytes = SumFunctionOnSet(g, S \cup {t})
  BY <1>1, <1>3 DEF FetchBytes
<1>7. IsFiniteSet(S)
  BY <1>1, Sizes, FS_Subset
<1>8. \A v \in S \cup {t} : g[v] \in Nat
  BY <1>1, <1>3, Sizes DEF Charged
<1>9. g[t] = Size[fetch[t].hash]
  BY <1>3
<1>11. t \notin S
  BY <1>1
<1>12. PICK T : T = S \cup {t}
  OBVIOUS
<1>13. /\ SumFunctionOnSet(g, T) = g[t] + SumFunctionOnSet(f, S)
       /\ SumFunctionOnSet(f, S) \in Nat
  BY <1>4, <1>7, <1>8, <1>11, <1>12, SumGrows, SMTT(30)
<1> QED BY <1>5, <1>6, <1>9, <1>12, <1>13

\* A step that moves neither a fetch nor a handler about to spawn.
LEMMA QuietKeepsBudget ==
  ASSUME Shapes, BudgetInv, UNCHANGED <<fetch, counters>>, Spawning' = Spawning,
         \A w \in Spawning : handler'[w] = handler[w], stored' \subseteq Hashes
  PROVE  BudgetInv'
<1>1. AutoFetches' = AutoFetches /\ Charged' = Charged
  BY DEF AutoFetches, Charged, InFlight
<1>2. HandlerBytes' = HandlerBytes
  BY HandlerBytesSame
<1>3. FetchBytes' = FetchBytes
  BY <1>1, FetchBytesSame
<1> QED BY <1>1, <1>2, <1>3 DEF BudgetInv, counters

\* The steps of handle_offer: what ReserveBytes adds to spent it adds to the
\* handler's bytes, and Spawn hands these to the fetch it counts.
LEMMA HandlerBudget ==
  ASSUME Shapes, Shapes', BudgetInv, NEW w \in Handlers,
         \/ HandlerStep(w)
         \/ \E h \in Hashes, d \in {"Accept", "RecordOnly"} : HandleOffer(w, h, d)
  PROVE  BudgetInv'
<1>0. handler \in [Handlers -> {Ready} \cup Offering \cup Checking \cup Starting]
  BY DEF Shapes
<1>1. ASSUME handler[w].pc # "spawn", handler'[w].pc # "spawn",
             \A v \in Handlers \ {w} : handler'[v] = handler[v],
             UNCHANGED <<fetch, counters, stored>>
      PROVE  BudgetInv'
  <2>1. Spawning' = Spawning
    BY <1>1 DEF Spawning
  <2>2. \A v \in Spawning : handler'[v] = handler[v]
    BY <1>1 DEF Spawning
  <2>3. stored' \subseteq Hashes
    BY <1>1 DEF BudgetInv
  <2> QED BY <1>1, <2>1, <2>2, <2>3, QuietKeepsBudget
<1>2. ASSUME NEW h \in Hashes, NEW d, HandleOffer(w, h, d) PROVE BudgetInv'
  BY <1>0, <1>1, <1>2 DEF HandleOffer, Ready
<1>3. CASE RecordOffer(w)
  <2>1. handler[w] \in Offering
    BY <1>0, <1>3 DEF RecordOffer, Ready, Offering, Checking, Starting
  <2>2. [handler[w] EXCEPT !.pc = "already"].pc = "already"
    BY <2>1 DEF Offering
  <2>3. PICK r : handler' = [handler EXCEPT ![w] = r] /\ r.pc # "spawn"
    BY <1>3, <2>2 DEF RecordOffer, Ready
  <2>4. handler[w].pc # "spawn" /\ UNCHANGED <<fetch, counters, stored>>
    BY <1>3 DEF RecordOffer
  <2> QED BY <1>0, <1>1, <2>3, <2>4
<1>4. CASE CheckAlready(w)
  <2>1. handler[w] \in Offering
    BY <1>0, <1>4 DEF CheckAlready, Ready, Offering, Checking, Starting
  <2>2. [handler[w] EXCEPT !.pc = "load_active"].pc = "load_active"
    BY <2>1 DEF Offering
  <2> QED BY <1>0, <1>1, <1>4, <2>2 DEF CheckAlready, Ready
<1>5. CASE LoadActive(w)
  BY <1>0, <1>1, <1>5 DEF LoadActive
<1>6. CASE LoadSpent(w)
  BY <1>0, <1>1, <1>6 DEF LoadSpent, Ready
<1>7. CASE ReserveBytes(w)
  <2>1. handler[w] \in Starting
    BY <1>0, <1>7 DEF ReserveBytes, Ready, Offering, Checking, Starting
  <2>2. PICK r : r = [handler[w] EXCEPT !.pc = "spawn"]
    OBVIOUS
  <2>3. r.pc = "spawn" /\ r.hash = handler[w].hash
    BY <2>1, <2>2 DEF Starting
  <2>4. /\ handler' = [handler EXCEPT ![w] = r] /\ handler[w].pc = "reserve"
        /\ spent' = spent + Size[handler[w].hash]
        /\ UNCHANGED <<stored, active, kept, fetch>>
    BY <1>7, <2>2 DEF ReserveBytes
  <2>5. w \notin Spawning /\ Spawning' = Spawning \cup {w}
    BY <1>0, <2>3, <2>4 DEF Spawning
  <2>6. handler'[w] = r /\ \A v \in Spawning : handler'[v] = handler[v]
    BY <1>0, <2>4, <2>5 DEF Spawning
  <2>7. HandlerBytes' = Size[handler[w].hash] + HandlerBytes
    BY <2>3, <2>5, <2>6, HandlerBytesMore
  <2>8. AutoFetches' = AutoFetches /\ Charged' = Charged
    BY <2>4 DEF AutoFetches, Charged, InFlight
  <2>9. FetchBytes' = FetchBytes
    BY <2>4, <2>8, FetchBytesSame
  <2>10. PICK z \in Nat : z = Size[handler[w].hash]
    BY <2>1, FetchAssumption DEF Starting
  <2>11. spent' = kept' + HandlerBytes' + FetchBytes' /\ spent' \in Int
    <3>1. PICK a \in Nat : a = HandlerBytes
      BY Sizes
    <3>2. PICK b \in Nat : b = FetchBytes
      BY Sizes
    <3>3. spent = kept + a + b /\ kept \in Nat
      BY <3>1, <3>2 DEF BudgetInv
    <3>4. HandlerBytes' = z + a /\ FetchBytes' = b /\ spent' = spent + z /\ kept' = kept
      BY <2>4, <2>7, <2>9, <2>10, <3>1, <3>2
    <3> QED BY <3>3, <3>4
  <2> QED BY <2>4, <2>8, <2>11 DEF BudgetInv
<1>8. ASSUME NEW t \in Tasks, Spawn(w, t) PROVE BudgetInv'
  <2>1. handler[w] \in Starting /\ handler[w].pc = "spawn"
    BY <1>0, <1>8 DEF Spawn, Ready, Offering, Checking, Starting
  <2>2. PICK r : r = [pc |-> "queued", hash |-> handler[w].hash, auto |-> TRUE, attempt |-> 0]
    OBVIOUS
  <2>3. /\ r.pc = "queued" /\ r.hash = handler[w].hash /\ r.auto = TRUE /\ r.attempt = 0
        /\ r.hash \in Hashes
    BY <2>1, <2>2 DEF Starting
  <2>4. /\ fetch[t] = Free /\ fetch' = [fetch EXCEPT ![t] = r]
        /\ handler' = [handler EXCEPT ![w] = Ready]
        /\ active' = active + 1 /\ UNCHANGED <<stored, spent, kept>>
    BY <1>8, <2>2 DEF Spawn
  <2>5. fetch'[t] = r /\ \A u \in Tasks \ {t} : fetch'[u] = fetch[u]
    BY <2>4 DEF Shapes
  <2>6. w \in Spawning /\ Spawning' = Spawning \ {w}
    BY <1>0, <2>1, <2>4 DEF Spawning, Ready
  <2>7. \A v \in Spawning \ {w} : handler'[v] = handler[v]
    BY <1>0, <2>4 DEF Spawning
  <2>8. HandlerBytes = Size[handler[w].hash] + HandlerBytes' /\ HandlerBytes' \in Nat
    BY <2>6, <2>7, HandlerBytesLess
  <2>9. t \notin AutoFetches /\ AutoFetches' = AutoFetches \cup {t}
    BY <2>3, <2>4, <2>5 DEF AutoFetches, InFlight, Free, Working
  <2>10. t \notin Charged /\ Charged' = Charged \cup {t}
    BY <2>3, <2>5, <2>9 DEF Charged, AutoFetches, InFlight
  <2>11. \A u \in Charged : fetch'[u].hash = fetch[u].hash
    BY <2>5, <2>10 DEF Charged, AutoFetches, InFlight
  <2>12. FetchBytes' = Size[handler[w].hash] + FetchBytes
    BY <2>3, <2>5, <2>10, <2>11, FetchBytesMore
  <2>13. spent' = kept' + HandlerBytes' + FetchBytes'
    <3>1. PICK z \in Nat : z = Size[handler[w].hash]
      BY <2>1, FetchAssumption DEF Starting
    <3>2. PICK a \in Nat : a = HandlerBytes'
      BY <2>8
    <3>3. PICK b \in Nat : b = FetchBytes
      BY Sizes
    <3>4. spent = kept + (z + a) + b /\ kept \in Nat
      BY <2>8, <3>1, <3>2, <3>3 DEF BudgetInv
    <3>5. FetchBytes' = z + b /\ spent' = spent /\ kept' = kept
      BY <2>4, <2>12, <3>1, <3>3
    <3> QED BY <3>2, <3>4, <3>5
  <2>14. active' = Cardinality(AutoFetches')
    BY <2>4, <2>9, Sizes, FS_AddElement DEF BudgetInv
  <2>15. \A u \in Tasks : fetch'[u] # Free => RoundOK(fetch'[u])
    <3>1. RoundOK(r)
      BY <2>3, FetchAssumption DEF RoundOK
    <3> QED BY <2>5, <3>1 DEF BudgetInv
  <2> QED BY <2>4, <2>13, <2>14, <2>15 DEF BudgetInv
<1> QED BY <1>2, <1>3, <1>4, <1>5, <1>6, <1>7, <1>8 DEF HandlerStep

\* How a step of fetch t looks to the budget: it goes on with its reservation
\* (or none), a manual fetch ends, the reservation is spent or given back, or
\* the automatic fetch that has settled it ends.
GoesOn(t) ==
  /\ fetch'[t] \in Running /\ RoundOK(fetch'[t])
  /\ fetch'[t].hash = fetch[t].hash /\ fetch'[t].auto = fetch[t].auto
  /\ fetch'[t].pc \in Working /\ fetch[t].pc # "release"
  /\ active' = active

Accounts(t) ==
  \/ GoesOn(t) /\ fetch'[t].pc # "release" /\ spent' = spent /\ kept' = kept
  \/ GoesOn(t) /\ fetch'[t].pc = "release" /\ spent' = spent /\ kept' = kept + Size[fetch[t].hash]
  \/ GoesOn(t) /\ fetch'[t].pc = "release" /\ spent' = spent - Size[fetch[t].hash] /\ kept' = kept
  \/ ~fetch[t].auto /\ fetch'[t] = Free /\ UNCHANGED counters
  \/ /\ fetch[t].pc = "release" /\ fetch'[t] = Free
     /\ active' = active - 1 /\ spent' = spent /\ kept' = kept

\* Every step of a fetch is one of these.
LEMMA FetchAccounts ==
  ASSUME Shapes, BudgetInv, NEW t \in Tasks, FetchStep(t) \/ Progress(t)
  PROVE  /\ fetch[t] \in Running /\ RoundOK(fetch[t]) /\ Accounts(t)
         /\ \A u \in Tasks \ {t} : fetch'[u] = fetch[u]
         /\ handler' = handler /\ stored' \subseteq Hashes
<1> DEFINE f == fetch[t]
           others == \A u \in Tasks \ {t} : fetch'[u] = fetch[u]
<1>0. f # Free
  BY DEF FetchStep, Progress, Acquire, CheckStore, NoProviders, StartDownload, DownloadEnds,
         DownloadFails, VerifyStore, MarkComplete, Announce, Export, FailFetch, Refund,
         EndAuto, Free
<1>1. /\ f \in Running /\ RoundOK(f) /\ f.hash \in Hashes /\ f.auto \in BOOLEAN
      /\ f.attempt \in Nat /\ Attempts \in Nat /\ fetch \in [Tasks -> {Free} \cup Running]
  BY <1>0, FetchAssumption DEF Shapes, Running, BudgetInv
<1>2. Working = {"status", "attempt", "download", "verify", "mark", "announce", "export",
                 "fail", "refund", "release"}
  BY DEF Working
<1>3. handler' = handler /\ stored' \subseteq Hashes
  BY <1>1 DEF FetchStep, Progress, Acquire, CheckStore, NoProviders, StartDownload,
         DownloadEnds, DownloadFails, VerifyStore, MarkComplete, Announce, Export, FailFetch,
         Refund, EndAuto, BudgetInv
<1>4. ASSUME NEW pc \in Working, Goto(t, pc), f.pc # "release", active' = active,
             pc \in {"refund", "release"} => f.auto,
             pc \in {"status", "attempt", "download"} =>
               f.pc \in {"queued", "status", "attempt", "download"}
      PROVE  GoesOn(t) /\ fetch'[t].pc = pc /\ others
  <2>1. PICK r : r = [f EXCEPT !.pc = pc]
    OBVIOUS
  <2>2. /\ r \in Running /\ r.pc = pc /\ r.hash = f.hash /\ r.auto = f.auto
        /\ r.attempt = f.attempt
    BY <1>1, <2>1 DEF Running
  <2>3. fetch' = [fetch EXCEPT ![t] = r]
    BY <1>4, <2>1 DEF Goto
  <2>4. fetch'[t] = r /\ others
    BY <1>1, <2>3
  <2>5. RoundOK(r)
    BY <1>1, <1>2, <1>4, <2>2 DEF RoundOK
  <2> QED BY <1>4, <2>2, <2>4, <2>5 DEF GoesOn
<1>5. ASSUME NextRound(t), f.pc \in {"attempt", "download"}, active' = active
      PROVE  GoesOn(t) /\ fetch'[t].pc # "release" /\ others
  <2>1. PICK n \in Nat : n = f.attempt /\ n < Attempts
    BY <1>1, <1>5 DEF RoundOK
  <2>2. PICK pc \in {"attempt", "fail"} : pc = IF n + 1 < Attempts THEN "attempt" ELSE "fail"
    OBVIOUS
  <2>3. PICK r : r = [pc |-> pc, hash |-> f.hash, auto |-> f.auto, attempt |-> n + 1]
    OBVIOUS
  <2>4. /\ r \in Running /\ r.pc = pc /\ r.hash = f.hash /\ r.auto = f.auto
        /\ r.attempt = n + 1
    BY <1>1, <1>2, <2>3 DEF Running
  <2>5. fetch' = [fetch EXCEPT ![t] = r]
    BY <1>5, <2>1, <2>2, <2>3 DEF NextRound
  <2>6. fetch'[t] = r /\ others
    BY <1>1, <2>5
  <2>7. n + 1 <= Attempts /\ (pc = "attempt" => n + 1 < Attempts)
    BY <1>1, <2>1, <2>2
  <2>8. RoundOK(r)
    BY <2>4, <2>7 DEF RoundOK
  <2> QED BY <1>2, <1>5, <2>4, <2>6, <2>8 DEF GoesOn
<1>6. ASSUME fetch' = [fetch EXCEPT ![t] = Free] PROVE fetch'[t] = Free /\ others
  BY <1>1, <1>6
<1> HIDE DEF others
<1>7. CASE Acquire(t) \/ CheckStore(t) \/ VerifyStore(t) \/ StartDownload(t) \/ DownloadEnds(t)
           \/ MarkComplete(t) \/ Announce(t)
  <2>1. PICK pc \in {"status", "attempt", "download", "verify", "mark", "announce", "export", "fail"} :
          Goto(t, pc) /\ (pc \in {"status", "attempt", "download"} =>
                            f.pc \in {"queued", "status", "attempt", "download"})
    BY <1>7 DEF Acquire, CheckStore, VerifyStore, StartDownload, DownloadEnds, MarkComplete,
                Announce
  <2>2. f.pc # "release" /\ UNCHANGED counters
    BY <1>7 DEF Acquire, CheckStore, VerifyStore, StartDownload, DownloadEnds, MarkComplete,
                Announce
  <2>3. GoesOn(t) /\ fetch'[t].pc = pc /\ others
    BY <1>2, <1>4, <2>1, <2>2 DEF counters
  <2> QED BY <1>1, <1>3, <2>1, <2>2, <2>3 DEF Accounts, counters, others
<1>8. CASE NoProviders(t) \/ DownloadFails(t)
  <2>1. f.pc \in {"attempt", "download"} /\ UNCHANGED counters
    BY <1>8 DEF NoProviders, DownloadFails
  <2>2. CASE NextRound(t)
    <3>1. GoesOn(t) /\ fetch'[t].pc # "release" /\ others
      BY <1>5, <2>1, <2>2 DEF counters
    <3> QED BY <1>1, <1>3, <2>1, <3>1 DEF Accounts, counters, others
  <2>3. CASE Goto(t, "fail")
    <3>1. GoesOn(t) /\ fetch'[t].pc = "fail" /\ others
      BY <1>2, <1>4, <2>1, <2>3 DEF counters
    <3> QED BY <1>1, <1>3, <2>1, <3>1 DEF Accounts, counters, others
  <2> QED BY <1>8, <2>2, <2>3 DEF NoProviders, DownloadFails
<1>9. CASE Progress(t)
  <2>1. fetch' = fetch /\ f.pc = "download" /\ UNCHANGED counters
    BY <1>9 DEF Progress
  <2>2. GoesOn(t) /\ fetch'[t].pc # "release" /\ others
    BY <1>1, <1>2, <2>1 DEF GoesOn, counters, others
  <2> QED BY <1>1, <1>3, <2>1, <2>2 DEF Accounts, counters, others
<1>10. CASE Export(t)
  <2>1. f.pc = "export" /\ active' = active /\ spent' = spent
    BY <1>10 DEF Export
  <2>2. CASE Goto(t, "fail") /\ kept' = kept
    <3>1. GoesOn(t) /\ fetch'[t].pc = "fail" /\ others
      BY <1>2, <1>4, <2>1, <2>2
    <3> QED BY <1>1, <1>3, <2>1, <2>2, <3>1 DEF Accounts, others
  <2>3. CASE f.auto /\ Goto(t, "release") /\ kept' = kept + Size[f.hash]
    <3>1. GoesOn(t) /\ fetch'[t].pc = "release" /\ others
      BY <1>2, <1>4, <2>1, <2>3
    <3> QED BY <1>1, <1>3, <2>1, <2>3, <3>1 DEF Accounts, others
  <2>4. CASE ~f.auto /\ fetch' = [fetch EXCEPT ![t] = Free] /\ kept' = kept
    BY <1>1, <1>3, <1>6, <2>1, <2>4 DEF Accounts, others, counters
  <2> QED BY <1>1, <1>10, <2>2, <2>3, <2>4 DEF Export, Release
<1>11. CASE FailFetch(t)
  <2>1. f.pc = "fail" /\ UNCHANGED counters
    BY <1>11 DEF FailFetch
  <2>2. CASE f.auto /\ Goto(t, "refund")
    <3>1. GoesOn(t) /\ fetch'[t].pc = "refund" /\ others
      BY <1>2, <1>4, <2>1, <2>2 DEF counters
    <3> QED BY <1>1, <1>3, <2>1, <3>1 DEF Accounts, counters, others
  <2>3. CASE ~f.auto /\ fetch' = [fetch EXCEPT ![t] = Free]
    BY <1>1, <1>3, <1>6, <2>1, <2>3 DEF Accounts, others
  <2> QED BY <1>1, <1>11, <2>2, <2>3 DEF FailFetch
<1>12. CASE Refund(t)
  <2>1. /\ f.pc = "refund" /\ active' = active /\ kept' = kept
        /\ spent' = spent - Size[f.hash] /\ Goto(t, "release")
    BY <1>12 DEF Refund
  <2>2. f.auto
    BY <1>1, <2>1 DEF RoundOK
  <2>3. GoesOn(t) /\ fetch'[t].pc = "release" /\ others
    BY <1>2, <1>4, <2>1, <2>2
  <2> QED BY <1>1, <1>3, <2>1, <2>3 DEF Accounts, others
<1>13. CASE EndAuto(t)
  BY <1>1, <1>3, <1>6, <1>13 DEF EndAuto, Accounts, others
<1> QED BY <1>7, <1>8, <1>9, <1>10, <1>11, <1>12, <1>13 DEF FetchStep

\* A fetch settles its reservation once, on every path.
LEMMA FetchBudget ==
  ASSUME Shapes, Shapes', BudgetInv, NEW t \in Tasks, FetchStep(t) \/ Progress(t)
  PROVE  BudgetInv'
<1> DEFINE f == fetch[t]
<1>0. /\ f \in Running /\ RoundOK(f) /\ Accounts(t) /\ handler' = handler
      /\ stored' \subseteq Hashes /\ \A u \in Tasks \ {t} : fetch'[u] = fetch[u]
  BY FetchAccounts
<1>1. f.pc \in Working \cup {"queued"} /\ f.hash \in Hashes /\ f.auto \in BOOLEAN /\ f # Free
  BY <1>0 DEF Running, Working, Free
<1>2. HandlerBytes' = HandlerBytes
  BY <1>0, HandlerBytesSame DEF Spawning
<1>3. PICK z \in Nat : z = Size[f.hash]
  BY <1>1, FetchAssumption
<1>4. PICK a \in Nat : a = HandlerBytes
  BY Sizes
<1>5. PICK b \in Nat : b = FetchBytes
  BY Sizes
<1>6. spent = kept + a + b /\ kept \in Nat /\ active = Cardinality(AutoFetches)
  BY <1>4, <1>5 DEF BudgetInv
<1>7. \A u \in Tasks \ {t} : u \in AutoFetches' <=> u \in AutoFetches
  BY <1>0 DEF AutoFetches, InFlight
<1>8. \A u \in Tasks \ {t} : u \in Charged' <=> u \in Charged
  BY <1>0, <1>7 DEF Charged
<1>9. AutoFetches \subseteq Tasks /\ Charged \subseteq Tasks /\ Charged \subseteq AutoFetches
  BY DEF AutoFetches, InFlight, Charged
<1>10. AutoFetches' \subseteq Tasks /\ Charged' \subseteq Tasks /\ Charged' \subseteq AutoFetches'
  BY DEF AutoFetches, InFlight, Charged
<1>11. ASSUME GoesOn(t) PROVE AutoFetches' = AutoFetches /\ (t \in AutoFetches <=> f.auto)
  <2>1. t \in AutoFetches' <=> t \in AutoFetches
    BY <1>1, <1>11 DEF GoesOn, AutoFetches, InFlight
  <2>2. t \in AutoFetches <=> f.auto
    BY <1>1 DEF AutoFetches, InFlight
  <2> QED BY <1>7, <1>9, <1>10, <2>1, <2>2
<1>12. ASSUME GoesOn(t) \/ fetch'[t] = Free PROVE \A u \in Tasks : fetch'[u] # Free => RoundOK(fetch'[u])
  BY <1>0, <1>12 DEF GoesOn, BudgetInv
<1>13. CASE GoesOn(t) /\ fetch'[t].pc # "release" /\ spent' = spent /\ kept' = kept
  <2>1. t \in Charged' <=> t \in Charged
    BY <1>1, <1>11, <1>13 DEF Charged, GoesOn
  <2>2. Charged' = Charged
    BY <1>8, <1>9, <1>10, <2>1
  <2>3. \A u \in Charged : fetch'[u].hash = fetch[u].hash
    BY <1>0, <1>9, <1>13 DEF GoesOn
  <2>4. FetchBytes' = b
    BY <1>5, <2>2, <2>3, FetchBytesSame
  <2>5. active' = active /\ AutoFetches' = AutoFetches
    BY <1>11, <1>13 DEF GoesOn
  <2> QED BY <1>0, <1>2, <1>4, <1>6, <1>12, <1>13, <2>4, <2>5 DEF BudgetInv
<1>14. CASE /\ GoesOn(t) /\ fetch'[t].pc = "release"
            /\ \/ spent' = spent /\ kept' = kept + Size[f.hash]
               \/ spent' = spent - Size[f.hash] /\ kept' = kept
  <2>1. f.auto
    BY <1>14 DEF GoesOn, RoundOK
  <2>2. t \in Charged /\ t \notin Charged'
    BY <1>1, <1>11, <1>14, <2>1 DEF Charged, GoesOn
  <2>3. Charged' = Charged \ {t}
    BY <1>8, <1>9, <1>10, <2>2
  <2>4. \A u \in Charged \ {t} : fetch'[u].hash = fetch[u].hash
    BY <1>0, <1>9
  <2>5. FetchBytes = Size[f.hash] + FetchBytes' /\ FetchBytes' \in Nat
    BY <2>2, <2>3, <2>4, FetchBytesLess
  <2>6. PICK d \in Nat : d = FetchBytes' /\ b = z + d
    BY <1>3, <1>5, <2>5
  <2>7. active' = active /\ AutoFetches' = AutoFetches
    BY <1>11, <1>14 DEF GoesOn
  <2>8. spent' = kept' + a + d /\ kept' \in Nat /\ spent' \in Int
    BY <1>3, <1>6, <1>14, <2>6
  <2> QED BY <1>0, <1>2, <1>4, <1>6, <1>12, <1>14, <2>6, <2>7, <2>8 DEF BudgetInv
<1>15. CASE ~f.auto /\ fetch'[t] = Free /\ UNCHANGED counters
  <2>1. t \notin AutoFetches /\ t \notin AutoFetches'
    BY <1>1, <1>15 DEF AutoFetches, InFlight, Free, Working
  <2>2. AutoFetches' = AutoFetches
    BY <1>7, <1>9, <1>10, <2>1
  <2>3. Charged' = Charged
    BY <1>8, <1>9, <1>10, <2>1
  <2>4. \A u \in Charged : fetch'[u].hash = fetch[u].hash
    BY <1>0, <1>9, <2>1
  <2>5. FetchBytes' = b
    BY <1>5, <2>3, <2>4, FetchBytesSame
  <2> QED BY <1>0, <1>2, <1>4, <1>6, <1>12, <1>15, <2>2, <2>5 DEF BudgetInv, counters
<1>16. CASE /\ f.pc = "release" /\ fetch'[t] = Free
            /\ active' = active - 1 /\ spent' = spent /\ kept' = kept
  <2>1. f.auto
    BY <1>0, <1>16 DEF RoundOK
  <2>2. t \in AutoFetches /\ t \notin AutoFetches' /\ t \notin Charged
    BY <1>1, <1>16, <2>1 DEF AutoFetches, InFlight, Free, Working, Charged
  <2>3. AutoFetches' = AutoFetches \ {t}
    BY <1>7, <1>9, <1>10, <2>2
  <2>4. Charged' = Charged
    BY <1>8, <1>9, <1>10, <2>2
  <2>5. \A u \in Charged : fetch'[u].hash = fetch[u].hash
    BY <1>0, <1>9, <2>2
  <2>6. FetchBytes' = b
    BY <1>5, <2>4, <2>5, FetchBytesSame
  <2>7. active' = Cardinality(AutoFetches')
    <3>1. Cardinality(AutoFetches \ {t}) = Cardinality(AutoFetches) - 1
      BY <2>2, Sizes, FS_RemoveElement
    <3> QED BY <1>6, <1>16, <2>3, <3>1
  <2> QED BY <1>0, <1>2, <1>4, <1>6, <1>12, <1>16, <2>6, <2>7 DEF BudgetInv
<1> QED BY <1>0, <1>13, <1>14, <1>15, <1>16 DEF Accounts

\* A manual fetch takes nothing from the budget.
LEMMA ManualBudget ==
  ASSUME Shapes, BudgetInv, NEW t \in Tasks, NEW h \in Hashes, FetchManually(t, h)
  PROVE  BudgetInv'
<1>1. PICK r : r = [pc |-> "status", hash |-> h, auto |-> FALSE, attempt |-> 0]
  OBVIOUS
<1>2. /\ fetch[t] = Free /\ fetch' = [fetch EXCEPT ![t] = r]
      /\ UNCHANGED <<stored, counters, handler>>
  BY <1>1 DEF FetchManually
<1>3. fetch'[t] = r /\ \A u \in Tasks \ {t} : fetch'[u] = fetch[u]
  BY <1>2 DEF Shapes
<1>4. RoundOK(r) /\ r.auto = FALSE
  BY <1>1, FetchAssumption DEF RoundOK
<1>5. t \notin AutoFetches /\ t \notin AutoFetches'
  BY <1>2, <1>3, <1>4 DEF AutoFetches, InFlight, Free, Working
<1>6. AutoFetches' = AutoFetches
  BY <1>3, <1>5 DEF AutoFetches, InFlight
<1>7. Charged' = Charged /\ \A u \in Charged : fetch'[u].hash = fetch[u].hash
  BY <1>3, <1>5, <1>6 DEF Charged, AutoFetches, InFlight
<1>8. FetchBytes' = FetchBytes
  BY <1>7, FetchBytesSame
<1>9. HandlerBytes' = HandlerBytes
  BY <1>2, HandlerBytesSame DEF Spawning
<1> QED BY <1>2, <1>3, <1>4, <1>6, <1>8, <1>9 DEF BudgetInv, counters

\* The counters' invariant holds throughout a session's life.
THEOREM BudgetInvariance == Spec => []BudgetInv
<1>1. Init => BudgetInv
  <2> SUFFICES ASSUME Init PROVE BudgetInv
    OBVIOUS
  <2>1. Spawning = {} /\ AutoFetches = {} /\ Charged = {}
    BY DEF Init, Spawning, AutoFetches, Charged, InFlight, Ready, Free, Working
  <2>2. \A f : SumFunctionOnSet(f, {}) = 0
    BY SumStep, FS_EmptySet
  <2>3. HandlerBytes = 0 /\ FetchBytes = 0
    BY <2>1, <2>2 DEF HandlerBytes, FetchBytes
  <2> QED BY <2>1, <2>3, FS_EmptySet DEF Init, BudgetInv
<1>2. ASSUME FetchInv, FetchInv', BudgetInv, [Next]_vars PROVE BudgetInv'
  <2> USE <1>2
  <2>0. Shapes /\ Shapes'
    BY DEF FetchInv
  <2>1. ASSUME NEW w \in Handlers,
               \/ \E h \in Hashes, d \in {"Accept", "RecordOnly"} : HandleOffer(w, h, d)
               \/ HandlerStep(w)
        PROVE  BudgetInv'
    BY <2>0, <2>1, HandlerBudget
  <2>2. ASSUME NEW t \in Tasks, NEW h \in Hashes, FetchManually(t, h) PROVE BudgetInv'
    BY <2>0, <2>2, ManualBudget
  <2>3. ASSUME NEW t \in Tasks, FetchStep(t) \/ Progress(t) PROVE BudgetInv'
    BY <2>0, <2>3, FetchBudget
  <2>4. ASSUME NEW h \in Hashes, publish(h) PROVE BudgetInv'
    <3>1. UNCHANGED <<fetch, counters, handler>> /\ stored' \subseteq Hashes
      BY <2>4 DEF publish, BudgetInv
    <3>2. Spawning' = Spawning
      BY <3>1 DEF Spawning
    <3> QED BY <2>0, <3>1, <3>2, QuietKeepsBudget
  <2>5. CASE UNCHANGED vars
    <3>1. UNCHANGED <<fetch, counters, handler>> /\ stored' \subseteq Hashes
      BY <2>5 DEF vars, counters, BudgetInv
    <3>2. Spawning' = Spawning
      BY <3>1 DEF Spawning
    <3> QED BY <2>0, <3>1, <3>2, QuietKeepsBudget
  <2> QED
    BY <2>1, <2>2, <2>3, <2>4, <2>5 DEF Next
<1> QED
  BY <1>1, <1>2, FetchInvariance, PTL DEF Spec

\* The policy's counters are exact for any number of handlers, fetches and
\* blobs of any size: active_fetches counts the automatic fetches in flight,
\* and auto_fetch_bytes what they reserved or kept, on every failure path.
THEOREM CountersAreExact == Spec => []BudgetExact
<1>1. BudgetInv => BudgetExact
  BY BudgetMeaning DEF BudgetInv
<1> QED BY <1>1, BudgetInvariance, PTL

\* The session's state has its types; in particular the counters, which the
\* code subtracts from, never go below zero.
THEOREM FetchTypes == Spec => []TypeOK
<1>1. FetchInv /\ BudgetInv => TypeOK
  <2> SUFFICES ASSUME FetchInv, BudgetInv PROVE TypeOK
    OBVIOUS
  <2>1. Shapes /\ announced \subseteq stored /\ stored \subseteq Hashes
    BY DEF FetchInv, StoredInv, CompleteIsStored, BudgetInv
  <2>2. active \in Nat
    BY <2>1, Sizes, FS_CardinalityType DEF BudgetInv
  <2>3. spent \in Nat /\ kept \in Nat
    <3>1. HandlerBytes \in Nat /\ FetchBytes \in Nat
      BY <2>1, Sizes
    <3> QED BY <3>1 DEF BudgetInv
  <2>4. \A w \in Handlers : handler[w] = Ready \/ handler[w].hash \in Hashes
    BY <2>1 DEF Shapes, Offering, Checking, Starting
  <2>5. ASSUME NEW t \in Tasks, fetch[t] # Free
        PROVE  /\ fetch[t].pc \in Working \cup {"queued"} /\ fetch[t].hash \in Hashes
               /\ fetch[t].auto \in BOOLEAN /\ fetch[t].attempt \in 0..Attempts
    <3>1. fetch[t] \in Running /\ fetch[t].attempt <= Attempts
      BY <2>1, <2>5 DEF Shapes, BudgetInv, RoundOK
    <3> QED BY <3>1, FetchAssumption DEF Running
  <2>6. DOMAIN handler = Handlers /\ DOMAIN fetch = Tasks /\ status \in [Hashes -> Statuses]
    BY <2>1 DEF Shapes
  <2> QED BY <2>1, <2>2, <2>3, <2>4, <2>5, <2>6 DEF TypeOK
<1> QED BY <1>1, FetchInvariance, BudgetInvariance, PTL

---------------------------------------------------------------------------
(* The policy's limits. *)

\* How far the limits may be exceeded: check_auto_fetch judges counters that
\* other handlers are about to raise, so each handler but one may add a fetch
\* of the largest size to what the policy allows, and no more.
Others == IF Handlers = {} THEN 0 ELSE Cardinality(Handlers) - 1
PolicyOvershoot ==
  /\ Cardinality(AutoFetches) <= max_concurrent_fetches + Others
  /\ spent <= max_total_auto_fetch_bytes + Others * max_blob_size

\* The handlers that have read a count of fetches below the limit and may
\* still act on it, and those whose bytes were found to be within the budget
\* and are still to be reserved.
Allows(c) ==
  c.pc \in {"reserve", "spawn"} \/ (c.pc = "load_spent" /\ c.active < max_concurrent_fetches)
Allowed == {w \in Handlers : Allows(handler[w])}
Reserving == {w \in Handlers : handler[w].pc = "reserve"}

\* What is counted and what is allowed together exceed the limit by one
\* fetch for each other handler.
CountInv == active + Cardinality(Allowed) <= max_concurrent_fetches + Others

\* Whoever was found within the budget last was so beside at most one blob
\* of each other handler.
Budget == max_total_auto_fetch_bytes + Others * max_blob_size
BytesInv ==
  /\ spent <= Budget
  /\ \A w \in Reserving : Size[handler[w].hash] <= max_blob_size
  /\ Reserving # {} =>
       \E w \in Reserving :
         spent + Size[handler[w].hash] + max_blob_size * (Cardinality(Reserving) - 1) <= Budget

\* The numbers in them.
LEMMA OthersCount ==
  /\ Others \in Nat /\ Budget \in Nat /\ Others * max_blob_size \in Nat
  /\ max_concurrent_fetches \in Nat /\ max_blob_size \in Nat /\ max_total_auto_fetch_bytes \in Nat
  /\ \A S \in SUBSET Handlers :
       IsFiniteSet(S) /\ Cardinality(S) \in Nat /\ Cardinality(S) <= Others + 1
<1>1. /\ IsFiniteSet(Handlers) /\ max_concurrent_fetches \in Nat /\ max_blob_size \in Nat
      /\ max_total_auto_fetch_bytes \in Nat
  BY FetchAssumption
<1>2. Cardinality(Handlers) \in Nat /\ (Handlers = {} <=> Cardinality(Handlers) = 0)
  BY <1>1, FS_CardinalityType, FS_EmptySet
<1>3. Others \in Nat /\ Cardinality(Handlers) <= Others + 1
  BY <1>2 DEF Others
<1>4. PICK o \in Nat : o = Others
  BY <1>3
<1>5. PICK b \in Nat : b = max_blob_size
  BY <1>1
<1>6. o * b \in Nat
  OBVIOUS
<1>7. Others * max_blob_size \in Nat /\ Budget \in Nat
  BY <1>1, <1>4, <1>5, <1>6 DEF Budget
<1>8. ASSUME NEW S \in SUBSET Handlers
      PROVE  IsFiniteSet(S) /\ Cardinality(S) \in Nat /\ Cardinality(S) <= Others + 1
  <2>1. IsFiniteSet(S) /\ Cardinality(S) <= Cardinality(Handlers)
    BY <1>1, FS_Subset
  <2>2. Cardinality(S) \in Nat
    BY <2>1, FS_CardinalityType
  <2> QED BY <1>2, <1>3, <2>1, <2>2
<1> QED BY <1>1, <1>3, <1>7, <1>8

\* One handler moves: what becomes of the two sets.
LEMMA OneHandler ==
  ASSUME Shapes, NEW w \in Handlers, NEW r, handler' = [handler EXCEPT ![w] = r]
  PROVE  /\ Allowed' = IF Allows(r) THEN Allowed \cup {w} ELSE Allowed \ {w}
         /\ Reserving' = IF r.pc = "reserve" THEN Reserving \cup {w} ELSE Reserving \ {w}
         /\ handler'[w] = r /\ \A v \in Handlers : v # w => handler'[v] = handler[v]
<1>1. handler'[w] = r /\ \A v \in Handlers : v # w => handler'[v] = handler[v]
  BY DEF Shapes
<1>2. Allowed' = IF Allows(r) THEN Allowed \cup {w} ELSE Allowed \ {w}
  <2>1. Allowed' = {v \in Handlers : Allows(handler'[v])}
    BY DEF Allowed, Allows
  <2> QED BY <1>1, <2>1 DEF Allowed
<1>3. Reserving' = IF r.pc = "reserve" THEN Reserving \cup {w} ELSE Reserving \ {w}
  BY <1>1 DEF Reserving
<1> QED BY <1>1, <1>2, <1>3

\* What the steps of a handler do: it is refused, reads the count, is found
\* within the limits, reserves its bytes, or spawns the fetch.
HandlerMoves(w) ==
  LET c == handler[w]
  IN  \E r :
        /\ handler' = [handler EXCEPT ![w] = r]
        /\ \/ UNCHANGED counters /\ ~Allows(r) /\ c.pc # "reserve"
           \/ /\ UNCHANGED counters /\ c.pc = "load_active"
              /\ r.pc = "load_spent" /\ r.active = active
           \/ /\ UNCHANGED counters /\ c.pc = "load_spent" /\ c.active < max_concurrent_fetches
              /\ r.pc = "reserve" /\ r.hash = c.hash /\ c.hash \in Hashes
              /\ Size[c.hash] <= max_blob_size
              /\ spent + Size[c.hash] <= max_total_auto_fetch_bytes
           \/ /\ active' = active /\ c.pc = "reserve" /\ r.pc = "spawn"
              /\ c.hash \in Hashes /\ spent' = spent + Size[c.hash]
           \/ active' = active + 1 /\ spent' = spent /\ c.pc = "spawn" /\ r = Ready

\* Every step of handle_offer is one of these.
LEMMA HandlerStepMoves ==
  ASSUME Shapes, NEW w \in Handlers,
         \/ HandlerStep(w)
         \/ \E h \in Hashes, d \in {"Accept", "RecordOnly"} : HandleOffer(w, h, d)
  PROVE  HandlerMoves(w)
<1> DEFINE c == handler[w]
<1>0. handler \in [Handlers -> {Ready} \cup Offering \cup Checking \cup Starting]
  BY DEF Shapes
<1>1. ASSUME NEW r, handler' = [handler EXCEPT ![w] = r], c.pc # "reserve",
             r.pc \notin {"load_spent", "reserve", "spawn"}, UNCHANGED counters
      PROVE  HandlerMoves(w)
  <2>1. ~Allows(r)
    BY <1>1 DEF Allows
  <2> QED BY <1>1, <2>1 DEF HandlerMoves
<1>2. ASSUME NEW h \in Hashes, NEW d, HandleOffer(w, h, d) PROVE HandlerMoves(w)
  <2>1. PICK r : r = [pc |-> "record", hash |-> h, decision |-> d]
    OBVIOUS
  <2>2. r.pc = "record" /\ handler' = [handler EXCEPT ![w] = r] /\ UNCHANGED counters
    BY <1>2, <2>1 DEF HandleOffer
  <2>3. c.pc = "ready"
    BY <1>2 DEF HandleOffer, Ready
  <2> QED BY <1>1, <2>2, <2>3
<1>3. CASE RecordOffer(w)
  <2>1. c \in Offering /\ c.pc = "record"
    BY <1>0, <1>3 DEF RecordOffer, Ready, Offering, Checking, Starting
  <2>2. [c EXCEPT !.pc = "already"].pc = "already"
    BY <2>1 DEF Offering
  <2>3. PICK r : handler' = [handler EXCEPT ![w] = r] /\ r.pc \in {"ready", "already"}
    BY <1>3, <2>2 DEF RecordOffer, Ready
  <2> QED BY <1>1, <1>3, <2>1, <2>3 DEF RecordOffer
<1>4. CASE CheckAlready(w)
  <2>1. c \in Offering /\ c.pc = "already"
    BY <1>0, <1>4 DEF CheckAlready, Ready, Offering, Checking, Starting
  <2>2. [c EXCEPT !.pc = "load_active"].pc = "load_active"
    BY <2>1 DEF Offering
  <2>3. PICK r : r = IF status[c.hash] \in {"Complete", "Fetching"} THEN Ready
                     ELSE [c EXCEPT !.pc = "load_active"]
    OBVIOUS
  <2>4. r.pc \in {"ready", "load_active"}
    BY <2>2, <2>3 DEF Ready
  <2>5. handler' = [handler EXCEPT ![w] = r] /\ UNCHANGED counters
    BY <1>4, <2>3 DEF CheckAlready
  <2> QED BY <1>1, <2>1, <2>4, <2>5
<1>5. CASE LoadActive(w)
  <2>1. PICK r : r = [pc |-> "load_spent", hash |-> c.hash, decision |-> c.decision,
                      active |-> active]
    OBVIOUS
  <2>2. r.pc = "load_spent" /\ r.active = active
    BY <2>1
  <2>3. handler' = [handler EXCEPT ![w] = r] /\ UNCHANGED counters /\ c.pc = "load_active"
    BY <1>5, <2>1 DEF LoadActive
  <2> QED BY <2>2, <2>3 DEF HandlerMoves
<1>6. CASE LoadSpent(w)
  <2>1. c \in Checking /\ c.pc = "load_spent" /\ c.hash \in Hashes
    BY <1>0, <1>6 DEF LoadSpent, Ready, Offering, Checking, Starting
  <2>2. UNCHANGED counters
    BY <1>6 DEF LoadSpent
  <2>3. CASE check_auto_fetch(c.hash, c.active, spent) /\ c.decision = "Accept"
    <3>1. PICK r : r = [pc |-> "reserve", hash |-> c.hash]
      OBVIOUS
    <3>2. r.pc = "reserve" /\ r.hash = c.hash /\ handler' = [handler EXCEPT ![w] = r]
      BY <1>6, <2>3, <3>1 DEF LoadSpent
    <3>3. /\ c.active < max_concurrent_fetches /\ Size[c.hash] <= max_blob_size
          /\ spent + Size[c.hash] <= max_total_auto_fetch_bytes
      BY <2>3 DEF check_auto_fetch
    <3> QED BY <2>1, <2>2, <3>2, <3>3 DEF HandlerMoves
  <2>4. CASE ~(check_auto_fetch(c.hash, c.active, spent) /\ c.decision = "Accept")
    <3>1. handler' = [handler EXCEPT ![w] = Ready]
      BY <1>6, <2>4 DEF LoadSpent
    <3> QED BY <1>1, <2>1, <2>2, <3>1 DEF Ready
  <2> QED BY <2>3, <2>4
<1>7. CASE ReserveBytes(w)
  <2>1. c \in Starting /\ c.pc = "reserve" /\ c.hash \in Hashes
    BY <1>0, <1>7 DEF ReserveBytes, Ready, Offering, Checking, Starting
  <2>2. PICK r : r = [c EXCEPT !.pc = "spawn"]
    OBVIOUS
  <2>3. r.pc = "spawn"
    BY <2>1, <2>2 DEF Starting
  <2>4. /\ handler' = [handler EXCEPT ![w] = r] /\ active' = active
        /\ spent' = spent + Size[c.hash]
    BY <1>7, <2>2 DEF ReserveBytes
  <2> QED BY <2>1, <2>3, <2>4 DEF HandlerMoves
<1>8. ASSUME NEW t \in Tasks, Spawn(w, t) PROVE HandlerMoves(w)
  BY <1>8 DEF Spawn, HandlerMoves
<1> QED BY <1>2, <1>3, <1>4, <1>5, <1>6, <1>7, <1>8 DEF HandlerStep

\* The count: permission to fetch is only given below the limit, and is used
\* up by the fetch it was given for.
LEMMA HandlerCount ==
  ASSUME Shapes, CountInv, NEW w \in Handlers, HandlerMoves(w)
  PROVE  CountInv'
<1> DEFINE c == handler[w]
<1>0. PICK r : handler' = [handler EXCEPT ![w] = r] /\
        \/ UNCHANGED counters /\ ~Allows(r)
        \/ UNCHANGED counters /\ r.pc = "load_spent" /\ r.active = active
        \/ UNCHANGED counters /\ Allows(c) /\ Allows(r)
        \/ active' = active /\ Allows(c) /\ Allows(r)
        \/ active' = active + 1 /\ Allows(c) /\ ~Allows(r)
  <2>1. ~Allows(Ready)
    BY DEF Allows, Ready
  <2> QED BY <2>1 DEF HandlerMoves, Allows
<1>1. Allowed' = IF Allows(r) THEN Allowed \cup {w} ELSE Allowed \ {w}
  BY <1>0, OneHandler
<1>2. Allowed \subseteq Handlers /\ Allowed' \subseteq Handlers
  BY <1>1 DEF Allowed
<1>3. PICK o \in Nat, m \in Nat, a \in Int, k \in Nat, l \in Nat :
        /\ o = Others /\ m = max_concurrent_fetches /\ a = active
        /\ k = Cardinality(Allowed) /\ l = Cardinality(Allowed') /\ l <= o + 1
  <2>1. active \in Int
    BY DEF Shapes
  <2>2. Cardinality(Allowed) \in Nat /\ Cardinality(Allowed') \in Nat /\ Cardinality(Allowed') <= Others + 1
    BY <1>2, OthersCount
  <2> QED BY <2>1, <2>2, OthersCount
<1>4. a + k <= m + o
  BY <1>3 DEF CountInv
<1>5. IsFiniteSet(Allowed)
  BY <1>2, OthersCount
<1>6. (w \in Allowed <=> Allows(c))
  BY DEF Allowed
<1>7. /\ ~Allows(r) => l = IF Allows(c) THEN k - 1 ELSE k
      /\ Allows(r) /\ Allows(c) => l = k
  <2>1. ~Allows(r) => l = IF w \in Allowed THEN k - 1 ELSE k
    BY <1>1, <1>3, <1>5, FS_RemoveElement
  <2>2. Allows(c) => Allowed \cup {w} = Allowed
    BY <1>6
  <2> QED BY <1>1, <1>3, <1>6, <2>1, <2>2
<1>8. active' + l <= m + o
  <2>1. CASE active' = active /\ ~Allows(r)
    BY <1>3, <1>4, <1>7, <2>1
  <2>2. CASE active' = active /\ r.pc = "load_spent" /\ r.active = active /\ Allows(r)
    <3>1. a < m
      BY <1>3, <2>2 DEF Allows
    <3> QED BY <1>3, <2>2, <3>1
  <2>3. CASE active' = active /\ Allows(c) /\ Allows(r)
    BY <1>3, <1>4, <1>7, <2>3
  <2>4. CASE active' = active + 1 /\ Allows(c) /\ ~Allows(r)
    BY <1>3, <1>4, <1>7, <2>4
  <2> QED BY <1>0, <2>1, <2>2, <2>3, <2>4 DEF counters
<1>9. Others' = Others
  BY DEF Others
<1> QED BY <1>3, <1>8, <1>9 DEF CountInv

\* The bytes: a handler is found within the budget beside at most one blob
\* of each other.
LEMMA HandlerSpends ==
  ASSUME Shapes, spent \in Int, BytesInv, NEW w \in Handlers, HandlerMoves(w)
  PROVE  BytesInv'
<1> DEFINE c == handler[w]
           size(v) == Size[handler[v].hash]
<1>0. PICK r : handler' = [handler EXCEPT ![w] = r] /\
        \/ spent' = spent /\ c.pc # "reserve" /\ r.pc # "reserve"
        \/ /\ spent' = spent /\ c.pc # "reserve" /\ r.pc = "reserve" /\ r.hash = c.hash
           /\ c.hash \in Hashes /\ Size[c.hash] <= max_blob_size
           /\ spent + Size[c.hash] <= max_total_auto_fetch_bytes
        \/ /\ c.pc = "reserve" /\ r.pc # "reserve" /\ c.hash \in Hashes
           /\ spent' = spent + Size[c.hash]
  <2>1. Ready.pc # "reserve"
    BY DEF Ready
  <2> QED BY <2>1 DEF HandlerMoves, Allows, counters
<1>1. /\ Reserving' = IF r.pc = "reserve" THEN Reserving \cup {w} ELSE Reserving \ {w}
      /\ handler'[w] = r /\ \A v \in Handlers : v # w => handler'[v] = handler[v]
  BY <1>0, OneHandler
<1>2. Reserving \subseteq Handlers /\ (w \in Reserving <=> c.pc = "reserve")
  BY DEF Reserving
<1>3. PICK o \in Nat, b \in Nat, T \in Nat, B \in Nat, s \in Int, k \in Nat :
        /\ o = Others /\ b = max_blob_size /\ T = max_total_auto_fetch_bytes /\ B = Budget
        /\ B = T + o * b /\ s = spent /\ k = Cardinality(Reserving) /\ IsFiniteSet(Reserving)
  BY <1>2, OthersCount DEF Budget
<1>4. Budget' = Budget
  BY DEF Budget, Others
<1>5. \A v \in Handlers : v \in Reserving => size(v) \in Nat /\ size(v) <= b
  <2>1. ASSUME NEW v \in Handlers, v \in Reserving PROVE size(v) \in Nat
    <3>1. handler[v].hash \in Hashes
      BY <2>1 DEF Reserving, Shapes, Ready, Offering, Checking, Starting
    <3> QED BY <3>1, FetchAssumption
  <2>2. \A v \in Reserving : size(v) <= b
    BY <1>3 DEF BytesInv
  <2> QED BY <2>1, <2>2
<1>6. CASE spent' = spent /\ c.pc # "reserve" /\ r.pc # "reserve"
  <2>1. Reserving' = Reserving /\ \A v \in Reserving : v \in Handlers /\ handler'[v] = handler[v]
    BY <1>1, <1>2, <1>6
  <2> QED BY <1>4, <1>6, <2>1 DEF BytesInv
<1>7. CASE /\ spent' = spent /\ c.pc # "reserve" /\ r.pc = "reserve" /\ r.hash = c.hash
           /\ c.hash \in Hashes /\ Size[c.hash] <= max_blob_size
           /\ spent + Size[c.hash] <= max_total_auto_fetch_bytes
  <2>1. PICK z \in Nat : z = Size[c.hash] /\ z <= b /\ s + z <= T
    BY <1>3, <1>7, FetchAssumption
  <2>2. Reserving' = Reserving \cup {w} /\ w \in Reserving' /\ Reserving' \subseteq Handlers
    BY <1>1, <1>2, <1>7
  <2>3. PICK l \in Nat : l = Cardinality(Reserving') /\ l <= o + 1
    BY <1>3, <2>2, OthersCount
  <2>4. l - 1 <= o /\ l - 1 \in Int
    BY <2>3
  <2>5. b * (l - 1) <= o * b
    BY <2>4
  <2>6. o * b \in Nat /\ b * (l - 1) \in Int
    BY <2>4
  <2>7. s + z + b * (l - 1) <= B
    BY <1>3, <2>1, <2>5, <2>6
  <2>8. \A v \in Reserving' : Size[handler'[v].hash] <= max_blob_size
    <3>1. Size[handler'[w].hash] <= max_blob_size
      BY <1>1, <1>7
    <3>2. \A v \in Reserving : v # w => Size[handler'[v].hash] <= max_blob_size
      BY <1>1, <1>2 DEF BytesInv
    <3> QED BY <2>2, <3>1, <3>2
  <2>9. spent' <= Budget'
    BY <1>4, <1>7 DEF BytesInv
  <2>10. Size[handler'[w].hash] = z
    BY <1>1, <1>7, <2>1
  <2>11. spent' + Size[handler'[w].hash] + max_blob_size * (Cardinality(Reserving') - 1) <= Budget'
    BY <1>3, <1>4, <1>7, <2>3, <2>7, <2>10
  <2> QED BY <2>2, <2>8, <2>9, <2>11 DEF BytesInv
<1>8. CASE /\ c.pc = "reserve" /\ r.pc # "reserve" /\ c.hash \in Hashes
           /\ spent' = spent + Size[c.hash]
  <2>1. w \in Reserving /\ Reserving' = Reserving \ {w}
    BY <1>1, <1>2, <1>8
  <2>2. PICK z \in Nat : z = size(w) /\ z <= b /\ spent' = s + z
    BY <1>3, <1>5, <1>8, <2>1
  <2>3. PICK l \in Nat : l = Cardinality(Reserving') /\ l = k - 1
    <3>1. Cardinality(Reserving \ {w}) = Cardinality(Reserving) - 1
      BY <1>3, <2>1, FS_RemoveElement
    <3>2. Cardinality(Reserving \ {w}) \in Nat
      BY <1>2, OthersCount
    <3> QED BY <1>3, <2>1, <3>1, <3>2
  <2>4. PICK v \in Reserving : s + size(v) + b * (k - 1) <= B
    BY <1>3, <2>1 DEF BytesInv
  <2>5. PICK y \in Nat : y = size(v) /\ y <= b
    BY <1>2, <1>5, <2>4
  <2>6. s + y + b * l <= B /\ b * l \in Nat
    BY <2>3, <2>4, <2>5
  <2>7. \A u \in Reserving' : u \in Reserving /\ u \in Handlers /\ handler'[u] = handler[u]
    BY <1>1, <1>2, <2>1
  <2>8. \A u \in Reserving' : Size[handler'[u].hash] <= max_blob_size
    BY <2>7 DEF BytesInv
  <2>9. CASE l = 0
    <3>1. Reserving' = {}
      <4>1. IsFiniteSet(Reserving')
        BY <1>3, <2>1, FS_RemoveElement
      <4> QED BY <2>3, <2>9, <4>1, FS_EmptySet
    <3>2. k = 1 /\ v = w
      <4>1. v \notin Reserving'
        BY <3>1
      <4> QED BY <1>3, <2>3, <2>1, <2>9, <4>1
    <3>3. spent' <= B
      <4>1. y = z /\ b * l = 0
        BY <2>2, <2>5, <2>9, <3>2
      <4> QED BY <2>2, <2>6, <4>1
    <3> QED BY <1>3, <1>4, <3>1, <3>3 DEF BytesInv
  <2>10. CASE l # 0
    <3>1. b * l = b * (l - 1) + b /\ b * (l - 1) \in Nat
      <4>1. PICK j \in Nat : j = l - 1 /\ l = j + 1
        BY <2>10
      <4>2. b * (j + 1) = b * j + b /\ b * j \in Nat
        OBVIOUS
      <4> QED BY <4>1, <4>2
    <3>2. \E u \in Reserving' : s + z + size(u) + b * (l - 1) <= B
      <4>1. CASE v = w
        <5>1. PICK u \in Reserving' : TRUE
          <6>1. Reserving' # {}
            BY <2>3, <2>10, FS_EmptySet
          <6> QED BY <6>1
        <5>2. PICK x \in Nat : x = size(u) /\ x <= b
          BY <1>5, <2>7
        <5>3. y = z
          BY <2>2, <2>5, <4>1
        <5>4. s + z + x + b * (l - 1) <= B
          BY <2>6, <3>1, <5>2, <5>3
        <5> QED BY <5>2, <5>4
      <4>2. CASE v # w
        <5>1. v \in Reserving'
          BY <2>1, <4>2
        <5>2. s + z + y + b * (l - 1) <= B
          BY <2>2, <2>6, <3>1
        <5> QED BY <2>5, <5>1, <5>2
      <4> QED BY <4>1, <4>2
    <3>3. PICK u \in Reserving' : s + z + size(u) + b * (l - 1) <= B
      BY <3>2
    <3>4. PICK x \in Nat : x = size(u)
      BY <1>5, <2>7
    <3>5. spent' + Size[handler'[u].hash] + max_blob_size * (Cardinality(Reserving') - 1) <= Budget'
      BY <1>3, <1>4, <2>2, <2>3, <2>7, <3>3
    <3>6. spent' <= Budget'
      BY <1>3, <1>4, <2>2, <3>1, <3>3, <3>4
    <3> QED BY <2>8, <3>5, <3>6 DEF BytesInv
  <2> QED BY <2>9, <2>10
<1> QED BY <1>0, <1>6, <1>7, <1>8

\* Counters that do not grow keep within both.
LEMMA LessKeepsPolicy ==
  ASSUME Shapes, spent \in Int, CountInv, BytesInv, handler' = handler,
         active' \in Int, active' <= active, spent' \in Int, spent' <= spent
  PROVE  CountInv' /\ BytesInv'
<1>1. Allowed' = Allowed /\ Reserving' = Reserving /\ Others' = Others /\ Budget' = Budget
  BY DEF Allowed, Reserving, Others, Budget, Allows
<1>2. /\ Allowed \subseteq Handlers /\ Reserving \subseteq Handlers
  BY DEF Allowed, Reserving
<1>3. CountInv'
  <2>1. Cardinality(Allowed) \in Nat /\ active \in Int
    BY <1>2, OthersCount DEF Shapes
  <2> QED BY <1>1, <2>1, OthersCount DEF CountInv
<1>4. spent' <= Budget'
  BY <1>1, OthersCount DEF BytesInv
<1>5. ASSUME Reserving # {}
      PROVE  \E w \in Reserving :
               spent' + Size[handler[w].hash] + max_blob_size * (Cardinality(Reserving) - 1) <= Budget
  <2>1. PICK w \in Reserving :
          spent + Size[handler[w].hash] + max_blob_size * (Cardinality(Reserving) - 1) <= Budget
    BY <1>5 DEF BytesInv
  <2>2. PICK z \in Nat : z = Size[handler[w].hash]
    <3>1. handler[w].hash \in Hashes
      BY <1>2, <2>1 DEF Reserving, Shapes, Ready, Offering, Checking, Starting
    <3> QED BY <3>1, FetchAssumption
  <2>3. PICK x \in Int : x = max_blob_size * (Cardinality(Reserving) - 1)
    <3>1. PICK k \in Nat, b \in Nat : k = Cardinality(Reserving) /\ b = max_blob_size
      BY <1>2, OthersCount
    <3>2. b * (k - 1) \in Int
      OBVIOUS
    <3> QED BY <3>1, <3>2
  <2>4. spent' + z + x <= Budget
    BY <2>1, <2>2, <2>3, OthersCount
  <2> QED BY <2>2, <2>3, <2>4
<1> QED BY <1>1, <1>3, <1>4, <1>5 DEF BytesInv

\* Whatever the number of handlers and however they interleave, the policy's
\* limits on automatic fetches (policy.rs:20-23) are exceeded by at most one
\* fetch, of at most max_blob_size bytes, for each handler but one.
THEOREM PolicyOvershootBounded == Spec => []PolicyOvershoot
<1> DEFINE PolicyInv == CountInv /\ BytesInv
<1>1. Init => PolicyInv
  <2> SUFFICES ASSUME Init PROVE PolicyInv
    OBVIOUS
  <2>1. Allowed = {} /\ Reserving = {} /\ active = 0 /\ spent = 0
    BY DEF Init, Allowed, Reserving, Allows, Ready
  <2>2. Cardinality(Allowed) = 0
    BY <2>1, FS_EmptySet
  <2> QED BY <2>1, <2>2, OthersCount DEF CountInv, BytesInv
<1>2. ASSUME FetchInv, BudgetInv, PolicyInv, [Next]_vars PROVE PolicyInv'
  <2> USE <1>2
  <2>0. Shapes /\ active \in Int /\ spent \in Int /\ kept \in Nat
    BY DEF FetchInv, BudgetInv, Shapes
  <2>1. ASSUME NEW w \in Handlers,
               \/ \E h \in Hashes, d \in {"Accept", "RecordOnly"} : HandleOffer(w, h, d)
               \/ HandlerStep(w)
        PROVE  PolicyInv'
    BY <2>0, <2>1, HandlerStepMoves, HandlerCount, HandlerSpends
  <2>2. ASSUME handler' = handler, UNCHANGED counters PROVE PolicyInv'
    BY <2>0, <2>2, LessKeepsPolicy DEF counters
  <2>3. ASSUME NEW t \in Tasks, FetchStep(t) \/ Progress(t) PROVE PolicyInv'
    <3>1. fetch[t] \in Running /\ Accounts(t) /\ handler' = handler
      BY <2>0, <2>3, FetchAccounts
    <3>2. PICK z \in Nat : z = Size[fetch[t].hash]
      BY <3>1, FetchAssumption DEF Running
    <3>3. active' = active \/ active' = active - 1
      BY <3>1 DEF Accounts, GoesOn, counters
    <3>4. spent' = spent \/ spent' = spent - z
      BY <3>1, <3>2 DEF Accounts, counters
    <3>5. active' \in Int /\ active' <= active /\ spent' \in Int /\ spent' <= spent
      BY <2>0, <3>3, <3>4
    <3> QED BY <2>0, <3>1, <3>5, LessKeepsPolicy
  <2>4. ASSUME NEW t \in Tasks, NEW h \in Hashes, FetchManually(t, h) PROVE PolicyInv'
    BY <2>2, <2>4 DEF FetchManually
  <2>5. ASSUME NEW h \in Hashes, publish(h) PROVE PolicyInv'
    BY <2>2, <2>5 DEF publish
  <2>6. CASE UNCHANGED vars
    BY <2>2, <2>6 DEF vars, counters
  <2> HIDE DEF PolicyInv
  <2> QED
    BY <2>1, <2>3, <2>4, <2>5, <2>6 DEF Next
<1>3. BudgetInv /\ Shapes /\ PolicyInv => PolicyOvershoot
  <2> SUFFICES ASSUME BudgetInv, Shapes, CountInv, BytesInv PROVE PolicyOvershoot
    OBVIOUS
  <2>1. Allowed \subseteq Handlers
    BY DEF Allowed
  <2>2. Cardinality(Allowed) \in Nat /\ active \in Int /\ active = Cardinality(AutoFetches)
    BY <2>1, OthersCount DEF Shapes, BudgetInv
  <2> QED BY <2>2, OthersCount DEF CountInv, BytesInv, PolicyOvershoot, Budget
<1>4. FetchInv => Shapes
  BY DEF FetchInv
<1> HIDE DEF PolicyInv
<1> QED
  BY <1>1, <1>2, <1>3, <1>4, FetchInvariance, BudgetInvariance, PTL DEF Spec

\* With at most one handler at a time the limits hold, however many fetches
\* run and fail beside it (with two they do not: the counters are read,
\* checked and raised in separate steps).
THEOREM PolicyHolds ==
  ASSUME \A v, w \in Handlers : v = w
  PROVE  Spec => []PolicyRespected
<1>1. Others = 0
  <2>1. ASSUME NEW w \in Handlers PROVE Cardinality(Handlers) = 1
    <3>1. Handlers = {w}
      BY <2>1
    <3> QED BY <3>1, FS_Singleton
  <2> QED BY <2>1 DEF Others
<1>2. ASSUME PolicyOvershoot, BudgetInv PROVE PolicyRespected
  <2>1. max_concurrent_fetches + 0 = max_concurrent_fetches /\ 0 * max_blob_size = 0
        /\ max_total_auto_fetch_bytes + 0 = max_total_auto_fetch_bytes
    BY FetchAssumption
  <2> QED BY <1>1, <1>2, <2>1 DEF PolicyOvershoot, PolicyRespected
<1> QED BY <1>2, PolicyOvershootBounded, BudgetInvariance, PTL

---------------------------------------------------------------------------
(* One automatic fetch per blob, while the offer table evicts nothing. *)

\* A handler past record_offer, and an automatic fetch, hold their blob: it
\* is on record, and nobody else holds it.
Holding(w) == handler[w].pc \in {"already", "load_active", "load_spent", "reserve", "spawn"}

OnceInv ==
  /\ \A w \in Handlers : Holding(w) => status[handler[w].hash] # "none"
  /\ \A t \in AutoFetches : status[fetch[t].hash] # "none"
  /\ \A v, w \in Handlers : Holding(v) /\ Holding(w) /\ handler[v].hash = handler[w].hash => v = w
  /\ \A w \in Handlers, t \in AutoFetches : Holding(w) => handler[w].hash # fetch[t].hash
  /\ AutoFetchedOnce

\* A table with room for every blob loses no record.
LEMMA NothingEvicted ==
  ASSUME MaxOffers >= Cardinality(Hashes), Shapes, NEW h \in Hashes
  PROVE  /\ \A s : status' \in Recorded(h, s) => status' = [status EXCEPT ![h] = s]
         /\ status' \in RecordedOwn(h) => status' \in {status, [status EXCEPT ![h] = "Complete"]}
<1>1. Records \cup {h} \in SUBSET Hashes /\ IsFiniteSet(Hashes) /\ MaxOffers \in Nat
  BY FetchAssumption DEF Records
<1>2. /\ Cardinality(Records \cup {h}) <= Cardinality(Hashes) /\ Cardinality(Hashes) \in Nat
      /\ Cardinality(Records \cup {h}) \in Nat
  BY <1>1, FS_Subset, FS_CardinalityType
<1>3. Cardinality(Records \cup {h}) <= MaxOffers
  BY <1>1, <1>2
<1>4. \A s : Recorded(h, s) = {[status EXCEPT ![h] = s]}
  BY <1>3 DEF Recorded
<1> QED BY <1>4 DEF RecordedOwn

\* A step that keeps records on record and brings nobody new to a blob.
LEMMA NobodyNew ==
  ASSUME OnceInv, \A h \in Hashes : status[h] # "none" => status'[h] # "none",
         \A w \in Handlers : Holding(w)' => Holding(w) /\ handler'[w].hash = handler[w].hash
                                            /\ handler[w].hash \in Hashes,
         \A t \in AutoFetches' : t \in AutoFetches /\ fetch'[t].hash = fetch[t].hash
                                 /\ fetch[t].hash \in Hashes
  PROVE  OnceInv'
<1>1. \A w \in Handlers : Holding(w)' => (status[handler[w].hash] # "none")'
  BY DEF OnceInv
<1>2. \A t \in AutoFetches' : status'[fetch'[t].hash] # "none"
  BY DEF OnceInv
<1>3. \A v, w \in Handlers : Holding(v)' /\ Holding(w)' /\ handler'[v].hash = handler'[w].hash => v = w
  BY DEF OnceInv
<1>4. \A w \in Handlers, t \in AutoFetches' : Holding(w)' => handler'[w].hash # fetch'[t].hash
  BY DEF OnceInv
<1>5. AutoFetchedOnce'
  BY DEF OnceInv, AutoFetchedOnce
<1> QED BY <1>1, <1>2, <1>3, <1>4, <1>5 DEF OnceInv

\* A fetch holds the blob it was started for.
LEMMA FetchOnce ==
  ASSUME MaxOffers >= Cardinality(Hashes), Shapes, BudgetInv, OnceInv, NEW t \in Tasks,
         FetchStep(t) \/ Progress(t)
  PROVE  OnceInv'
<1>0. /\ fetch[t] \in Running /\ Accounts(t) /\ handler' = handler
      /\ \A u \in Tasks \ {t} : fetch'[u] = fetch[u]
  BY FetchAccounts
<1>1. fetch[t].hash \in Hashes /\ fetch[t].pc \in Working \cup {"queued"}
  BY <1>0 DEF Running
<1>2. \A h \in Hashes : status[h] # "none" => status'[h] # "none"
  <2>1. \/ status' = status
        \/ \E s \in {"Fetching", "Failed"} : status' = set_status(fetch[t].hash, s)
        \/ status' \in RecordedOwn(fetch[t].hash)
    BY DEF FetchStep, Progress, Acquire, CheckStore, NoProviders, StartDownload, DownloadEnds,
           DownloadFails, VerifyStore, MarkComplete, Announce, Export, FailFetch, Refund, EndAuto
  <2>2. status \in [Hashes -> Statuses]
    BY DEF Shapes
  <2>3. CASE status' \in {status, [status EXCEPT ![fetch[t].hash] = "Complete"]}
    BY <1>1, <2>2, <2>3
  <2>4. ASSUME NEW s \in {"Fetching", "Failed"}, status' = set_status(fetch[t].hash, s)
        PROVE  \A h \in Hashes : status[h] # "none" => status'[h] # "none"
    BY <1>1, <2>2, <2>4 DEF set_status
  <2> QED BY <1>1, <2>1, <2>3, <2>4, NothingEvicted
<1>3. \A w \in Handlers : Holding(w)' => Holding(w) /\ handler'[w].hash = handler[w].hash
                                         /\ handler[w].hash \in Hashes
  BY <1>0 DEF Holding, Shapes, Ready, Offering, Checking, Starting
<1>4. t \in AutoFetches' => t \in AutoFetches /\ fetch'[t].hash = fetch[t].hash
  <2>1. CASE GoesOn(t)
    BY <1>1, <2>1 DEF GoesOn, AutoFetches, InFlight
  <2>2. CASE fetch'[t] = Free
    BY <2>2 DEF AutoFetches, InFlight, Free, Working
  <2> QED BY <1>0, <2>1, <2>2 DEF Accounts
<1>5. ASSUME NEW u \in AutoFetches'
      PROVE  u \in AutoFetches /\ fetch'[u].hash = fetch[u].hash /\ fetch[u].hash \in Hashes
  <2>1. u \in Tasks
    BY <1>5 DEF AutoFetches, InFlight
  <2>2. CASE u = t
    BY <1>1, <1>4, <1>5, <2>2
  <2>3. CASE u # t
    <3>1. fetch'[u] = fetch[u]
      BY <1>0, <2>1, <2>3
    <3>2. u \in AutoFetches
      BY <1>5, <2>1, <3>1 DEF AutoFetches, InFlight
    <3> QED BY <3>1, <3>2, Sizes
  <2> QED BY <2>2, <2>3
<1> QED BY <1>2, <1>3, <1>5, NobodyNew

\* A handler comes to hold a blob only when it records it, and then nobody
\* held it; it hands it to the fetch it spawns.
LEMMA HandlerOnce ==
  ASSUME MaxOffers >= Cardinality(Hashes), Shapes, OnceInv, NEW w \in Handlers,
         \/ HandlerStep(w)
         \/ \E h \in Hashes, d \in {"Accept", "RecordOnly"} : HandleOffer(w, h, d)
  PROVE  OnceInv'
<1> DEFINE c == handler[w]
<1>0. /\ handler \in [Handlers -> {Ready} \cup Offering \cup Checking \cup Starting]
      /\ status \in [Hashes -> Statuses] /\ fetch \in [Tasks -> {Free} \cup Running]
  BY DEF Shapes
<1>1. \A v \in Handlers : Holding(v) => handler[v].hash \in Hashes
  BY <1>0 DEF Holding, Ready, Offering, Checking, Starting
<1>2. \A t \in AutoFetches : fetch[t].hash \in Hashes /\ t \in Tasks
  BY Sizes
<1>3. ASSUME UNCHANGED <<status, fetch>>, NEW r, handler' = [handler EXCEPT ![w] = r],
             \/ r.pc \in {"ready", "record"}
             \/ Holding(w) /\ r.hash = c.hash
      PROVE  OnceInv'
  <2>1. handler'[w] = r /\ \A v \in Handlers \ {w} : handler'[v] = handler[v]
    BY <1>0, <1>3
  <2>2. AutoFetches' = AutoFetches
    BY <1>3 DEF AutoFetches, InFlight
  <2>3. ASSUME NEW v \in Handlers, Holding(v)'
        PROVE  Holding(v) /\ handler'[v].hash = handler[v].hash /\ handler[v].hash \in Hashes
    <3>1. CASE v = w
      <4>1. r.pc \notin {"ready", "record"}
        BY <2>1, <2>3, <3>1 DEF Holding
      <4> QED BY <1>1, <1>3, <2>1, <3>1, <4>1
    <3>2. CASE v # w
      BY <1>1, <2>1, <2>3, <3>2 DEF Holding
    <3> QED BY <3>1, <3>2
  <2> QED BY <1>2, <1>3, <2>2, <2>3, NobodyNew
<1>4. ASSUME NEW h \in Hashes, NEW d, HandleOffer(w, h, d) PROVE OnceInv'
  <2>1. PICK r : r = [pc |-> "record", hash |-> h, decision |-> d]
    OBVIOUS
  <2>2. r.pc = "record" /\ handler' = [handler EXCEPT ![w] = r] /\ UNCHANGED <<status, fetch>>
    BY <1>4, <2>1 DEF HandleOffer
  <2> QED BY <1>3, <2>2
<1>5. CASE RecordOffer(w)
  <2>1. c \in Offering /\ c.pc = "record" /\ c.hash \in Hashes
    BY <1>0, <1>5 DEF RecordOffer, Ready, Offering, Checking, Starting
  <2>2. PICK r : r = [c EXCEPT !.pc = "already"]
    OBVIOUS
  <2>3. r.pc = "already" /\ r.hash = c.hash
    BY <2>1, <2>2 DEF Offering
  <2>4. CASE handler' = [handler EXCEPT ![w] = Ready] /\ UNCHANGED status
    BY <1>3, <1>5, <2>4 DEF RecordOffer, Ready
  <2>5. CASE /\ status[c.hash] = "none" /\ status' \in Recorded(c.hash, "Missing")
             /\ handler' = [handler EXCEPT ![w] = r]
    <3>1. status' = [status EXCEPT ![c.hash] = "Missing"] /\ fetch' = fetch
      BY <1>5, <2>1, <2>5, NothingEvicted DEF RecordOffer
    <3>2. \A h \in Hashes : status[h] # "none" => status'[h] # "none"
      BY <1>0, <3>1
    <3>3. status'[c.hash] # "none"
      BY <1>0, <2>1, <3>1
    <3>4. AutoFetches' = AutoFetches
      BY <3>1 DEF AutoFetches, InFlight
    <3>5. handler'[w] = r /\ \A v \in Handlers \ {w} : handler'[v] = handler[v]
      BY <1>0, <2>5
    <3>6. \A v \in Handlers \ {w} : Holding(v)' <=> Holding(v)
      BY <3>5 DEF Holding
    <3>7. \A v \in Handlers \ {w} : Holding(v) => handler[v].hash # c.hash
      BY <2>5 DEF OnceInv
    <3>8. \A t \in AutoFetches : fetch[t].hash # c.hash
      BY <2>5 DEF OnceInv
    <3>9. \A v \in Handlers : Holding(v)' => (status[handler[v].hash] # "none")'
      BY <1>1, <2>3, <3>2, <3>3, <3>5, <3>6 DEF OnceInv
    <3>10. \A t \in AutoFetches' : status'[fetch'[t].hash] # "none"
      BY <1>2, <3>1, <3>2, <3>4 DEF OnceInv
    <3>11. \A v, u \in Handlers :
             Holding(v)' /\ Holding(u)' /\ handler'[v].hash = handler'[u].hash => v = u
      BY <2>3, <3>5, <3>6, <3>7 DEF OnceInv
    <3>12. \A v \in Handlers, t \in AutoFetches' : Holding(v)' => handler'[v].hash # fetch'[t].hash
      BY <2>3, <3>1, <3>4, <3>5, <3>6, <3>8 DEF OnceInv
    <3>13. AutoFetchedOnce'
      BY <3>1, <3>4 DEF OnceInv, AutoFetchedOnce
    <3> QED BY <3>9, <3>10, <3>11, <3>12, <3>13 DEF OnceInv
  <2> QED BY <1>5, <2>2, <2>4, <2>5 DEF RecordOffer
<1>6. CASE CheckAlready(w)
  <2>1. c \in Offering /\ Holding(w)
    BY <1>0, <1>6 DEF CheckAlready, Ready, Offering, Checking, Starting, Holding
  <2>2. [c EXCEPT !.pc = "load_active"].hash = c.hash
    BY <2>1 DEF Offering
  <2>3. PICK r : r = IF status[c.hash] \in {"Complete", "Fetching"} THEN Ready
                     ELSE [c EXCEPT !.pc = "load_active"]
    OBVIOUS
  <2>4. r.pc = "ready" \/ r.hash = c.hash
    BY <2>2, <2>3 DEF Ready
  <2>5. handler' = [handler EXCEPT ![w] = r] /\ UNCHANGED <<status, fetch>>
    BY <1>6, <2>3 DEF CheckAlready
  <2> QED BY <1>3, <2>1, <2>4, <2>5
<1>7. CASE LoadActive(w)
  <2>1. PICK r : r = [pc |-> "load_spent", hash |-> c.hash, decision |-> c.decision,
                      active |-> active]
    OBVIOUS
  <2>2. r.hash = c.hash /\ Holding(w)
    BY <1>7, <2>1 DEF LoadActive, Holding
  <2>3. handler' = [handler EXCEPT ![w] = r] /\ UNCHANGED <<status, fetch>>
    BY <1>7, <2>1 DEF LoadActive
  <2> QED BY <1>3, <2>2, <2>3
<1>8. CASE LoadSpent(w)
  <2>1. PICK r : r = IF check_auto_fetch(c.hash, c.active, spent) /\ c.decision = "Accept"
                     THEN [pc |-> "reserve", hash |-> c.hash] ELSE Ready
    OBVIOUS
  <2>2. (r.pc = "ready" \/ r.hash = c.hash) /\ Holding(w)
    BY <1>8, <2>1 DEF LoadSpent, Holding, Ready
  <2>3. handler' = [handler EXCEPT ![w] = r] /\ UNCHANGED <<status, fetch>>
    BY <1>8, <2>1 DEF LoadSpent
  <2> QED BY <1>3, <2>2, <2>3
<1>9. CASE ReserveBytes(w)
  <2>1. c \in Starting /\ Holding(w)
    BY <1>0, <1>9 DEF ReserveBytes, Ready, Offering, Checking, Starting, Holding
  <2>2. PICK r : r = [c EXCEPT !.pc = "spawn"]
    OBVIOUS
  <2>3. r.hash = c.hash
    BY <2>1, <2>2 DEF Starting
  <2>4. handler' = [handler EXCEPT ![w] = r] /\ UNCHANGED <<status, fetch>>
    BY <1>9, <2>2 DEF ReserveBytes
  <2> QED BY <1>3, <2>1, <2>3, <2>4
<1>10. ASSUME NEW t \in Tasks, Spawn(w, t) PROVE OnceInv'
  <2>1. PICK r : r = [pc |-> "queued", hash |-> c.hash, auto |-> TRUE, attempt |-> 0]
    OBVIOUS
  <2>2. /\ fetch[t] = Free /\ fetch' = [fetch EXCEPT ![t] = r] /\ status' = status
        /\ handler' = [handler EXCEPT ![w] = Ready] /\ Holding(w)
    BY <1>10, <2>1 DEF Spawn, Holding
  <2>3. /\ fetch'[t] = r /\ r.hash = c.hash /\ r.pc = "queued" /\ r.auto = TRUE
        /\ \A u \in Tasks \ {t} : fetch'[u] = fetch[u]
    BY <1>0, <2>1, <2>2
  <2>4. AutoFetches' = AutoFetches \cup {t} /\ t \notin AutoFetches
    BY <2>2, <2>3 DEF AutoFetches, InFlight, Free, Working
  <2>5. \A u \in AutoFetches : fetch'[u] = fetch[u]
    BY <1>2, <2>3, <2>4
  <2>6. \A v \in Handlers : Holding(v)' => v # w /\ Holding(v) /\ handler'[v] = handler[v]
    BY <1>0, <2>2 DEF Holding, Ready
  <2>7. \A v \in Handlers : Holding(v)' => (status[handler[v].hash] # "none")'
    BY <2>2, <2>6 DEF OnceInv
  <2>8. \A u \in AutoFetches' : status'[fetch'[u].hash] # "none"
    BY <2>2, <2>3, <2>4, <2>5 DEF OnceInv
  <2>9. \A v, u \in Handlers :
          Holding(v)' /\ Holding(u)' /\ handler'[v].hash = handler'[u].hash => v = u
    BY <2>6 DEF OnceInv
  <2>10. \A v \in Handlers, u \in AutoFetches' : Holding(v)' => handler'[v].hash # fetch'[u].hash
    BY <2>2, <2>3, <2>4, <2>5, <2>6 DEF OnceInv
  <2>11. AutoFetchedOnce'
    BY <2>2, <2>3, <2>4, <2>5 DEF OnceInv, AutoFetchedOnce
  <2> QED BY <2>7, <2>8, <2>9, <2>10, <2>11 DEF OnceInv
<1> QED BY <1>4, <1>5, <1>6, <1>7, <1>8, <1>9, <1>10 DEF HandlerStep

\* While the offer table has room for every blob, no blob is fetched twice
\* automatically, however many handlers see its offers at once: only one of
\* them finds it new under the state lock.
THEOREM OneAutoFetchPerBlob ==
  ASSUME MaxOffers >= Cardinality(Hashes)
  PROVE  Spec => []AutoFetchedOnce
<1>1. Init => OnceInv
  <2> SUFFICES ASSUME Init PROVE OnceInv
    OBVIOUS
  <2>1. AutoFetches = {} /\ \A w \in Handlers : ~Holding(w)
    BY DEF Init, AutoFetches, InFlight, Free, Working, Holding, Ready
  <2> QED BY <2>1 DEF OnceInv, AutoFetchedOnce
<1>2. ASSUME FetchInv, BudgetInv, OnceInv, [Next]_vars PROVE OnceInv'
  <2> USE <1>2
  <2>0. Shapes
    BY DEF FetchInv
  <2>1. ASSUME NEW w \in Handlers,
               \/ \E h \in Hashes, d \in {"Accept", "RecordOnly"} : HandleOffer(w, h, d)
               \/ HandlerStep(w)
        PROVE  OnceInv'
    BY <2>0, <2>1, HandlerOnce
  <2>2. ASSUME NEW t \in Tasks, FetchStep(t) \/ Progress(t) PROVE OnceInv'
    BY <2>0, <2>2, FetchOnce
  <2>3. ASSUME handler' = handler, AutoFetches' \subseteq AutoFetches,
               \A t \in AutoFetches : fetch'[t] = fetch[t],
               \A h \in Hashes : status[h] # "none" => status'[h] # "none"
        PROVE  OnceInv'
    <3>1. \A w \in Handlers : Holding(w)' => Holding(w) /\ handler'[w].hash = handler[w].hash
                                             /\ handler[w].hash \in Hashes
      BY <2>0, <2>3 DEF Holding, Shapes, Ready, Offering, Checking, Starting
    <3>2. \A t \in AutoFetches' : t \in AutoFetches /\ fetch'[t].hash = fetch[t].hash
                                  /\ fetch[t].hash \in Hashes
      BY <2>0, <2>3, Sizes
    <3> QED BY <2>3, <3>1, <3>2, NobodyNew
  <2>4. ASSUME NEW t \in Tasks, NEW h \in Hashes, FetchManually(t, h) PROVE OnceInv'
    <3>1. PICK r : r = [pc |-> "status", hash |-> h, auto |-> FALSE, attempt |-> 0]
      OBVIOUS
    <3>2. /\ fetch[t] = Free /\ fetch' = [fetch EXCEPT ![t] = r] /\ r.auto = FALSE
          /\ handler' = handler /\ status' = status
      BY <2>4, <3>1 DEF FetchManually
    <3>3. fetch'[t] = r /\ \A u \in Tasks \ {t} : fetch'[u] = fetch[u]
      BY <2>0, <3>2 DEF Shapes
    <3>4. t \notin AutoFetches /\ t \notin AutoFetches'
      BY <3>2, <3>3 DEF AutoFetches, InFlight, Free, Working
    <3>5. AutoFetches' \subseteq AutoFetches /\ \A u \in AutoFetches : fetch'[u] = fetch[u]
      BY <3>3, <3>4 DEF AutoFetches, InFlight
    <3> QED BY <2>3, <3>2, <3>5
  <2>5. ASSUME NEW h \in Hashes, publish(h) PROVE OnceInv'
    <3>1. status' \in {status, [status EXCEPT ![h] = "Complete"]}
      BY <2>0, <2>5, NothingEvicted DEF publish
    <3>2. \A g \in Hashes : status[g] # "none" => status'[g] # "none"
      BY <2>0, <3>1 DEF Shapes
    <3>3. handler' = handler /\ fetch' = fetch
      BY <2>5 DEF publish
    <3>4. AutoFetches' = AutoFetches
      BY <3>3 DEF AutoFetches, InFlight
    <3> QED BY <2>3, <3>2, <3>3, <3>4
  <2>6. CASE UNCHANGED vars
    <3>1. handler' = handler /\ fetch' = fetch /\ status' = status
      BY <2>6 DEF vars
    <3>2. AutoFetches' = AutoFetches
      BY <3>1 DEF AutoFetches, InFlight
    <3> QED BY <2>3, <3>1, <3>2
  <2> QED
    BY <2>1, <2>2, <2>4, <2>5, <2>6 DEF Next
<1>3. OnceInv => AutoFetchedOnce
  BY DEF OnceInv
<1> QED
  BY <1>1, <1>2, <1>3, FetchInvariance, BudgetInvariance, PTL DEF Spec

---------------------------------------------------------------------------
(* Every fetch ends: the part of it that needs no fairness. *)

\* The most steps a fetch has ahead: two for every round it has left, and
\* one for each stage of its end.
StagesLeft == [release |-> 1, refund |-> 2, fail |-> 3, export |-> 4, announce |-> 5,
               mark |-> 6, verify |-> 7, download |-> 7, attempt |-> 8, status |-> 9,
               queued |-> 10]
StepsLeft(f) ==
  IF f = Free THEN 0
  ELSE StagesLeft[f.pc]
         + IF f.pc \in {"queued", "status", "attempt", "download"}
           THEN 2 * (Attempts - f.attempt) ELSE 0

\* A fetch that has started only comes closer to its end.
FetchDescends(t) ==
  \/ fetch'[t] = fetch[t]
  \/ /\ fetch[t] # Free
     /\ StepsLeft(fetch'[t]) \in Nat /\ StepsLeft(fetch'[t]) < StepsLeft(fetch[t])
  \/ /\ fetch[t] = Free
     /\ StepsLeft(fetch'[t]) \in Nat /\ StepsLeft(fetch'[t]) <= 10 + 2 * Attempts

\* What StepsLeft is at each stage.
LEMMA StepsAtStage ==
  ASSUME NEW f \in Running, RoundOK(f)
  PROVE  /\ StepsLeft(f) \in Nat
         /\ f.attempt \in Nat /\ Attempts \in Nat
         /\ f.pc = "queued" => StepsLeft(f) = 10 + 2 * (Attempts - f.attempt)
         /\ f.pc = "status" => StepsLeft(f) = 9 + 2 * (Attempts - f.attempt)
         /\ f.pc = "attempt" => StepsLeft(f) = 8 + 2 * (Attempts - f.attempt)
         /\ f.pc = "download" => StepsLeft(f) = 7 + 2 * (Attempts - f.attempt)
         /\ f.pc = "verify" => StepsLeft(f) = 7
         /\ f.pc = "mark" => StepsLeft(f) = 6
         /\ f.pc = "announce" => StepsLeft(f) = 5
         /\ f.pc = "export" => StepsLeft(f) = 4
         /\ f.pc = "fail" => StepsLeft(f) = 3
         /\ f.pc = "refund" => StepsLeft(f) = 2
         /\ f.pc = "release" => StepsLeft(f) = 1
         /\ StepsLeft(f) >= 1
<1>1. f.attempt \in Nat /\ Attempts \in Nat /\ f.pc \in Working \cup {"queued"}
  BY FetchAssumption DEF Running
<1>2. f # Free
  BY <1>1 DEF Free, Working
<1>3. f.pc \in {"queued", "status", "attempt", "download"} => f.attempt < Attempts
  BY DEF RoundOK
<1>4. /\ StagesLeft["queued"] = 10 /\ StagesLeft["status"] = 9 /\ StagesLeft["attempt"] = 8
      /\ StagesLeft["download"] = 7 /\ StagesLeft["verify"] = 7 /\ StagesLeft["mark"] = 6
      /\ StagesLeft["announce"] = 5 /\ StagesLeft["export"] = 4 /\ StagesLeft["fail"] = 3
      /\ StagesLeft["refund"] = 2 /\ StagesLeft["release"] = 1
  BY DEF StagesLeft
<1> QED BY <1>1, <1>2, <1>3, <1>4 DEF StepsLeft, Working

\* A step of a fetch brings it closer to its end.
LEMMA StepDescends ==
  ASSUME Shapes, BudgetInv, NEW t \in Tasks, FetchStep(t)
  PROVE  FetchDescends(t)
<1> DEFINE f == fetch[t]
<1>0. f \in Running /\ RoundOK(f) /\ Accounts(t) /\ fetch \in [Tasks -> {Free} \cup Running]
  BY FetchAccounts DEF Shapes
<1>1. f # Free
  BY <1>0 DEF Running, Working, Free
<1>2. StepsLeft(Free) = 0
  BY DEF StepsLeft
<1>3. ASSUME fetch'[t] = Free PROVE FetchDescends(t)
  BY <1>0, <1>1, <1>2, <1>3, StepsAtStage DEF FetchDescends
<1>4. ASSUME fetch'[t] # Free PROVE fetch'[t] \in Running /\ RoundOK(fetch'[t])
  BY <1>0, <1>4 DEF Accounts, GoesOn
<1>5. ASSUME NEW pc, Goto(t, pc) PROVE fetch'[t].pc = pc /\ fetch'[t].attempt = f.attempt
  <2>1. fetch'[t] = [f EXCEPT !.pc = pc]
    BY <1>0, <1>5 DEF Goto
  <2> QED BY <1>0, <2>1 DEF Running
<1>6. ASSUME NextRound(t)
      PROVE  fetch'[t].pc \in {"attempt", "fail"} /\ fetch'[t].attempt = f.attempt + 1
  BY <1>0, <1>6 DEF NextRound
<1>7. ASSUME fetch'[t] # Free, StepsLeft(fetch'[t]) < StepsLeft(f) PROVE FetchDescends(t)
  BY <1>1, <1>4, <1>7, StepsAtStage DEF FetchDescends
<1>8. SUFFICES ASSUME fetch'[t] # Free PROVE StepsLeft(fetch'[t]) < StepsLeft(f)
  BY <1>3, <1>7
<1> PICK g \in Running : g = fetch'[t] /\ RoundOK(g)
  BY <1>4, <1>8
<1>9. CASE \E pc : Goto(t, pc)
  <2>1. PICK pc : Goto(t, pc)
    BY <1>9
  <2>2. g.pc = pc /\ g.attempt = f.attempt
    BY <1>5, <2>1
  <2>3. \/ f.pc = "queued" /\ g.pc = "status"
        \/ f.pc = "status" /\ g.pc \in {"mark", "attempt"}
        \/ f.pc = "attempt" /\ g.pc \in {"fail", "download"}
        \/ f.pc = "download" /\ g.pc \in {"verify", "fail"}
        \/ f.pc = "verify" /\ g.pc \in {"mark", "fail"}
        \/ f.pc = "mark" /\ g.pc = "announce"
        \/ f.pc = "announce" /\ g.pc \in {"export", "fail"}
        \/ f.pc = "export" /\ g.pc \in {"release", "fail"}
        \/ f.pc = "fail" /\ g.pc = "refund"
        \/ f.pc = "refund" /\ g.pc = "release"
        \/ f.pc \in {"attempt", "download"} /\ NextRound(t)
    <3>1. ASSUME NEW q, Goto(t, q) PROVE g.pc = q
      BY <1>5, <3>1
    <3>2. fetch' # [fetch EXCEPT ![t] = Free]
      BY <1>0, <1>8
    <3> QED
      BY <3>1, <3>2 DEF FetchStep, Acquire, CheckStore, NoProviders, StartDownload,
         DownloadEnds, DownloadFails, VerifyStore, MarkComplete, Announce, Export, Release,
         FailFetch, Refund, EndAuto
  <2>4. CASE NextRound(t)
    <3>1. g.attempt = f.attempt + 1
      BY <1>6, <2>4
    <3> QED BY <1>0, <2>2, <3>1, StepsAtStage
  <2> QED
    <3>1. f.pc \in {"queued", "status", "attempt", "download"} => f.attempt < Attempts
      BY <1>0 DEF RoundOK
    <3> QED BY <1>0, <2>2, <2>3, <2>4, <3>1, StepsAtStage
<1>10. CASE ~\E pc : Goto(t, pc)
  <2>1. NextRound(t) /\ f.pc \in {"attempt", "download"}
    <3>1. fetch' # [fetch EXCEPT ![t] = Free]
      BY <1>0, <1>8
    <3> QED
      BY <1>10, <3>1 DEF FetchStep, Acquire, CheckStore, NoProviders, StartDownload,
         DownloadEnds, DownloadFails, VerifyStore, MarkComplete, Announce, Export, Release,
         FailFetch, Refund, EndAuto
  <2>2. g.pc \in {"attempt", "fail"} /\ g.attempt = f.attempt + 1
    BY <1>6, <2>1
  <2>3. f.attempt < Attempts
    BY <1>0, <2>1 DEF RoundOK
  <2> QED BY <1>0, <2>1, <2>2, <2>3, StepsAtStage
<1> QED BY <1>9, <1>10

\* A fetch takes at most 10 + 2 * Attempts steps from its start to its end
\* (16 with the three rounds of fetch_inner_impl), whatever the downloads, the
\* store and the other fetches do: no path through fetch goes back.  FetchesEnd
\* adds only that these steps are taken.
THEOREM FetchesOnlyDescend == Spec => [][\A t \in Tasks : FetchDescends(t)]_vars
<1>1. ASSUME FetchInv, BudgetInv, [Next]_vars, NEW t \in Tasks
      PROVE  FetchDescends(t)
  <2> USE <1>1
  <2>0. Shapes /\ fetch \in [Tasks -> {Free} \cup Running]
    BY DEF FetchInv, Shapes
  <2>1. ASSUME NEW u \in Tasks, FetchStep(u) PROVE FetchDescends(t)
    <3>1. CASE u = t
      BY <2>0, <2>1, <3>1, StepDescends
    <3>2. CASE u # t
      <4>1. fetch'[t] = fetch[t]
        BY <2>0, <2>1, <3>2, FetchAccounts
      <4> QED BY <4>1 DEF FetchDescends
    <3> QED BY <3>1, <3>2
  <2>2. ASSUME NEW u \in Tasks, NEW r \in Running, fetch[u] = Free, r.attempt = 0,
               r.pc \in {"queued", "status"}, r.auto \/ r.pc = "status",
               fetch' = [fetch EXCEPT ![u] = r]
        PROVE  FetchDescends(t)
    <3>1. CASE u = t
      <4>1. fetch'[t] = r /\ RoundOK(r)
        BY <2>0, <2>2, <3>1, FetchAssumption DEF RoundOK
      <4> QED BY <2>2, <3>1, <4>1, StepsAtStage DEF FetchDescends
    <3>2. CASE u # t
      <4>1. fetch'[t] = fetch[t]
        BY <2>0, <2>2, <3>2
      <4> QED BY <4>1 DEF FetchDescends
    <3> QED BY <3>1, <3>2
  <2>3. ASSUME NEW w \in Handlers, NEW u \in Tasks, Spawn(w, u) PROVE FetchDescends(t)
    <3> DEFINE r == [pc |-> "queued", hash |-> handler[w].hash, auto |-> TRUE, attempt |-> 0]
    <3>1. handler[w].hash \in Hashes
      BY <2>0, <2>3 DEF Shapes, Spawn, Ready, Offering, Checking, Starting
    <3>2. r \in Running
      BY <3>1 DEF Running
    <3> QED BY <2>2, <2>3, <3>2 DEF Spawn
  <2>4. ASSUME NEW u \in Tasks, NEW h \in Hashes, FetchManually(u, h) PROVE FetchDescends(t)
    <3> DEFINE r == [pc |-> "status", hash |-> h, auto |-> FALSE, attempt |-> 0]
    <3>1. r \in Running
      BY DEF Running, Working
    <3> QED BY <2>2, <2>4, <3>1 DEF FetchManually
  <2>5. CASE fetch' = fetch
    BY <2>5 DEF FetchDescends
  <2> QED
    BY <2>1, <2>3, <2>4, <2>5 DEF Next, HandlerStep, HandleOffer, RecordOffer, CheckAlready,
       LoadActive, LoadSpent, ReserveBytes, Progress, publish, vars
<1>2. FetchInv /\ BudgetInv /\ [Next]_vars => [\A t \in Tasks : FetchDescends(t)]_vars
  BY <1>1
<1> QED BY <1>2, FetchInvariance, BudgetInvariance, PTL DEF Spec
=============================================================================
