-------------------------- MODULE DropTable_proofs --------------------------
(***************************************************************************)
(* Proofs about DropTable for any topics, handles, offers and crashes.     *)
(* With any number of activities at once: types, and that a handle keeps   *)
(* its drop across restarts.  With one activity at a time (Overlap = 1):   *)
(* files are never corrupt, memberships survive, what was left stays       *)
(* forgotten, and a quiet drop is saved.                                   *)
(***************************************************************************)
EXTENDS DropTable, FiniteSetTheorems, WellFoundedInduction, NaturalsInduction, TLAPS

Kinds == {"none", "create", "join", "persist", "leave", "shutdown"}
CallType ==
  [pc : Pcs, kind : Kinds, handle : Handles \cup {0}, topic : Topics \cup {"none"},
   offers : 0..MaxOffers, path : Paths, table : SUBSET RowType,
   fd : {"none", "tmp", "cur", "gone"}, todo : SUBSET Handles]
FileType ==
  [state : {"absent", "empty", "torn", "whole"}, table : SUBSET RowType,
   offers : 0..MaxOffers]

\* The steps at which a call has a topic, and those a drop_leave does not take.
Named == {"joining", "withdrawing", "table", "open", "write", "rename", "saved"}
Leaveless == {"joining", "export", "shutdown"}

TypedCalls ==
  /\ call \in [Calls -> CallType]
  /\ \A c \in Calls :
       /\ call[c].pc = "idle" => call[c] = Idle
       /\ call[c].pc \in Named => call[c].topic \in Topics
       /\ call[c].pc \in Leaveless => call[c].kind # "leave"

Typed ==
  /\ phase \in Phases
  /\ DOMAIN drops \subseteq Handles /\ \A h \in DOMAIN drops : drops[h] \in Topics
  /\ known \in [Handles -> 0..MaxOffers]
  /\ next_drop \in 1..(MaxHandle + 1) /\ pending \subseteq Handles
  /\ TypedCalls
  /\ rows \subseteq RowType /\ top \in Handles \cup {0}
  /\ cur \in [Paths -> FileType] /\ tmp \in [Paths -> FileType]
  /\ members \subseteq RowType /\ left \subseteq Topics /\ crashes \in 0..MaxCrashes

---------------------------------------------------------------------------
\* The rows this process knows of or that a restart would read.
Live(r) ==
  \/ r \in load_table \/ r \in rows \/ r \in persisted_table
  \/ \E c \in Calls : \/ r \in call[c].table
                      \/ /\ call[c].pc \in {"write", "rename"} /\ call[c].path = Table
                         /\ r \in tmp[Table].table

\* A handle stands for one drop in all of them, and fresh handles are above.
OneTopic == \A r, s \in RowType : Live(r) /\ Live(s) /\ r.handle = s.handle => r = s
Below ==
  \A r \in RowType : Live(r) => /\ phase = "up" => r.handle < next_drop
                                /\ phase = "restoring" => r.handle <= top

\* A process that is down holds nothing; nobody joins during the restore.
Started ==
  /\ phase = "down" =>
       /\ drops = NoDrops /\ rows = {} /\ next_drop = 1
       /\ \A c \in Calls : call[c] = Idle
  /\ \A c \in Calls : call[c].pc = "joining" => phase = "up"

HandleInv == Typed /\ OneTopic /\ Below /\ Started

---------------------------------------------------------------------------
\* One activity at a time.
Solo ==
  /\ \A c, d \in Calls : call[c] # Idle /\ call[d] # Idle => c = d
  /\ \A c \in Calls : call[c] # Idle => phase = "up"

Writing == {"open", "write", "rename"}
Hosted(t) == \E h \in DOMAIN drops : drops[h] = t
Content(k) == IF k.path = Table THEN File("whole", k.table, 0) ELSE File("whole", {}, k.offers)

\* What a running activity knows and has done, by the step it is at.
CallOK(k) ==
  /\ k.pc = "joining" => ~Hosted(k.topic) /\ k.handle = 0 /\ k.kind \in {"create", "join"}
  /\ k.pc = "withdrawing" => k.kind = "leave"
  /\ k.pc \in {"shutdown", "closing"} => k.kind = "shutdown"
  /\ k.kind = "leave" =>
       /\ ~Hosted(k.topic) /\ k.handle \notin DOMAIN drops
       /\ k.pc \in Writing => k.path = Table
       /\ k.pc \in {"table", "saved"} \cup Writing => cur[k.topic] = Absent
  /\ k.kind # "leave" /\ k.pc \in {"table", "saved"} \cup Writing =>
       /\ k.handle \in DOMAIN drops /\ k.topic = drops[k.handle]
       /\ k.offers = known[k.handle] \/ k.handle \in pending
  /\ k.pc \in Writing =>
       /\ k.path \in {Table, k.topic}
       /\ k.path = Table => k.table = persisted_table
       /\ k.path # Table => load_table = persisted_table
  /\ k.pc = "write" => k.fd = "tmp" /\ tmp[k.path] = Empty
  /\ k.pc = "rename" => tmp[k.path] = Content(k)
  /\ k.pc = "saved" =>
       /\ load_table = persisted_table
       /\ k.kind # "leave" => cur[k.topic].offers = k.offers

\* Topics are hosted once, in memory and on disk.
OncePerTopic ==
  /\ \A g, h \in DOMAIN drops : drops[g] = drops[h] => g = h
  /\ \A r, s \in load_table : r.topic = s.topic => r = s
  /\ phase = "restoring" => rows \subseteq load_table /\ persisted_table \subseteq load_table

Kept ==
  /\ members \subseteq load_table
  /\ phase # "down" /\ (\A c \in Calls : call[c].pc # "closing") => members \subseteq persisted_table

Forgotten ==
  \A t \in left : /\ cur[t] = Absent /\ ~Hosted(t)
                  /\ \A r \in load_table : r.topic # t

SoloInv ==
  /\ HandleInv /\ Solo /\ \A c \in Calls : CallOK(call[c])
  /\ OncePerTopic /\ NeverCorrupt /\ Kept /\ Forgotten

\* No write of h is scheduled or under way.
Resting(h) ==
  /\ h \notin pending
  /\ \A c \in Calls : call[c] # Idle => call[c].handle # h /\ call[c].kind # "shutdown"

Quiet == \A h \in DOMAIN drops : Resting(h) => cur[drops[h]].offers = known[h]

---------------------------------------------------------------------------
\* The greatest of some handles: Max returns a member, and none is above it
\* (the max_handle of restore_drops).
LEMMA MaxIsGreatest ==
  ASSUME NEW N \in Nat, NEW S, S \subseteq 0..N, S # {}
  PROVE  Max(S) \in S /\ \A y \in S : y <= Max(S)
<1> DEFINE T == {n \in Nat : N - n \in S}
<1> DEFINE R == OpToRel(<, Nat)
<1>1. T \subseteq Nat /\ T # {}
  <2>1. PICK y \in S : TRUE
    OBVIOUS
  <2>2. N - y \in Nat /\ N - (N - y) = y
    BY <2>1
  <2> QED BY <2>1, <2>2
<1>2. PICK x \in T : \A y \in T : ~(<<y, x>> \in R)
  BY <1>1, WFMin, NatLessThanWellFounded
<1>3. \A y \in T : ~(y < x)
  BY <1>2, <1>1 DEF OpToRel
<1>4. N - x \in S /\ \A y \in S : N - x >= y
  <2>1. ASSUME NEW y \in S PROVE N - x >= y
    <3>1. N - y \in Nat /\ N - (N - y) = y
      BY <2>1
    <3>2. N - y \in T
      BY <3>1
    <3> QED BY <3>1, <3>2, <1>3, <1>1
  <2> QED BY <2>1
<1> HIDE DEF T, R
<1>5. Max(S) \in S /\ \A y \in S : Max(S) >= y
  <2>1. \E m \in S : \A y \in S : m >= y
    BY <1>4
  <2> QED BY <2>1, Zenon DEF Max
<1> QED BY <1>5

---------------------------------------------------------------------------
\* Idle is a call, and what one call becomes keeps the calls typed.
LEMMA IdleTyped == Idle \in CallType /\ Idle.pc = "idle"
BY TableAssumption DEF Idle, CallType, Pcs, Kinds, Paths, Table

\* One call moves, the others stand.
LEMMA CallMoves ==
  ASSUME TypedCalls, NEW c \in Calls, NEW k \in CallType,
         call' = [call EXCEPT ![c] = k],
         k.pc = "idle" => k = Idle,
         k.pc \in Named => k.topic \in Topics,
         k.pc \in Leaveless => k.kind # "leave"
  PROVE  TypedCalls'
BY DEF TypedCalls

\* The starts of the calls keep the types.
LEMMA StartsTyped ==
  ASSUME Typed, NEW c \in Calls,
         \/ \E t \in Topics : drop_create(c, t) \/ drop_join(c, t)
         \/ \E h \in Handles : \/ JoinAgain(c, h) \/ drop_leave(c, h)
                               \/ offer_publish(c, h)
         \/ \E h \in pending : DebounceFires(c, h)
         \/ shutdown(c)
  PROVE  Typed'
<1> USE TableAssumption DEF Typed
<1>1. call[c] \in CallType
  BY DEF TypedCalls
<1>2. ASSUME NEW t \in Topics, drop_create(c, t) \/ drop_join(c, t) PROVE Typed'
  <2>1. PICK kind \in {"create", "join"} : StartJoin(c, kind, t)
    BY <1>2 DEF drop_create, drop_join
  <2> DEFINE k == [call[c] EXCEPT !.pc = "joining", !.kind = kind, !.topic = t]
  <2>2. call' = [call EXCEPT ![c] = k]
    BY <2>1, <1>1 DEF StartJoin, TypedCalls, CallType
  <2>3. k \in CallType /\ k.pc = "joining" /\ k.topic = t /\ k.kind # "leave"
    BY <1>1 DEF CallType, Pcs, Kinds
  <2>4. TypedCalls'
    BY <2>2, <2>3, CallMoves DEF Leaveless
  <2> QED BY <2>1, <2>4 DEF StartJoin, files
<1>3. ASSUME NEW h \in Handles,
             JoinAgain(c, h) \/ offer_publish(c, h) \/ DebounceFires(c, h)
      PROVE  Typed'
  <2> DEFINE k == Persist("persist", h)
  <2>1. k \in CallType /\ k.pc = "export" /\ k.kind = "persist"
    BY IdleTyped DEF Persist, CallType, Pcs, Kinds
  <2>2. call' = [call EXCEPT ![c] = k]
    BY <1>3 DEF JoinAgain, offer_publish, DebounceFires
  <2>3. TypedCalls'
    BY <2>1, <2>2, CallMoves DEF Named, Leaveless
  <2>4. known' \in [Handles -> 0..MaxOffers] /\ pending' \subseteq Handles
    BY <1>3 DEF JoinAgain, offer_publish, DebounceFires
  <2> QED BY <1>3, <2>3, <2>4 DEF JoinAgain, offer_publish, DebounceFires, files
<1>4. ASSUME NEW h \in Handles, drop_leave(c, h) PROVE Typed'
  <2> DEFINE k == [call[c] EXCEPT !.pc = "withdrawing", !.kind = "leave", !.handle = h,
                                  !.topic = drops[h]]
  <2>1. k \in CallType /\ k.pc = "withdrawing" /\ k.topic \in Topics
    BY <1>1, <1>4 DEF drop_leave, CallType, Pcs, Kinds
  <2>2. call' = [call EXCEPT ![c] = k]
    BY <1>1, <1>4 DEF drop_leave, TypedCalls, CallType
  <2>3. TypedCalls'
    BY <2>1, <2>2, CallMoves DEF Leaveless
  <2>4. DOMAIN drops' \subseteq Handles /\ \A g \in DOMAIN drops' : drops'[g] \in Topics
    BY <1>4 DEF drop_leave, Restrict
  <2> QED BY <1>4, <2>3, <2>4 DEF drop_leave, files
<1>5. CASE shutdown(c)
  <2> DEFINE k == [call[c] EXCEPT !.pc = "shutdown", !.kind = "shutdown", !.todo = DOMAIN drops]
  <2>1. k \in CallType /\ k.pc = "shutdown" /\ k.kind = "shutdown"
    BY <1>1, <1>5 DEF CallType, Pcs, Kinds
  <2>2. call' = [call EXCEPT ![c] = k]
    BY <1>1, <1>5 DEF shutdown, TypedCalls, CallType
  <2>3. TypedCalls'
    BY <2>1, <2>2, CallMoves DEF Named, Leaveless
  <2> QED BY <1>5, <2>3 DEF shutdown, files
<1> QED BY <1>2, <1>3, <1>4, <1>5

\* What follows persist_drop keeps the calls, the members and the left typed.
LEMMA ReturnedTyped ==
  ASSUME Typed, NEW c \in Calls, Returned(c),
         call[c].kind = "leave" => call[c].topic \in Topics
  PROVE  TypedCalls' /\ members' \subseteq RowType /\ left' \subseteq Topics
<1> DEFINE m == [Idle EXCEPT !.pc = "shutdown", !.kind = "shutdown", !.todo = call[c].todo]
           k == IF call[c].kind = "shutdown" THEN m ELSE Idle
<1>1. call[c] \in CallType
  BY DEF Typed, TypedCalls
<1>2. k \in CallType /\ (k = Idle \/ (k.pc = "shutdown" /\ k.kind = "shutdown"))
  <2>1. call[c].todo \subseteq Handles
    BY <1>1 DEF CallType
  <2>2. m \in CallType /\ m.pc = "shutdown" /\ m.kind = "shutdown"
    BY <2>1, IdleTyped DEF CallType, Pcs, Kinds
  <2> HIDE DEF m
  <2> QED BY <2>2, IdleTyped
<1>3. call' = [call EXCEPT ![c] = k]
  BY DEF Returned
<1>4. TypedCalls'
  BY <1>2, <1>3, CallMoves, IdleTyped DEF Typed, Named, Leaveless
<1>5. members' \subseteq RowType
  <2>1. \A h \in DOMAIN drops : Row(h, drops[h]) \in RowType
    BY DEF Typed, Row, RowType
  <2> QED BY <2>1 DEF Returned, Typed
<1>6. left' \subseteq Topics
  BY DEF Returned, Typed
<1> QED BY <1>4, <1>5, <1>6

\* Files keep their type under the writes.
LEMMA FilesTyped ==
  ASSUME NEW f \in [Paths -> FileType], NEW p \in Paths, NEW g \in FileType
  PROVE  [f EXCEPT ![p] = g] \in [Paths -> FileType]
OBVIOUS

\* The markers and a written file are files.
LEMMA MarkersTyped ==
  /\ Absent \in FileType /\ Empty \in FileType /\ Torn \in FileType
  /\ \A tbl \in SUBSET RowType : File("whole", tbl, 0) \in FileType
  /\ \A n \in 0..MaxOffers : File("whole", {}, n) \in FileType
BY TableAssumption DEF Absent, Empty, Torn, File, FileType

\* A rename or a removal changes nothing but the descriptor of other calls.
LEMMA MovedCalls ==
  ASSUME TypedCalls, NEW p, NEW a \in {"tmp", "cur", "gone"}, NEW b \in {"tmp", "cur", "gone"}
  PROVE  /\ Moved(call, p, a, b) \in [Calls -> CallType]
         /\ \A d \in Calls :
              LET m == Moved(call, p, a, b)[d] IN
              /\ m.pc = call[d].pc /\ m.kind = call[d].kind /\ m.handle = call[d].handle
              /\ m.topic = call[d].topic /\ m.offers = call[d].offers
              /\ m.path = call[d].path /\ m.table = call[d].table /\ m.todo = call[d].todo
              /\ call[d].pc # "write" => m = call[d]
<1> DEFINE M == Moved(call, p, a, b)
<1>1. ASSUME NEW d \in Calls
      PROVE  /\ M[d] \in CallType
             /\ M[d].pc = call[d].pc /\ M[d].kind = call[d].kind /\ M[d].handle = call[d].handle
             /\ M[d].topic = call[d].topic /\ M[d].offers = call[d].offers
             /\ M[d].path = call[d].path /\ M[d].table = call[d].table /\ M[d].todo = call[d].todo
             /\ call[d].pc # "write" => M[d] = call[d]
  <2>1. call[d] \in CallType
    BY DEF TypedCalls
  <2> QED BY <2>1 DEF Moved, CallType
<1>2. M = [d \in Calls |-> M[d]]
  BY DEF Moved
<1> QED BY <1>1, <1>2

\* The steps of a persist_drop keep the types.
LEMMA PersistTyped ==
  ASSUME Typed, NEW c \in Calls, PersistStep(c)
  PROVE  Typed'
<1> USE TableAssumption DEF Typed
<1>1. call[c] \in CallType /\ call \in [Calls -> CallType]
  BY DEF TypedCalls
<1>2. call[c].pc \in Named => call[c].topic \in Topics
  BY DEF TypedCalls
<1>3. CASE export_history(c)
  <2>1. CASE call[c].handle \in DOMAIN drops
    <3> DEFINE h == call[c].handle
               k == [call[c] EXCEPT !.pc = "table", !.topic = drops[h], !.offers = known[h]]
    <3>1. k \in CallType /\ k.pc = "table" /\ k.topic \in Topics
      BY <1>1, <2>1 DEF CallType, Pcs
    <3>2. call' = [call EXCEPT ![c] = k]
      BY <1>1, <1>3, <2>1 DEF export_history, CallType
    <3>3. TypedCalls'
      BY <3>1, <3>2, CallMoves DEF Leaveless
    <3> QED BY <1>3, <2>1, <3>3 DEF export_history, files
  <2>2. CASE call[c].handle \notin DOMAIN drops
    <3>1. Returned(c) /\ call[c].kind # "leave"
      BY <1>3, <2>2 DEF export_history, TypedCalls, Leaveless
    <3>2. TypedCalls' /\ members' \subseteq RowType /\ left' \subseteq Topics
      BY <3>1, ReturnedTyped
    <3> QED BY <1>3, <3>2 DEF export_history, files
  <2> QED BY <2>1, <2>2
<1>4. CASE SnapshotTable(c)
  <2> DEFINE k == [call[c] EXCEPT !.pc = "open", !.path = Table, !.table = persisted_table]
  <2>1. persisted_table \subseteq RowType
    BY DEF persisted_table, Row, RowType
  <2>2. k \in CallType /\ k.pc = "open" /\ k.topic \in Topics
    BY <1>1, <1>2, <1>4, <2>1 DEF SnapshotTable, CallType, Pcs, Paths, Named
  <2>3. call' = [call EXCEPT ![c] = k]
    BY <1>1, <1>4 DEF SnapshotTable, CallType
  <2>4. TypedCalls'
    BY <2>2, <2>3, CallMoves DEF Leaveless
  <2> QED BY <1>4, <2>4 DEF SnapshotTable, files
<1>5. CASE OpenTmp(c)
  <2> DEFINE k == [call[c] EXCEPT !.pc = "write", !.fd = "tmp"]
  <2>1. k \in CallType /\ k.pc = "write" /\ k.topic \in Topics
    BY <1>1, <1>2, <1>5 DEF OpenTmp, CallType, Pcs, Named
  <2>2. call' = [call EXCEPT ![c] = k]
    BY <1>1, <1>5 DEF OpenTmp, CallType
  <2>3. TypedCalls'
    BY <2>1, <2>2, CallMoves DEF Leaveless
  <2>4. tmp' \in [Paths -> FileType]
    <3>1. call[c].path \in Paths
      BY <1>1 DEF CallType
    <3> QED BY <1>5, <3>1, FilesTyped, MarkersTyped DEF OpenTmp
  <2> QED BY <1>5, <2>3, <2>4 DEF OpenTmp, files
<1>6. CASE WriteTmp(c)
  <2> DEFINE k == [call[c] EXCEPT !.pc = "rename", !.fd = "none"]
  <2>1. k \in CallType /\ k.pc = "rename" /\ k.topic \in Topics
    BY <1>1, <1>2, <1>6 DEF WriteTmp, CallType, Pcs, Named
  <2>2. call' = [call EXCEPT ![c] = k]
    BY <1>1, <1>6 DEF WriteTmp, CallType
  <2>3. TypedCalls'
    BY <2>1, <2>2, CallMoves DEF Leaveless
  <2>4. tmp' \in [Paths -> FileType] /\ cur' \in [Paths -> FileType]
    <3>1. /\ call[c].path \in Paths /\ call[c].table \subseteq RowType
          /\ call[c].offers \in 0..MaxOffers
      BY <1>1 DEF CallType
    <3>2. Content(call[c]) \in FileType
      BY <3>1, MarkersTyped DEF Content
    <3>3. \A old : Written(old, Content(call[c])) \subseteq FileType
      BY <3>2, MarkersTyped DEF Written
    <3>4. /\ tmp' = tmp \/ \E f \in FileType : tmp' = [tmp EXCEPT ![call[c].path] = f]
          /\ cur' = cur \/ \E f \in FileType : cur' = [cur EXCEPT ![call[c].path] = f]
      <4>1. /\ tmp' = tmp \/ \E f \in Written(tmp[call[c].path], Content(call[c])) :
                               tmp' = [tmp EXCEPT ![call[c].path] = f]
            /\ cur' = cur \/ \E f \in Written(cur[call[c].path], Content(call[c])) :
                               cur' = [cur EXCEPT ![call[c].path] = f]
        BY <1>6, Zenon DEF WriteTmp, Content
      <4> QED BY <4>1, <3>3
    <3> QED BY <3>1, <3>4, FilesTyped
  <2> QED BY <1>6, <2>3, <2>4 DEF WriteTmp, files
<1>7. CASE RenameTmp(c)
  <2> DEFINE k0 == call[c]
             moved == tmp[k0.path] # Absent
             M == IF moved THEN Moved(call, k0.path, "cur", "gone") ELSE call
             pc == IF k0.path = Table /\ k0.kind # "leave" THEN "open" ELSE "saved"
             k == [k0 EXCEPT !.pc = pc, !.path = k0.topic, !.table = {}]
  <2>1. M \in [Calls -> CallType] /\ M[c] = call[c]
    BY <1>1, <1>7, MovedCalls DEF RenameTmp
  <2>2. \A d \in Calls : /\ M[d].pc = call[d].pc /\ M[d].kind = call[d].kind
                         /\ M[d].topic = call[d].topic
                         /\ call[d].pc # "write" => M[d] = call[d]
    BY MovedCalls
  <2>3. call' = [M EXCEPT ![c] = k]
    <3>1. call' = [M EXCEPT ![c].pc = pc, ![c].path = k0.topic, ![c].table = {}]
      BY <1>7 DEF RenameTmp
    <3> HIDE DEF M, pc
    <3> QED BY <3>1, <2>1, <1>1 DEF CallType
  <2>4. k0.topic \in Topics /\ k0.path \in Paths
    BY <1>1, <1>2, <1>7 DEF RenameTmp, CallType, Named
  <2>5. k \in CallType /\ k.topic \in Topics /\ k.pc \in {"open", "saved"}
    <3>1. pc \in {"open", "saved"}
      OBVIOUS
    <3> HIDE DEF pc
    <3> QED BY <1>1, <2>4, <3>1 DEF CallType, Pcs, Paths
  <2> HIDE DEF M, k
  <2>6. TypedCalls'
    BY <2>1, <2>2, <2>3, <2>5 DEF TypedCalls, Leaveless
  <2>7. cur' \in [Paths -> FileType] /\ tmp' \in [Paths -> FileType]
    BY <1>7, <2>4, FilesTyped, MarkersTyped DEF RenameTmp
  <2> QED BY <1>7, <2>6, <2>7 DEF RenameTmp, files
<1>8. CASE Saved(c)
  <2>1. TypedCalls' /\ members' \subseteq RowType /\ left' \subseteq Topics
    BY <1>2, <1>8, ReturnedTyped DEF Saved, Named
  <2> QED BY <1>8, <2>1 DEF Saved, files
<1> QED BY <1>3, <1>4, <1>5, <1>6, <1>7, <1>8 DEF PersistStep

\* The end of a process leaves a typed state.
LEMMA DiesTyped ==
  ASSUME Typed, Dies, crashes' \in 0..MaxCrashes
  PROVE  Typed'
<1> USE TableAssumption DEF Typed
<1>1. TypedCalls'
  BY IdleTyped DEF Dies, TypedCalls, Named, Leaveless
<1>2. DOMAIN drops' = {}
  BY DEF Dies, NoDrops
<1>3. next_drop' \in 1..(MaxHandle + 1) /\ known' \in [Handles -> 0..MaxOffers]
  BY DEF Dies
<1> QED BY <1>1, <1>2, <1>3 DEF Dies, Phases, files

\* The other steps of the calls keep the types.
LEMMA CallTyped ==
  ASSUME Typed, NEW c \in Calls,
         \/ JoinFails(c) \/ register(c) \/ remove_drop(c)
         \/ \E h \in Handles : ShutdownPersists(c, h)
         \/ Drain(c) \/ Stop(c)
  PROVE  Typed'
<1> USE TableAssumption DEF Typed
<1>1. call[c] \in CallType /\ call \in [Calls -> CallType]
  BY DEF TypedCalls
<1>2. call[c].pc \in Named => call[c].topic \in Topics
  BY DEF TypedCalls
<1>3. CASE JoinFails(c)
  <2>1. TypedCalls'
    BY <1>3, IdleTyped, CallMoves DEF JoinFails, Ends, Named, Leaveless
  <2> QED BY <1>3, <2>1 DEF JoinFails, files
<1>4. CASE register(c)
  <2> DEFINE g == next_drop
             k == Persist(call[c].kind, g)
  <2>1. g \in Handles /\ call[c].pc = "joining" /\ call[c].topic \in Topics
    BY <1>2, <1>4 DEF register, Named
  <2>2. k \in CallType /\ k.pc = "export" /\ k.kind = call[c].kind
    BY <1>1, <2>1, IdleTyped DEF Persist, CallType, Pcs
  <2>3. call' = [call EXCEPT ![c] = k]
    BY <1>4 DEF register
  <2> HIDE DEF k
  <2>4. TypedCalls'
    <3>1. call[c].kind # "leave"
      BY <2>1 DEF TypedCalls, Leaveless
    <3> QED BY <2>2, <2>3, <3>1, CallMoves DEF Named, Leaveless
  <2>5. DOMAIN drops' \subseteq Handles /\ \A x \in DOMAIN drops' : drops'[x] \in Topics
    BY <1>4, <2>1 DEF register
  <2>6. known' \in [Handles -> 0..MaxOffers] /\ next_drop' \in 1..(MaxHandle + 1)
    BY <1>4, <2>1 DEF register, Handles
  <2> QED BY <1>4, <2>4, <2>5, <2>6 DEF register, files
<1>5. CASE remove_drop(c)
  <2> DEFINE t == call[c].topic
             M == Moved(call, t, "tmp", "gone")
             k == [call[c] EXCEPT !.pc = "table"]
  <2>1. t \in Topics /\ t \in Paths
    BY <1>2, <1>5 DEF remove_drop, Named, Paths
  <2>2. M \in [Calls -> CallType] /\ M[c] = call[c]
    BY <1>5, MovedCalls DEF remove_drop
  <2>3. \A d \in Calls : /\ M[d].pc = call[d].pc /\ M[d].kind = call[d].kind
                         /\ M[d].topic = call[d].topic
                         /\ call[d].pc # "write" => M[d] = call[d]
    BY MovedCalls
  <2>4. call' = [M EXCEPT ![c] = k]
    <3>1. call' = [M EXCEPT ![c].pc = "table"]
      BY <1>5 DEF remove_drop
    <3> HIDE DEF M
    <3> QED BY <3>1, <2>2, <1>1 DEF CallType
  <2>5. k \in CallType /\ k.topic \in Topics /\ k.pc = "table"
    BY <1>1, <2>1 DEF CallType, Pcs
  <2> HIDE DEF M, k
  <2>6. TypedCalls'
    BY <2>2, <2>3, <2>4, <2>5 DEF TypedCalls, Leaveless
  <2>7. cur' \in [Paths -> FileType]
    BY <1>5, <2>1, FilesTyped, MarkersTyped DEF remove_drop
  <2> QED BY <1>5, <2>6, <2>7 DEF remove_drop, files
<1>6. ASSUME NEW h \in Handles, ShutdownPersists(c, h) PROVE Typed'
  <2> DEFINE k == [call[c] EXCEPT !.pc = "export", !.handle = h, !.todo = @ \ {h}]
  <2>1. k \in CallType /\ k.pc = "export" /\ k.kind = call[c].kind
    BY <1>1 DEF CallType, Pcs
  <2>2. call' = [call EXCEPT ![c] = k]
    BY <1>1, <1>6 DEF ShutdownPersists, CallType
  <2>3. TypedCalls'
    BY <1>6, <2>1, <2>2, CallMoves DEF Named, Leaveless, TypedCalls, ShutdownPersists
  <2> QED BY <1>6, <2>3 DEF ShutdownPersists, files
<1>7. CASE Drain(c)
  <2> DEFINE k == [call[c] EXCEPT !.pc = "closing"]
  <2>1. k \in CallType /\ k.pc = "closing"
    BY <1>1 DEF CallType, Pcs
  <2>2. call' = [call EXCEPT ![c] = k]
    BY <1>1, <1>7 DEF Drain, Goto, CallType
  <2>3. TypedCalls'
    BY <2>1, <2>2, CallMoves DEF Named, Leaveless
  <2>4. DOMAIN drops' = {}
    BY <1>7 DEF Drain, NoDrops
  <2> QED BY <1>7, <2>3, <2>4 DEF Drain, files
<1>8. CASE Stop(c)
  BY <1>8, DiesTyped DEF Stop
<1> QED BY <1>3, <1>4, <1>5, <1>6, <1>7, <1>8

\* Events and the restore keep the types.
LEMMA RestTyped ==
  ASSUME Typed,
         \/ \E h \in Handles, n \in {0, 1} : on_session_event(h, n)
         \/ \E r \in rows : RestoreRow(r) \/ RestoreSkips(r)
         \/ RestoreDone \/ Restart \/ Crash
  PROVE  Typed'
<1> USE TableAssumption DEF Typed
<1>1. ASSUME NEW h \in Handles, NEW n \in {0, 1}, on_session_event(h, n) PROVE Typed'
  <2>1. known' \in [Handles -> 0..MaxOffers]
    BY <1>1 DEF on_session_event
  <2>2. pending' \subseteq Handles
    BY <1>1 DEF on_session_event, schedule_persist
  <2> QED BY <1>1, <2>1, <2>2 DEF on_session_event, files, TypedCalls
<1>2. ASSUME NEW r \in rows, RestoreRow(r) PROVE Typed'
  <2>1. r \in RowType /\ r.handle \in Handles /\ r.topic \in Topics
    BY DEF RowType
  <2>2. Replayed(r.topic) \in 0..MaxOffers
    BY <2>1 DEF Replayed, load_frames, Paths, FileType
  <2>3. known' \in [Handles -> 0..MaxOffers]
    BY <1>2, <2>1, <2>2 DEF RestoreRow
  <2>4. DOMAIN drops' \subseteq Handles /\ \A x \in DOMAIN drops' : drops'[x] \in Topics
    BY <1>2, <2>1 DEF RestoreRow
  <2>5. members' \subseteq RowType /\ rows' \subseteq RowType
    BY <1>2, <2>1 DEF RestoreRow
  <2> QED BY <1>2, <2>3, <2>4, <2>5 DEF RestoreRow, files, TypedCalls
<1>3. ASSUME NEW r \in rows, RestoreSkips(r) PROVE Typed'
  BY <1>3 DEF RestoreSkips, files, TypedCalls
<1>4. CASE RestoreDone
  <2>1. /\ next_drop \in 0..(MaxHandle + 1) /\ top + 1 \in 0..(MaxHandle + 1)
        /\ MaxHandle + 1 \in Nat
    BY DEF Handles
  <2>2. Max({next_drop, top + 1}) \in {next_drop, top + 1}
    BY <2>1, MaxIsGreatest, Zenon
  <2>3. next_drop' \in 1..(MaxHandle + 1)
    BY <1>4, <2>2 DEF RestoreDone, NextAfterRestore, Handles
  <2> QED BY <1>4, <2>3 DEF RestoreDone, files, TypedCalls, Phases
<1>5. CASE Restart
  <2> DEFINE S == {0} \cup {r.handle : r \in load_table}
  <2>1. load_table \subseteq RowType
    BY DEF load_table, Paths, FileType
  <2>2. S \subseteq 0..MaxHandle /\ S # {}
    BY <2>1 DEF RowType, Handles
  <2>3. top' \in S
    BY <1>5, <2>2, MaxIsGreatest DEF Restart
  <2>4. top' \in Handles \cup {0}
    BY <2>2, <2>3 DEF Handles
  <2> QED BY <1>5, <2>1, <2>4 DEF Restart, files, TypedCalls, Phases
<1>6. CASE Crash
  <2>1. Dies /\ crashes' \in 0..MaxCrashes
    BY <1>6 DEF Crash
  <2> QED BY <2>1, DiesTyped
<1> QED BY <1>1, <1>2, <1>3, <1>4, <1>5, <1>6

\* Every step keeps the types.
LEMMA TypedStep == ASSUME Typed, [Next]_vars PROVE Typed'
<1>1. ASSUME UNCHANGED vars PROVE Typed'
  BY <1>1 DEF vars, files, Typed, TypedCalls
<1>2. ASSUME Next PROVE Typed'
  BY <1>2, StartsTyped, PersistTyped, CallTyped, RestTyped, Zenon DEF Next, CallStep
<1> QED BY <1>1, <1>2

---------------------------------------------------------------------------
\* Typed is the type invariant, and more.
LEMMA TypedIsTypeOK == Typed => TypeOK
<1> SUFFICES ASSUME Typed PROVE TypeOK
  OBVIOUS
<1> USE TableAssumption DEF Typed
<1>1. Range(drops) \subseteq Topics
  BY DEF Range
<1>2. \A f \in FileType : IsFile(f)
  BY DEF FileType, IsFile, File
<1>3. \A p \in Paths : IsFile(cur[p]) /\ IsFile(tmp[p])
  BY <1>2
<1>4. DOMAIN call = Calls /\ \A c \in Calls : call[c] \in CallType
  BY DEF TypedCalls
<1>5. \A k \in CallType :
        /\ k.pc \in Pcs /\ k.handle \in Handles \cup {0}
        /\ k.topic \in Topics \cup {"none"} /\ k.offers \in 0..MaxOffers
        /\ k.table \subseteq RowType /\ k.todo \subseteq Handles
  BY DEF CallType
<1> QED BY <1>1, <1>3, <1>4, <1>5 DEF TypeOK

\* The first state is typed.
LEMMA InitTyped == Init => Typed
<1> SUFFICES ASSUME Init PROVE Typed
  OBVIOUS
<1> USE TableAssumption DEF Init
<1>1. TypedCalls
  BY IdleTyped DEF TypedCalls, Named, Leaveless
<1>2. DOMAIN drops = {}
  BY DEF NoDrops
<1>3. cur \in [Paths -> FileType] /\ tmp \in [Paths -> FileType]
  BY MarkersTyped
<1> QED BY <1>1, <1>2, <1>3 DEF Typed, Phases, Handles

\* Types, for any number of activities at once: handles stay among those
\* given out, rows and files keep their shape through every step, crash and
\* restart.
THEOREM TableTypes == Spec => []TypeOK
<1>1. Typed /\ [Next]_vars => Typed'
  BY TypedStep
<1> QED BY InitTyped, <1>1, TypedIsTypeOK, PTL DEF Spec

---------------------------------------------------------------------------
\* Rows only come from rows: a step after which every row was there before,
\* and that moves neither the phase nor the counters, keeps the handles apart.
LEMMA NoNewRows ==
  ASSUME OneTopic, Below, UNCHANGED <<phase, next_drop, top>>,
         \A r \in RowType : Live(r)' => Live(r)
  PROVE  OneTopic' /\ Below'
<1>1. OneTopic'
  <2>1. ASSUME NEW r \in RowType, NEW s \in RowType, Live(r)', Live(s)', r.handle = s.handle
        PROVE  r = s
    BY <2>1 DEF OneTopic
  <2> QED BY <2>1 DEF OneTopic
<1>2. Below'
  <2>1. ASSUME NEW r \in RowType, Live(r)'
        PROVE  /\ phase' = "up" => r.handle < next_drop'
               /\ phase' = "restoring" => r.handle <= top'
    BY <2>1 DEF Below
  <2> QED BY <2>1 DEF Below
<1> QED BY <1>1, <1>2

\* A call that does not write, over drops that only go, brings no row.
Calm ==
  \A d \in Calls :
    /\ call'[d].table \subseteq call[d].table \cup persisted_table
    /\ call'[d].pc \in {"write", "rename"} /\ call'[d].path = Table =>
         call[d].pc \in {"write", "rename"} /\ call[d].path = Table
    /\ call'[d].pc = "joining" => call[d].pc = "joining" \/ phase = "up"

\* One call moves without writing.
LEMMA OneCalm ==
  ASSUME call \in [Calls -> CallType], NEW c \in Calls, NEW k,
         call' = [call EXCEPT ![c] = k],
         k.table \subseteq call[c].table \cup persisted_table,
         k.pc \notin {"write", "rename"}, k.pc = "joining" => phase = "up"
  PROVE  Calm
BY DEF Calm

\* Calm steps keep the handles apart.
LEMMA CalmStep ==
  ASSUME HandleInv, Typed', Calm, phase # "down", UNCHANGED <<phase, next_drop, top, tmp>>,
         DOMAIN drops' \subseteq DOMAIN drops, \A h \in DOMAIN drops' : drops'[h] = drops[h],
         rows' \subseteq rows, cur'[Table] = cur[Table]
  PROVE  HandleInv'
<1> SUFFICES ASSUME NEW r \in RowType, Live(r)' PROVE Live(r)
  <2>1. Started'
    BY DEF HandleInv, Started, Calm
  <2> QED BY <2>1, NoNewRows DEF HandleInv
<1>1. CASE r \in (load_table)' \/ r \in rows'
  BY <1>1 DEF load_table, Live
<1>2. CASE r \in (persisted_table)'
  BY <1>2 DEF persisted_table, Live
<1>3. ASSUME NEW d \in Calls,
             \/ r \in call'[d].table
             \/ /\ call'[d].pc \in {"write", "rename"} /\ call'[d].path = Table
                /\ r \in tmp'[Table].table
      PROVE  Live(r)
  BY <1>3 DEF Live, Calm
<1> QED BY <1>1, <1>2, <1>3 DEF Live

\* The starts of the calls, and their steps other than the writes and
\* register, keep the handles apart.
LEMMA CallsKeepHandles ==
  ASSUME HandleInv, Typed', NEW c \in Calls,
         \/ \E t \in Topics : drop_create(c, t) \/ drop_join(c, t)
         \/ \E h \in Handles : \/ JoinAgain(c, h) \/ drop_leave(c, h)
                               \/ offer_publish(c, h)
         \/ \E h \in pending : DebounceFires(c, h)
         \/ shutdown(c) \/ JoinFails(c)
         \/ export_history(c) \/ SnapshotTable(c) \/ Saved(c)
         \/ \E h \in Handles : ShutdownPersists(c, h)
         \/ Drain(c)
  PROVE  HandleInv'
<1>1. call[c] \in CallType /\ call \in [Calls -> CallType]
  BY DEF HandleInv, Typed, TypedCalls
<1>2. Idle.table = {} /\ Idle.pc = "idle" /\ (call[c].pc # "idle" => phase # "down")
  BY DEF Idle, HandleInv, Started
<1>3. ASSUME NEW t \in Topics, drop_create(c, t) \/ drop_join(c, t) PROVE HandleInv'
  <2>1. PICK kind \in {"create", "join"} : StartJoin(c, kind, t)
    BY <1>3 DEF drop_create, drop_join
  <2> DEFINE k == [call[c] EXCEPT !.pc = "joining", !.kind = kind, !.topic = t]
  <2>2. call' = [call EXCEPT ![c] = k] /\ k.table = call[c].table /\ k.pc = "joining"
    BY <2>1, <1>1 DEF StartJoin, CallType
  <2>3. Calm
    BY <1>1, <1>3, <2>2, OneCalm DEF drop_create, drop_join
  <2> QED BY <1>3, <2>1, <2>3, CalmStep DEF StartJoin, files, drop_create, drop_join
<1>4. ASSUME NEW h, JoinAgain(c, h) \/ offer_publish(c, h) \/ DebounceFires(c, h)
      PROVE  HandleInv'
  <2> DEFINE k == Persist("persist", h)
  <2>1. k.table = {} /\ k.pc = "export"
    BY DEF Persist, Idle
  <2>2. call' = [call EXCEPT ![c] = k]
    BY <1>4 DEF JoinAgain, offer_publish, DebounceFires
  <2> HIDE DEF k
  <2>3. Calm
    BY <1>1, <2>1, <2>2, OneCalm
  <2> QED BY <1>4, <2>3, CalmStep DEF JoinAgain, offer_publish, DebounceFires, files
<1>5. ASSUME NEW h \in Handles, drop_leave(c, h) PROVE HandleInv'
  <2> DEFINE k == [call[c] EXCEPT !.pc = "withdrawing", !.kind = "leave", !.handle = h,
                                  !.topic = drops[h]]
  <2>1. call' = [call EXCEPT ![c] = k] /\ k.table = call[c].table /\ k.pc = "withdrawing"
    BY <1>1, <1>5 DEF drop_leave, CallType
  <2>2. Calm
    BY <1>1, <2>1, OneCalm
  <2>3. DOMAIN drops' \subseteq DOMAIN drops /\ \A g \in DOMAIN drops' : drops'[g] = drops[g]
    BY <1>5 DEF drop_leave, Restrict
  <2> QED BY <1>5, <2>2, <2>3, CalmStep DEF drop_leave, files
<1>6. CASE shutdown(c)
  <2> DEFINE k == [call[c] EXCEPT !.pc = "shutdown", !.kind = "shutdown", !.todo = DOMAIN drops]
  <2>1. call' = [call EXCEPT ![c] = k] /\ k.table = call[c].table /\ k.pc = "shutdown"
    BY <1>1, <1>6 DEF shutdown, CallType
  <2>2. Calm
    BY <1>1, <2>1, OneCalm
  <2> QED BY <1>6, <2>2, CalmStep DEF shutdown, files
<1>7. CASE JoinFails(c)
  <2>1. Calm
    BY <1>1, <1>2, <1>7, OneCalm DEF JoinFails, Ends
  <2> QED BY <1>2, <1>7, <2>1, CalmStep DEF JoinFails, files
<1>8. Returned(c) => Calm
  <2> DEFINE m == [Idle EXCEPT !.pc = "shutdown", !.kind = "shutdown", !.todo = call[c].todo]
             k == IF call[c].kind = "shutdown" THEN m ELSE Idle
  <2>1. m.table = {} /\ m.pc = "shutdown"
    BY DEF Idle
  <2>2. Returned(c) => call' = [call EXCEPT ![c] = k]
    BY DEF Returned
  <2> HIDE DEF m
  <2>3. k.table = {} /\ k.pc \in {"idle", "shutdown"}
    BY <1>2, <2>1
  <2> HIDE DEF k
  <2> QED BY <1>1, <2>2, <2>3, OneCalm
<1>9. CASE export_history(c)
  <2>1. CASE call[c].handle \in DOMAIN drops
    <3> DEFINE h == call[c].handle
               k == [call[c] EXCEPT !.pc = "table", !.topic = drops[h], !.offers = known[h]]
    <3>1. call' = [call EXCEPT ![c] = k] /\ k.table = call[c].table /\ k.pc = "table"
      BY <1>1, <1>9, <2>1 DEF export_history, CallType
    <3>2. Calm
      BY <1>1, <3>1, OneCalm
    <3> QED BY <1>2, <1>9, <3>2, CalmStep DEF export_history, files
  <2>2. CASE call[c].handle \notin DOMAIN drops
    BY <1>2, <1>8, <1>9, <2>2, CalmStep DEF export_history, files
  <2> QED BY <2>1, <2>2
<1>10. CASE SnapshotTable(c)
  <2> DEFINE k == [call[c] EXCEPT !.pc = "open", !.path = Table, !.table = persisted_table]
  <2>1. call' = [call EXCEPT ![c] = k] /\ k.table = persisted_table /\ k.pc = "open"
    BY <1>1, <1>10 DEF SnapshotTable, CallType
  <2>2. Calm
    BY <1>1, <2>1, OneCalm
  <2> QED BY <1>2, <1>10, <2>2, CalmStep DEF SnapshotTable, files
<1>11. CASE Saved(c)
  BY <1>2, <1>8, <1>11, CalmStep DEF Saved, files
<1>12. ASSUME NEW h \in Handles, ShutdownPersists(c, h) PROVE HandleInv'
  <2> DEFINE k == [call[c] EXCEPT !.pc = "export", !.handle = h, !.todo = @ \ {h}]
  <2>1. call' = [call EXCEPT ![c] = k] /\ k.table = call[c].table /\ k.pc = "export"
    BY <1>1, <1>12 DEF ShutdownPersists, CallType
  <2>2. Calm
    BY <1>1, <2>1, OneCalm
  <2> QED BY <1>2, <1>12, <2>2, CalmStep DEF ShutdownPersists, files
<1>13. CASE Drain(c)
  <2> DEFINE k == [call[c] EXCEPT !.pc = "closing"]
  <2>1. call' = [call EXCEPT ![c] = k] /\ k.table = call[c].table /\ k.pc = "closing"
    BY <1>1, <1>13 DEF Drain, Goto, CallType
  <2>2. Calm
    BY <1>1, <2>1, OneCalm
  <2>3. DOMAIN drops' = {}
    BY <1>13 DEF Drain, NoDrops
  <2> QED BY <1>2, <1>13, <2>2, <2>3, CalmStep DEF Drain, files
<1> QED BY <1>3, <1>4, <1>5, <1>6, <1>7, <1>9, <1>10, <1>11, <1>12, <1>13

\* remove_drop and the file operations keep the handles apart: what is renamed
\* over the table was written by this process.
LEMMA WritesKeepHandles ==
  ASSUME HandleInv, Typed', NEW c \in Calls,
         remove_drop(c) \/ OpenTmp(c) \/ WriteTmp(c) \/ RenameTmp(c)
  PROVE  HandleInv'
<1>1. /\ call[c] \in CallType /\ call \in [Calls -> CallType] /\ TypedCalls
      /\ cur \in [Paths -> FileType] /\ tmp \in [Paths -> FileType]
      /\ Table \in Paths /\ call[c].path \in Paths
  BY DEF HandleInv, Typed, TypedCalls, Paths, CallType
<1>2. call[c].pc # "idle" => phase # "down"
  BY DEF Idle, HandleInv, Started
<1>3. call[c].pc \in Named => call[c].topic \in Topics /\ call[c].topic # Table
  BY TableAssumption DEF HandleInv, Typed, TypedCalls, Table
<1>4. CASE remove_drop(c)
  <2> DEFINE M == Moved(call, call[c].topic, "tmp", "gone")
             k == [call[c] EXCEPT !.pc = "table"]
  <2>1. M \in [Calls -> CallType] /\ M[c] = call[c]
    BY <1>1, <1>4, MovedCalls DEF remove_drop
  <2>2. \A d \in Calls : M[d].pc = call[d].pc /\ M[d].path = call[d].path /\ M[d].table = call[d].table
    BY <1>1, MovedCalls
  <2>3. call' = [M EXCEPT ![c] = k]
    <3>1. call' = [M EXCEPT ![c].pc = "table"]
      BY <1>4 DEF remove_drop
    <3> HIDE DEF M
    <3> QED BY <3>1, <2>1, <1>1 DEF CallType
  <2>4. k.pc = "table" /\ k.table = call[c].table
    BY <1>1 DEF CallType
  <2> HIDE DEF M, k
  <2>5. Calm
    BY <2>1, <2>2, <2>3, <2>4 DEF Calm
  <2>6. cur'[Table] = cur[Table]
    BY <1>1, <1>3, <1>4 DEF remove_drop, Named
  <2> QED BY <1>2, <1>4, <2>5, <2>6, CalmStep DEF remove_drop, files
<1>5. CASE OpenTmp(c)
  <2> DEFINE p == call[c].path
             k == [call[c] EXCEPT !.pc = "write", !.fd = "tmp"]
  <2>1. /\ call' = [call EXCEPT ![c] = k] /\ k.table = call[c].table /\ k.path = p
        /\ k.pc = "write"
    BY <1>1, <1>5 DEF OpenTmp, CallType
  <2>2. tmp' = [tmp EXCEPT ![p] = Empty] /\ Empty.table = {}
    BY <1>5 DEF OpenTmp, Empty, File
  <2>3. ASSUME NEW r \in RowType, Live(r)' PROVE Live(r)
    <3>1. CASE r \in (load_table)' \/ r \in rows' \/ r \in (persisted_table)'
      BY <1>5, <3>1 DEF load_table, Live, persisted_table, OpenTmp
    <3>2. ASSUME NEW d \in Calls,
                 \/ r \in call'[d].table
                 \/ /\ call'[d].pc \in {"write", "rename"} /\ call'[d].path = Table
                    /\ r \in tmp'[Table].table
          PROVE  Live(r)
      <4>1. CASE d = c
        BY <1>1, <2>1, <2>2, <3>2, <4>1 DEF Live
      <4>2. CASE d # c
        BY <1>1, <2>1, <2>2, <3>2, <4>2 DEF Live
      <4> QED BY <4>1, <4>2
    <3> QED BY <2>3, <3>1, <3>2 DEF Live
  <2>4. Started'
    BY <1>1, <1>2, <1>5, <2>1 DEF HandleInv, Started, OpenTmp
  <2>5. UNCHANGED <<phase, next_drop, top>>
    BY <1>5 DEF OpenTmp
  <2> QED BY <2>3, <2>4, <2>5, NoNewRows DEF HandleInv
<1>6. CASE WriteTmp(c)
  <2> DEFINE p == call[c].path
             k == [call[c] EXCEPT !.pc = "rename", !.fd = "none"]
  <2>1. /\ call' = [call EXCEPT ![c] = k] /\ k.table = call[c].table /\ k.path = p
        /\ k.pc = "rename" /\ call[c].pc = "write"
    BY <1>1, <1>6 DEF WriteTmp, CallType
  <2>2. \A old, f : f \in Written(old, Content(call[c])) =>
                      f.table = {} \/ (p = Table /\ f.table = call[c].table)
    BY DEF Written, Content, File, Torn
  <2>3. /\ tmp' = tmp \/ \E f \in Written(tmp[p], Content(call[c])) : tmp' = [tmp EXCEPT ![p] = f]
        /\ cur' = cur \/ \E f \in Written(cur[p], Content(call[c])) : cur' = [cur EXCEPT ![p] = f]
    BY <1>6, Zenon DEF WriteTmp, Content
  <2>4. /\ tmp'[Table].table \subseteq tmp[Table].table \cup call[c].table
        /\ cur'[Table].table \subseteq cur[Table].table \cup call[c].table
        /\ p # Table => tmp'[Table] = tmp[Table]
    BY <1>1, <2>2, <2>3
  <2> HIDE DEF k
  <2>5. ASSUME NEW r \in RowType, Live(r)' PROVE Live(r)
    <3>1. CASE r \in (load_table)' \/ r \in rows' \/ r \in (persisted_table)'
      BY <1>6, <2>4, <3>1 DEF load_table, Live, persisted_table, WriteTmp
    <3>2. ASSUME NEW d \in Calls,
                 \/ r \in call'[d].table
                 \/ /\ call'[d].pc \in {"write", "rename"} /\ call'[d].path = Table
                    /\ r \in tmp'[Table].table
          PROVE  Live(r)
      <4>1. CASE d = c
        BY <1>1, <2>1, <2>4, <3>2, <4>1 DEF Live
      <4>2. CASE d # c
        BY <1>1, <2>1, <2>4, <3>2, <4>2 DEF Live
      <4> QED BY <4>1, <4>2
    <3> QED BY <2>5, <3>1, <3>2 DEF Live
  <2>6. Started'
    BY <1>1, <1>2, <1>6, <2>1 DEF HandleInv, Started, WriteTmp
  <2>7. UNCHANGED <<phase, next_drop, top>>
    BY <1>6 DEF WriteTmp
  <2> QED BY <2>5, <2>6, <2>7, NoNewRows DEF HandleInv
<1>7. CASE RenameTmp(c)
  <2> DEFINE p == call[c].path
             M == IF tmp[p] # Absent THEN Moved(call, p, "cur", "gone") ELSE call
             pc == IF p = Table /\ call[c].kind # "leave" THEN "open" ELSE "saved"
             k == [call[c] EXCEPT !.pc = pc, !.path = call[c].topic, !.table = {}]
  <2>1. M \in [Calls -> CallType] /\ M[c] = call[c] /\ call[c].pc = "rename"
    BY <1>1, <1>7, MovedCalls DEF RenameTmp
  <2>2. \A d \in Calls : M[d].pc = call[d].pc /\ M[d].path = call[d].path /\ M[d].table = call[d].table
    BY <1>1, MovedCalls
  <2>3. call' = [M EXCEPT ![c] = k]
    <3>1. call' = [M EXCEPT ![c].pc = pc, ![c].path = call[c].topic, ![c].table = {}]
      BY <1>7 DEF RenameTmp
    <3> HIDE DEF M, pc
    <3> QED BY <3>1, <2>1, <1>1 DEF CallType
  <2>4. k.pc \in {"open", "saved"} /\ k.table = {}
    <3>1. pc \in {"open", "saved"}
      OBVIOUS
    <3> HIDE DEF pc
    <3> QED BY <1>1, <3>1 DEF CallType
  <2>5. /\ cur'[Table] = cur[Table] \/ (p = Table /\ cur'[Table] = tmp[Table])
        /\ tmp'[Table].table \subseteq tmp[Table].table
    BY <1>1, <1>7 DEF RenameTmp, Absent, File
  <2> HIDE DEF M, k
  <2>6. ASSUME NEW r \in RowType, Live(r)' PROVE Live(r)
    <3>1. CASE r \in (load_table)' \/ r \in rows' \/ r \in (persisted_table)'
      BY <1>1, <1>7, <2>1, <2>5, <3>1 DEF load_table, Live, persisted_table, RenameTmp
    <3>2. ASSUME NEW d \in Calls,
                 \/ r \in call'[d].table
                 \/ /\ call'[d].pc \in {"write", "rename"} /\ call'[d].path = Table
                    /\ r \in tmp'[Table].table
          PROVE  Live(r)
      <4>1. CASE d = c
        BY <2>1, <2>3, <2>4, <3>2, <4>1 DEF Live
      <4>2. CASE d # c
        BY <2>1, <2>2, <2>3, <2>5, <3>2, <4>2 DEF Live
      <4> QED BY <4>1, <4>2
    <3> QED BY <2>6, <3>1, <3>2 DEF Live
  <2>7. UNCHANGED <<phase, next_drop, top>>
    BY <1>7 DEF RenameTmp
  <2>8. Started'
    <3>1. phase # "down"
      BY <1>2, <2>1
    <3>2. \A d \in Calls : call'[d].pc = "joining" => call[d].pc = "joining"
      BY <2>1, <2>2, <2>3, <2>4
    <3> QED BY <2>7, <3>1, <3>2 DEF HandleInv, Started
  <2> QED BY <2>6, <2>7, <2>8, NoNewRows DEF HandleInv
<1> QED BY <1>4, <1>5, <1>6, <1>7

\* The end of a process keeps what a restart reads.
LEMMA DiesKeepsHandles == ASSUME HandleInv, Typed', Dies PROVE HandleInv'
<1>1. Idle.table = {} /\ Idle.pc = "idle"
  BY DEF Idle
<1>2. DOMAIN drops' = {} /\ rows' = {} /\ cur' = cur /\ phase' = "down"
  BY DEF Dies, NoDrops, files
<1>3. \A d \in Calls : call'[d] = Idle
  BY DEF Dies
<1>4. ASSUME NEW r \in RowType, Live(r)' PROVE Live(r)
  BY <1>1, <1>2, <1>3, <1>4 DEF Live, load_table, persisted_table
<1>5. OneTopic'
  BY <1>4 DEF OneTopic, HandleInv
<1>6. Below' /\ Started'
  BY <1>1, <1>2, <1>3 DEF Below, Started, Dies
<1> QED BY <1>5, <1>6 DEF HandleInv

\* register takes a handle above all others: fresh handles never collide
\* with restored ones or with those still written on disk.
LEMMA RegisterKeepsHandles ==
  ASSUME HandleInv, Typed', NEW c \in Calls, register(c)
  PROVE  HandleInv'
<1> DEFINE h == next_drop
           t == call[c].topic
           k == Persist(call[c].kind, h)
<1>1. /\ call[c] \in CallType /\ call \in [Calls -> CallType]
      /\ h \in Handles /\ t \in Topics /\ call[c].pc = "joining" /\ phase = "up"
  BY DEF HandleInv, Typed, TypedCalls, Named, Started, register
<1>2. call' = [call EXCEPT ![c] = k] /\ k.table = {} /\ k.pc = "export"
  BY DEF register, Persist, Idle
<1>3. /\ drops' = [g \in DOMAIN drops \cup {h} |-> IF g = h THEN t ELSE drops[g]]
      /\ next_drop' = h + 1
      /\ UNCHANGED <<phase, rows, top, cur, tmp>>
  BY DEF register, files
<1> HIDE DEF k
<1>4. ASSUME NEW r \in RowType, Live(r)' PROVE Live(r) \/ r = Row(h, t)
  <2>1. CASE r \in (load_table)' \/ r \in rows'
    BY <1>3, <2>1 DEF load_table, Live
  <2>2. CASE r \in (persisted_table)'
    BY <1>3, <2>2 DEF persisted_table, Live
  <2>3. ASSUME NEW d \in Calls,
               \/ r \in call'[d].table
               \/ /\ call'[d].pc \in {"write", "rename"} /\ call'[d].path = Table
                  /\ r \in tmp'[Table].table
        PROVE  Live(r)
    <3>1. CASE d = c
      BY <1>1, <1>2, <2>3, <3>1
    <3>2. CASE d # c
      BY <1>1, <1>2, <1>3, <2>3, <3>2 DEF Live
    <3> QED BY <3>1, <3>2
  <2> QED BY <1>4, <2>1, <2>2, <2>3 DEF Live
<1>5. \A r \in RowType : Live(r) => r.handle < h /\ r.handle \in Nat
  BY <1>1 DEF HandleInv, Below, RowType, Handles
<1>6. Row(h, t).handle = h /\ h \in Nat
  BY <1>1 DEF Row, Handles
<1>7. OneTopic'
  <2>1. ASSUME NEW r \in RowType, NEW s \in RowType, Live(r)', Live(s)', r.handle = s.handle
        PROVE  r = s
    <3>1. CASE Live(r) /\ Live(s)
      BY <2>1, <3>1 DEF HandleInv, OneTopic
    <3>2. CASE ~(Live(r) /\ Live(s))
      <4>1. (Live(r) \/ r = Row(h, t)) /\ (Live(s) \/ s = Row(h, t))
        BY <1>4, <2>1
      <4> QED BY <1>5, <1>6, <2>1, <3>2, <4>1
    <3> QED BY <3>1, <3>2
  <2> QED BY <2>1 DEF OneTopic
<1>8. Below'
  <2>1. ASSUME NEW r \in RowType, Live(r)' PROVE r.handle < next_drop'
    BY <1>3, <1>4, <1>5, <1>6, <2>1
  <2> QED BY <1>1, <1>3, <2>1 DEF Below
<1>9. Started'
  BY <1>1, <1>2, <1>3 DEF HandleInv, Started
<1> QED BY <1>7, <1>8, <1>9 DEF HandleInv

\* The restore and the session events keep the handles apart.
LEMMA RestKeepsHandles ==
  ASSUME HandleInv, Typed',
         \/ \E h \in Handles, n \in {0, 1} : on_session_event(h, n)
         \/ \E r \in rows : RestoreRow(r) \/ RestoreSkips(r)
         \/ RestoreDone \/ Restart \/ Crash
  PROVE  HandleInv'
<1>1. ASSUME NEW h, NEW n, on_session_event(h, n) PROVE HandleInv'
  <2>1. Calm
    BY <1>1 DEF on_session_event, Calm
  <2> QED BY <1>1, <2>1, CalmStep DEF on_session_event, files
<1>2. ASSUME NEW r, RestoreSkips(r) PROVE HandleInv'
  <2>1. Calm
    BY <1>2 DEF RestoreSkips, Calm
  <2> QED BY <1>2, <2>1, CalmStep DEF RestoreSkips, files
<1>3. ASSUME NEW r \in rows, RestoreRow(r) PROVE HandleInv'
  <2>1. r \in RowType /\ r = Row(r.handle, r.topic) /\ Live(r)
    BY DEF HandleInv, Typed, RowType, Row, Live
  <2>2. /\ drops' = [g \in DOMAIN drops \cup {r.handle} |->
                       IF g = r.handle THEN r.topic ELSE drops[g]]
        /\ rows' \subseteq rows /\ phase = "restoring"
        /\ UNCHANGED <<phase, next_drop, top, cur, tmp, call>>
    BY <1>3 DEF RestoreRow, files
  <2>3. ASSUME NEW s \in RowType, Live(s)' PROVE Live(s)
    <3>1. CASE s \in (persisted_table)'
      BY <2>1, <2>2, <3>1 DEF persisted_table, Live
    <3> QED BY <2>2, <2>3, <3>1 DEF Live, load_table
  <2>4. Started'
    BY <2>2 DEF HandleInv, Started
  <2> QED BY <2>2, <2>3, <2>4, NoNewRows DEF HandleInv
<1>4. CASE RestoreDone
  <2>1. /\ phase = "restoring" /\ phase' = "up"
        /\ next_drop' = Max({next_drop, top + 1})
        /\ UNCHANGED <<drops, call, rows, cur, tmp>>
    BY <1>4 DEF RestoreDone, NextAfterRestore, files
  <2>2. /\ next_drop \in 0..(MaxHandle + 1) /\ top + 1 \in 0..(MaxHandle + 1)
        /\ MaxHandle + 1 \in Nat /\ top \in Nat
    BY TableAssumption DEF HandleInv, Typed, Handles
  <2> DEFINE S == {next_drop, top + 1}
  <2>3. S \subseteq 0..(MaxHandle + 1) /\ S # {}
    BY <2>2
  <2>4. Max(S) \in S /\ top + 1 <= Max(S)
    BY <2>2, <2>3, MaxIsGreatest
  <2>5. ASSUME NEW r \in RowType PROVE Live(r)' <=> Live(r)
    BY <2>1 DEF Live, load_table, persisted_table
  <2>6. OneTopic'
    BY <2>5 DEF HandleInv, OneTopic
  <2>7. Below'
    <3>1. ASSUME NEW r \in RowType, Live(r)' PROVE r.handle < next_drop'
      <4>1. r.handle <= top /\ r.handle \in Nat
        BY <2>1, <2>5, <3>1 DEF HandleInv, Below, RowType, Handles
      <4>2. \A x \in S : x \in Nat
        BY <2>2
      <4>3. next_drop' \in Nat /\ top + 1 <= next_drop'
        BY <2>1, <2>4, <4>2
      <4> QED BY <2>2, <4>1, <4>3
    <3> QED BY <2>1, <3>1 DEF Below
  <2>8. Started'
    BY <2>1 DEF HandleInv, Started
  <2> QED BY <2>6, <2>7, <2>8 DEF HandleInv
<1>5. CASE Restart
  <2> DEFINE S == {0} \cup {r.handle : r \in load_table}
  <2>1. /\ phase = "down" /\ phase' \in {"up", "restoring"}
        /\ phase' = "up" => load_table = {}
        /\ rows' = load_table /\ top' = Max(S)
        /\ UNCHANGED <<drops, call, next_drop, cur, tmp>>
    BY <1>5 DEF Restart, files
  <2>2. load_table \subseteq RowType
    BY DEF load_table, Paths, FileType, HandleInv, Typed
  <2>3. S \subseteq 0..MaxHandle /\ S # {}
    BY <2>2, TableAssumption DEF RowType, Handles
  <2>4. \A r \in load_table : r.handle <= Max(S)
    BY <2>3, MaxIsGreatest, TableAssumption
  <2>5. DOMAIN drops' = {} /\ (\A d \in Calls : call'[d] = Idle) /\ Idle.table = {} /\ Idle.pc = "idle"
    BY <2>1 DEF HandleInv, Started, NoDrops, Idle
  <2> HIDE DEF S
  <2>6. ASSUME NEW r, Live(r)' PROVE r \in load_table
    BY <2>1, <2>5, <2>6 DEF Live, load_table, persisted_table
  <2>7. ASSUME NEW r, Live(r)' PROVE Live(r)
    BY <2>6, <2>7 DEF Live
  <2>8. OneTopic'
    BY <2>7 DEF HandleInv, OneTopic
  <2>9. Below'
    BY <2>1, <2>4, <2>6 DEF Below
  <2>10. Started'
    BY <2>1, <2>5 DEF Started
  <2> QED BY <2>8, <2>9, <2>10 DEF HandleInv
<1>6. CASE Crash
  BY <1>6, DiesKeepsHandles DEF Crash
<1> QED BY <1>1, <1>2, <1>3, <1>4, <1>5, <1>6

\* Every step keeps the handles apart.
LEMMA HandleStep == ASSUME HandleInv, [Next]_vars PROVE HandleInv'
<1>1. Typed'
  BY TypedStep DEF HandleInv
<1>2. ASSUME UNCHANGED vars PROVE HandleInv'
  <2>1. \A r : Live(r)' <=> Live(r)
    BY <1>2 DEF vars, files, Live, load_table, persisted_table
  <2>2. OneTopic' /\ Below'
    BY <1>2, <2>1, NoNewRows DEF vars, HandleInv
  <2>3. Started'
    BY <1>2 DEF vars, HandleInv, Started
  <2> QED BY <1>1, <2>2, <2>3 DEF HandleInv
<1>3. ASSUME Next PROVE HandleInv'
  <2>1. ASSUME NEW c \in Calls, Stop(c) PROVE HandleInv'
    BY <1>1, <2>1, DiesKeepsHandles DEF Stop
  <2> QED BY <1>1, <1>3, <2>1, CallsKeepHandles, WritesKeepHandles, RegisterKeepsHandles,
             RestKeepsHandles, Zenon DEF Next, CallStep, PersistStep
<1> QED BY <1>2, <1>3

\* The first state has no rows.
LEMMA InitHandles == Init => HandleInv
<1> SUFFICES ASSUME Init PROVE HandleInv
  OBVIOUS
<1>1. Idle.table = {} /\ Idle.pc = "idle" /\ Absent.table = {} /\ Table \in Paths
  BY DEF Idle, Absent, File, Paths
<1>2. \A r : ~Live(r)
  BY <1>1 DEF Init, Live, load_table, persisted_table, NoDrops
<1>3. OneTopic /\ Below
  BY <1>2 DEF OneTopic, Below
<1>4. Started
  BY <1>1 DEF Init, Started
<1> QED BY <1>3, <1>4, InitTyped DEF HandleInv

\* "Handles stay stable across restarts", for any number of activities at
\* once, crashes anywhere and whatever the restore skips: a handle in memory
\* stands for the drop it has in the table a restart would read.
THEOREM HandlesAreStable == Spec => []HandlesStable
<1>1. HandleInv /\ [Next]_vars => HandleInv'
  BY HandleStep
<1>2. HandleInv => HandlesStable
  <2> SUFFICES ASSUME HandleInv, NEW r \in load_table, r.handle \in DOMAIN drops
               PROVE  drops[r.handle] = r.topic
    BY DEF HandlesStable
  <2> DEFINE s == Row(r.handle, drops[r.handle])
  <2>1. r \in RowType
    BY DEF load_table, Paths, FileType, HandleInv, Typed
  <2>2. s \in RowType /\ s.handle = r.handle /\ s.topic = drops[r.handle]
    BY <2>1 DEF HandleInv, Typed, Row, RowType
  <2>3. Live(r) /\ Live(s)
    BY DEF Live, persisted_table
  <2> QED BY <2>1, <2>2, <2>3 DEF HandleInv, OneTopic
<1> QED BY InitHandles, <1>1, <1>2, PTL DEF Spec

---------------------------------------------------------------------------
\* With one activity at a time, an activity starts when there is no other,
\* and not during the restore.
LEMMA NoneRuns ==
  ASSUME Typed, Overlap = 1, NEW c \in Calls, MayStart(c)
  PROVE  phase # "restoring" /\ \A d \in Calls : call[d] = Idle
<1>1. IsFiniteSet(Active)
  BY TableAssumption, FS_Subset DEF Active
<1>2. Cardinality(Active) \in Nat
  BY <1>1, FS_CardinalityType
<1>3. Cardinality(Active) = 0 /\ phase # "restoring"
  BY <1>2 DEF MayStart
<1>4. Active = {}
  BY <1>1, <1>3, FS_EmptySet
<1> QED BY <1>3, <1>4 DEF Active

\* An activity that runs runs alone.
LEMMA Alone ==
  ASSUME SoloInv, NEW c \in Calls, call[c].pc # "idle"
  PROVE  phase = "up" /\ \A d \in Calls : d # c => call[d] = Idle
BY DEF SoloInv, Solo, Idle

\* An idle slot promises nothing.
LEMMA IdleOK == CallOK(Idle)
BY DEF CallOK, Idle, Writing

\* What c does is all that is done.
LEMMA OneRuns ==
  ASSUME NEW c \in Calls, \A d \in Calls : d # c => call'[d] = Idle,
         phase' = "up" \/ call'[c] = Idle, CallOK(call[c])'
  PROVE  Solo' /\ \A d \in Calls : CallOK(call[d])'
<1>1. Solo'
  BY DEF Solo
<1>2. ASSUME NEW d \in Calls PROVE CallOK(call[d])'
  <2>1. CASE d = c
    BY <2>1
  <2>2. CASE d # c
    <3>1. call'[d] = Idle
      BY <2>2
    <3> QED BY <3>1 DEF CallOK, Idle, Writing
  <2> QED BY <2>1, <2>2
<1> QED BY <1>1, <1>2

\* A step that moves neither the table, the disk's names nor the history
\* variables keeps the rest of the invariant.
LEMMA Still ==
  ASSUME SoloInv, HandleInv', UNCHANGED <<drops, cur, rows, phase, members, left>>,
         \A d \in Calls : call[d].pc # "closing",
         Solo', \A d \in Calls : CallOK(call[d])'
  PROVE  SoloInv'
<1>1. OncePerTopic'
  BY DEF SoloInv, OncePerTopic, load_table, persisted_table
<1>2. NeverCorrupt'
  BY DEF SoloInv, NeverCorrupt
<1>3. Kept'
  BY DEF SoloInv, Kept, load_table, persisted_table
<1>4. Forgotten'
  BY DEF SoloInv, Forgotten, load_table, Hosted
<1> QED BY <1>1, <1>2, <1>3, <1>4 DEF SoloInv

\* The starts of the calls other than drop_leave.
LEMMA SoloStarts ==
  ASSUME Overlap = 1, SoloInv, HandleInv', NEW c \in Calls,
         \/ \E t \in Topics : drop_create(c, t) \/ drop_join(c, t)
         \/ \E h \in Handles : JoinAgain(c, h) \/ offer_publish(c, h)
         \/ \E h \in pending : DebounceFires(c, h)
         \/ shutdown(c)
  PROVE  SoloInv'
<1>1. MayStart(c)
  BY DEF drop_create, drop_join, JoinAgain, offer_publish, DebounceFires, shutdown
<1>2. phase # "restoring" /\ \A d \in Calls : call[d] = Idle
  BY <1>1, NoneRuns DEF SoloInv, HandleInv
<1>3. call \in [Calls -> CallType] /\ phase \in Phases /\ \A d \in Calls : call[d].pc # "closing"
  BY <1>2 DEF SoloInv, HandleInv, Typed, TypedCalls, Idle
<1>4. ASSUME NEW t \in Topics, drop_create(c, t) \/ drop_join(c, t) PROVE SoloInv'
  <2>1. PICK kind \in {"create", "join"} : StartJoin(c, kind, t)
    BY <1>4 DEF drop_create, drop_join
  <2>2. phase = "up" /\ ~Hosted(t)
    BY <1>4 DEF drop_create, drop_join, Fresh, Hosted
  <2>3. call'[c].pc = "joining" /\ call'[c].kind = kind /\ call'[c].topic = t /\ call'[c].handle = 0
    BY <1>2, <1>3, <2>1 DEF StartJoin, Idle
  <2>4. \A d \in Calls : d # c => call'[d] = Idle
    BY <1>2, <1>3, <2>1 DEF StartJoin
  <2>5. UNCHANGED <<drops, cur, rows, phase, members, left>>
    BY <2>1 DEF StartJoin, files
  <2>6. CallOK(call[c])'
    <3>1. Hosted(t)' <=> Hosted(t)
      BY <2>5 DEF Hosted
    <3> HIDE DEF Hosted
    <3> QED BY <2>2, <2>3, <2>5, <3>1 DEF CallOK, Writing, Hosted
  <2> QED BY <1>3, <2>2, <2>4, <2>5, <2>6, OneRuns, Still
<1>5. ASSUME NEW h, JoinAgain(c, h) \/ offer_publish(c, h) \/ DebounceFires(c, h)
      PROVE  SoloInv'
  <2>1. call' = [call EXCEPT ![c] = Persist("persist", h)] /\ phase = "up"
    BY <1>2, <1>3, <1>5 DEF JoinAgain, offer_publish, DebounceFires, Phases
  <2>2. call'[c].pc = "export" /\ call'[c].kind = "persist"
    BY <1>3, <2>1 DEF Persist, Idle
  <2>3. \A d \in Calls : d # c => call'[d] = Idle
    BY <1>2, <1>3, <2>1
  <2>4. UNCHANGED <<drops, cur, rows, phase, members, left>>
    BY <1>5 DEF JoinAgain, offer_publish, DebounceFires, files
  <2>5. CallOK(call[c])'
    BY <2>2 DEF CallOK, Writing
  <2> QED BY <1>3, <2>1, <2>3, <2>4, <2>5, OneRuns, Still
<1>6. CASE shutdown(c)
  <2>1. call'[c].pc = "shutdown" /\ call'[c].kind = "shutdown" /\ phase = "up"
    BY <1>3, <1>6 DEF shutdown, CallType
  <2>2. \A d \in Calls : d # c => call'[d] = Idle
    BY <1>2, <1>3, <1>6 DEF shutdown
  <2>3. UNCHANGED <<drops, cur, rows, phase, members, left>>
    BY <1>6 DEF shutdown, files
  <2>4. CallOK(call[c])'
    BY <2>1 DEF CallOK, Writing
  <2> QED BY <1>3, <2>1, <2>2, <2>3, <2>4, OneRuns, Still
<1> QED BY <1>4, <1>5, <1>6

\* The steps of the calls before the rename, and the session events.
LEMMA SoloSteps ==
  ASSUME SoloInv, HandleInv', NEW c \in Calls,
         \/ JoinFails(c) \/ export_history(c) \/ SnapshotTable(c)
         \/ OpenTmp(c) \/ WriteTmp(c)
         \/ \E h \in Handles : ShutdownPersists(c, h)
  PROVE  SoloInv'
<1> DEFINE k == call[c]
<1>1. /\ k \in CallType /\ call \in [Calls -> CallType] /\ CallOK(k) /\ k.path \in Paths
      /\ tmp \in [Paths -> FileType] /\ TypedCalls
  BY DEF SoloInv, HandleInv, Typed, TypedCalls, CallType
<1>2. k.pc # "idle" /\ k.pc # "closing"
  BY DEF JoinFails, export_history, SnapshotTable, OpenTmp, WriteTmp, ShutdownPersists
<1>3. phase = "up" /\ \A d \in Calls : d # c => call[d] = Idle
  BY <1>2, Alone
<1>4. \A d \in Calls : call[d].pc # "closing"
  BY <1>2, <1>3 DEF Idle
<1>5. SUFFICES ASSUME CallOK(call[c])',
                      UNCHANGED <<drops, cur, rows, phase, members, left>>,
                      \A d \in Calls : d # c => call'[d] = Idle
               PROVE  SoloInv'
  <2>1. ASSUME NEW d \in Calls, d # c PROVE call'[d] = call[d]
    BY <1>1, <2>1 DEF JoinFails, Ends, export_history, Returned, SnapshotTable, OpenTmp, WriteTmp,
                      ShutdownPersists
  <2>2. UNCHANGED <<drops, cur, rows, phase, members, left>>
    <3>1. CASE JoinFails(c) \/ SnapshotTable(c) \/ OpenTmp(c)
               \/ \E h \in Handles : ShutdownPersists(c, h)
      BY <3>1 DEF JoinFails, SnapshotTable, OpenTmp, ShutdownPersists, files
    <3>2. CASE export_history(c)
      <4>1. CASE k.handle \in DOMAIN drops
        BY <3>2, <4>1 DEF export_history, files
      <4>2. CASE k.handle \notin DOMAIN drops
        <5>1. Returned(c) /\ k.kind # "leave"
          BY <1>1, <3>2, <4>2 DEF export_history, TypedCalls, Leaveless
        <5> QED BY <3>2, <4>2, <5>1 DEF export_history, Returned, files
      <4> QED BY <4>1, <4>2
    <3>3. CASE WriteTmp(c)
      BY <1>1, <3>3 DEF WriteTmp, CallOK
    <3> QED BY <3>1, <3>2, <3>3
  <2>3. CallOK(call[c])'
    <3> HIDE DEF k
    <3>1. (persisted_table)' = persisted_table /\ (load_table)' = load_table
      BY <2>2 DEF persisted_table, load_table
    <3>2. \A t : (\E h \in DOMAIN drops' : drops'[h] = t) <=> Hosted(t)
      BY <2>2 DEF Hosted
    <3>3. CASE JoinFails(c)
      <4>1. call'[c] = Idle
        BY <1>1, <3>3 DEF JoinFails, Ends
      <4> QED BY <4>1 DEF CallOK, Idle, Writing
    <3>4. CASE export_history(c)
      <4>1. CASE k.handle \in DOMAIN drops
        <5>1. /\ call'[c].pc = "table" /\ call'[c].topic = drops[k.handle]
              /\ call'[c].offers = known[k.handle] /\ call'[c].handle = k.handle
              /\ call'[c].kind = k.kind /\ k.kind # "leave" /\ known' = known
          BY <1>1, <3>4, <4>1 DEF export_history, CallType, TypedCalls, Leaveless, k
        <5> QED BY <2>2, <4>1, <5>1 DEF CallOK, Writing
      <4>2. CASE k.handle \notin DOMAIN drops
        <5>1. call'[c] = Idle \/ (call'[c].pc = "shutdown" /\ call'[c].kind = "shutdown")
          BY <1>1, <3>4, <4>2 DEF export_history, Returned, Idle, k
        <5> QED BY <5>1 DEF CallOK, Writing, Idle
      <4> QED BY <4>1, <4>2
    <3>5. CASE SnapshotTable(c)
      <4>1. /\ call'[c].pc = "open" /\ call'[c].path = Table /\ call'[c].table = persisted_table
            /\ call'[c].topic = k.topic /\ call'[c].handle = k.handle /\ call'[c].kind = k.kind
            /\ call'[c].offers = k.offers /\ k.pc = "table" /\ known' = known /\ pending' = pending
        BY <1>1, <3>5 DEF SnapshotTable, CallType, k
      <4> QED BY <1>1, <2>2, <3>1, <3>2, <4>1 DEF CallOK, Writing, Hosted
    <3>6. CASE OpenTmp(c)
      <4>1. /\ call'[c].pc = "write" /\ call'[c].path = k.path /\ call'[c].table = k.table
            /\ call'[c].topic = k.topic /\ call'[c].handle = k.handle /\ call'[c].kind = k.kind
            /\ call'[c].offers = k.offers /\ call'[c].fd = "tmp"
            /\ k.pc = "open" /\ known' = known /\ pending' = pending
        BY <1>1, <3>6 DEF OpenTmp, CallType, k
      <4>2. tmp'[k.path] = Empty
        BY <1>1, <3>6 DEF OpenTmp, k
      <4> QED BY <1>1, <2>2, <3>1, <3>2, <4>1, <4>2 DEF CallOK, Writing, Hosted
    <3>7. CASE WriteTmp(c)
      <4>1. /\ call'[c].pc = "rename" /\ call'[c].path = k.path /\ call'[c].table = k.table
            /\ call'[c].topic = k.topic /\ call'[c].handle = k.handle /\ call'[c].kind = k.kind
            /\ call'[c].offers = k.offers
            /\ k.pc = "write" /\ known' = known /\ pending' = pending
        BY <1>1, <3>7 DEF WriteTmp, CallType, k
      <4>2. tmp'[k.path] = Content(k)
        <5>1. k.fd = "tmp" /\ tmp[k.path] = Empty
          BY <1>1, <4>1 DEF CallOK
        <5>2. \E f \in Written(tmp[k.path], Content(k)) : tmp' = [tmp EXCEPT ![k.path] = f]
          BY <3>7, <5>1, Zenon DEF WriteTmp, Content, k
        <5> QED BY <1>1, <5>1, <5>2 DEF Written
      <4>3. Content(call'[c]) = Content(k)
        BY <4>1 DEF Content
      <4> QED BY <1>1, <2>2, <3>1, <3>2, <4>1, <4>2, <4>3 DEF CallOK, Writing, Hosted, Content
    <3>8. ASSUME NEW h \in Handles, ShutdownPersists(c, h) PROVE CallOK(call[c])'
      <4>1. call'[c].pc = "export" /\ call'[c].kind = k.kind /\ k.pc = "shutdown"
        BY <1>1, <3>8 DEF ShutdownPersists, CallType, k
      <4>2. k.kind = "shutdown"
        BY <1>1, <4>1 DEF CallOK
      <4> QED BY <4>1, <4>2 DEF CallOK, Writing
    <3> QED BY <3>3, <3>4, <3>5, <3>6, <3>7, <3>8
  <2> QED BY <1>3, <2>1, <2>2, <2>3
<1> QED BY <1>3, <1>4, <1>5, OneRuns, Still

\* A session event while an activity runs: what it has not exported is
\* scheduled.
LEMMA SoloEvent ==
  ASSUME SoloInv, HandleInv', NEW h \in Handles, NEW n \in {0, 1}, on_session_event(h, n)
  PROVE  SoloInv'
<1>1. /\ known \in [Handles -> 0..MaxOffers] /\ DOMAIN drops \subseteq Handles
      /\ \A d \in Calls : CallOK(call[d])
  BY DEF SoloInv, HandleInv, Typed
<1>2. /\ UNCHANGED <<phase, drops, call, rows, cur, tmp, members, left>>
      /\ \A g \in Handles : g # h => known'[g] = known[g]
      /\ pending' = pending \cup {h}
  BY <1>1 DEF on_session_event, files, schedule_persist
<1>3. (persisted_table)' = persisted_table /\ (load_table)' = load_table
  BY <1>2 DEF persisted_table, load_table
<1>4. ASSUME NEW d \in Calls PROVE CallOK(call[d])'
  BY <1>1, <1>2, <1>3 DEF CallOK, Hosted, Content
<1>5. Solo'
  BY <1>2 DEF SoloInv, Solo
<1>6. OncePerTopic'
  BY <1>2 DEF SoloInv, OncePerTopic, load_table, persisted_table
<1>7. NeverCorrupt'
  BY <1>2 DEF SoloInv, NeverCorrupt
<1>8. Kept'
  BY <1>2 DEF SoloInv, Kept, load_table, persisted_table
<1>9. Forgotten'
  BY <1>2 DEF SoloInv, Forgotten, load_table, Hosted
<1> QED BY <1>4, <1>5, <1>6, <1>7, <1>8, <1>9 DEF SoloInv

\* register: a handle and a topic nobody has.
LEMMA SoloRegister ==
  ASSUME SoloInv, HandleInv', NEW c \in Calls, register(c)
  PROVE  SoloInv'
<1> DEFINE h == next_drop
           t == call[c].topic
<1>1. /\ call[c] \in CallType /\ call \in [Calls -> CallType] /\ CallOK(call[c])
      /\ call[c].pc = "joining" /\ h \in Handles /\ t \in Topics /\ h \in Nat
      /\ DOMAIN drops \subseteq Handles /\ \A g \in DOMAIN drops : drops[g] \in Topics
  BY DEF SoloInv, HandleInv, Typed, TypedCalls, Named, register, Handles
<1>2. /\ phase = "up" /\ ~Hosted(t) /\ call[c].kind # "leave"
      /\ \A d \in Calls : d # c => call[d] = Idle
  BY <1>1, Alone DEF CallOK
<1>3. h \notin DOMAIN drops
  <2>1. ASSUME h \in DOMAIN drops PROVE FALSE
    <3> DEFINE r == Row(h, drops[h])
    <3>1. r \in RowType /\ r.handle = h /\ Live(r)
      BY <1>1, <2>1 DEF Row, RowType, Live, persisted_table
    <3> HIDE DEF r
    <3> QED BY <1>1, <1>2, <3>1 DEF SoloInv, HandleInv, Below
  <2> QED BY <2>1
<1>4. /\ drops' = [g \in DOMAIN drops \cup {h} |-> IF g = h THEN t ELSE drops[g]]
      /\ call' = [call EXCEPT ![c] = Persist(call[c].kind, h)] /\ left' = left \ {t}
      /\ UNCHANGED <<phase, rows, cur, members>>
  BY DEF register, files
<1>5. /\ call'[c].pc = "export" /\ call'[c].kind = call[c].kind
      /\ \A d \in Calls : d # c => call'[d] = Idle
  BY <1>1, <1>2, <1>4 DEF Persist, Idle
<1>6. CallOK(call[c])'
  BY <1>2, <1>5 DEF CallOK, Writing
<1>7. persisted_table \subseteq (persisted_table)' /\ (load_table)' = load_table
  BY <1>3, <1>4 DEF persisted_table, load_table
<1>8. \A x : Hosted(x)' => Hosted(x) \/ x = t
  BY <1>4 DEF Hosted
<1>9. OncePerTopic'
  <2>1. \A g, x \in DOMAIN drops' : drops'[g] = drops'[x] => g = x
    BY <1>2, <1>4 DEF SoloInv, OncePerTopic, Hosted
  <2> QED BY <1>2, <1>4, <1>7, <2>1 DEF SoloInv, OncePerTopic
<1>10. NeverCorrupt'
  BY <1>4 DEF SoloInv, NeverCorrupt
<1>11. Kept'
  <2>1. \A d \in Calls : call[d].pc # "closing"
    BY <1>1, <1>2 DEF Idle
  <2> QED BY <1>2, <1>4, <1>7, <2>1 DEF SoloInv, Kept
<1>12. Forgotten'
  BY <1>4, <1>7, <1>8 DEF SoloInv, Forgotten
<1> QED BY <1>2, <1>4, <1>5, <1>6, <1>9, <1>10, <1>11, <1>12, OneRuns DEF SoloInv

\* drop_leave: the entry goes, and with it the claim to its row.
LEMMA SoloLeave ==
  ASSUME Overlap = 1, SoloInv, HandleInv', NEW c \in Calls, NEW h \in Handles, drop_leave(c, h)
  PROVE  SoloInv'
<1>1. phase = "up" /\ h \in DOMAIN drops /\ \A d \in Calls : call[d] = Idle
  BY NoneRuns DEF drop_leave, SoloInv, HandleInv
<1>2. call \in [Calls -> CallType]
  BY DEF SoloInv, HandleInv, Typed, TypedCalls
<1>3. /\ DOMAIN drops' = DOMAIN drops \ {h} /\ \A g \in DOMAIN drops' : drops'[g] = drops[g]
      /\ members' = members \ {Row(h, drops[h])}
      /\ UNCHANGED <<phase, rows, cur, left>>
  BY DEF drop_leave, Restrict, files
<1>4. /\ call'[c].pc = "withdrawing" /\ call'[c].kind = "leave" /\ call'[c].handle = h
      /\ call'[c].topic = drops[h]
      /\ \A d \in Calls : d # c => call'[d] = Idle
  BY <1>1, <1>2 DEF drop_leave, CallType
<1>5. (load_table)' = load_table
      /\ \A r : r \in persisted_table /\ r # Row(h, drops[h]) => r \in (persisted_table)'
  BY <1>3 DEF persisted_table, load_table
<1>6. \A x : Hosted(x)' => Hosted(x) /\ x # drops[h]
  BY <1>1, <1>3 DEF Hosted, SoloInv, OncePerTopic
<1>7. CallOK(call[c])'
  BY <1>3, <1>4, <1>6 DEF CallOK, Writing
<1>8. OncePerTopic'
  BY <1>1, <1>3, <1>5 DEF SoloInv, OncePerTopic
<1>9. NeverCorrupt'
  BY <1>3 DEF SoloInv, NeverCorrupt
<1>10. Kept'
  <2>1. \A d \in Calls : call[d].pc # "closing"
    BY <1>1 DEF Idle
  <2> QED BY <1>1, <1>3, <1>5, <2>1 DEF SoloInv, Kept
<1>11. Forgotten'
  BY <1>3, <1>5, <1>6 DEF SoloInv, Forgotten
<1> QED BY <1>1, <1>3, <1>4, <1>7, <1>8, <1>9, <1>10, <1>11, OneRuns DEF SoloInv

\* remove_drop: the history goes while nobody has it open.
LEMMA SoloRemove ==
  ASSUME SoloInv, HandleInv', NEW c \in Calls, remove_drop(c)
  PROVE  SoloInv'
<1> DEFINE t == call[c].topic
           M == Moved(call, t, "tmp", "gone")
<1>1. /\ call[c] \in CallType /\ call \in [Calls -> CallType] /\ TypedCalls
      /\ CallOK(call[c]) /\ call[c].pc = "withdrawing" /\ t \in Topics /\ t \in Paths
      /\ cur \in [Paths -> FileType]
  BY DEF SoloInv, HandleInv, Typed, TypedCalls, Named, remove_drop, Paths
<1>2. /\ phase = "up" /\ call[c].kind = "leave" /\ t # Table
      /\ \A d \in Calls : d # c => call[d] = Idle
  BY <1>1, Alone, TableAssumption DEF CallOK, Table
<1>3. M \in [Calls -> CallType] /\ \A d \in Calls : M[d] = call[d]
  BY <1>1, <1>2, MovedCalls DEF Idle
<1>4. call' = [M EXCEPT ![c].pc = "table"]
  BY DEF remove_drop
<1> HIDE DEF M
<1>5. /\ call'[c].pc = "table" /\ call'[c].kind = "leave" /\ call'[c].handle = call[c].handle
      /\ call'[c].topic = t
      /\ \A d \in Calls : d # c => call'[d] = Idle
  BY <1>1, <1>2, <1>3, <1>4 DEF CallType
<1>6. /\ cur'[t] = Absent /\ \A p \in Paths : p # t => cur'[p] = cur[p]
      /\ UNCHANGED <<phase, drops, rows, members, left>>
  BY <1>1 DEF remove_drop
<1>7. (load_table)' = load_table /\ (persisted_table)' = persisted_table
  BY <1>2, <1>6 DEF load_table, persisted_table, Paths
<1>8. CallOK(call[c])'
  BY <1>1, <1>2, <1>5, <1>6 DEF CallOK, Writing, Hosted
<1>9. OncePerTopic'
  BY <1>6, <1>7 DEF SoloInv, OncePerTopic
<1>10. NeverCorrupt'
  BY <1>6 DEF SoloInv, NeverCorrupt, Absent, File
<1>11. Kept'
  <2>1. \A d \in Calls : call[d].pc # "closing"
    BY <1>1, <1>2 DEF Idle
  <2> QED BY <1>2, <1>6, <1>7, <2>1 DEF SoloInv, Kept
<1>12. Forgotten'
  <2>1. left \subseteq Paths
    BY DEF SoloInv, HandleInv, Typed, Paths
  <2> QED BY <1>6, <1>7, <2>1 DEF SoloInv, Forgotten, Hosted
<1> QED BY <1>2, <1>5, <1>6, <1>8, <1>9, <1>10, <1>11, <1>12, OneRuns DEF SoloInv

\* RenameTmp: a whole file takes the name, the table's or the history's.
LEMMA SoloRename ==
  ASSUME SoloInv, HandleInv', NEW c \in Calls, RenameTmp(c)
  PROVE  SoloInv'
<1> DEFINE k == call[c]
           p == k.path
           M == Moved(call, p, "cur", "gone")
<1>1. /\ k \in CallType /\ call \in [Calls -> CallType] /\ TypedCalls
      /\ CallOK(k) /\ k.pc = "rename" /\ k.topic \in Topics /\ p \in Paths
      /\ k.topic \in Paths /\ k.topic # Table
      /\ cur \in [Paths -> FileType] /\ left \subseteq Topics
  <2>1. /\ k \in CallType /\ call \in [Calls -> CallType] /\ TypedCalls
        /\ CallOK(k) /\ cur \in [Paths -> FileType] /\ left \subseteq Topics
    BY DEF SoloInv, HandleInv, Typed, TypedCalls
  <2>2. k.pc = "rename"
    BY DEF RenameTmp
  <2>3. k.topic \in Topics
    BY <2>1, <2>2 DEF TypedCalls, Named
  <2>4. p \in Paths
    BY <2>1 DEF CallType
  <2> QED BY <2>1, <2>2, <2>3, <2>4, TableAssumption DEF Paths, Table
<1>2. phase = "up" /\ \A d \in Calls : d # c => call[d] = Idle
  BY <1>1, Alone
<1>3. /\ tmp[p] = Content(k) /\ Content(k).state = "whole" /\ tmp[p] # Absent
      /\ p = Table => Content(k).table = k.table
      /\ p # Table => Content(k).offers = k.offers
  BY <1>1 DEF CallOK, Content, File, Absent
<1>4. M \in [Calls -> CallType] /\ \A d \in Calls : M[d] = call[d]
  BY <1>1, <1>2, MovedCalls DEF Idle
<1>5. /\ call' = [M EXCEPT ![c].pc = IF p = Table /\ k.kind # "leave" THEN "open" ELSE "saved",
                           ![c].path = k.topic, ![c].table = {}]
      /\ cur' = [cur EXCEPT ![p] = Content(k)]
      /\ UNCHANGED <<phase, drops, known, pending, rows, members, left>>
  BY <1>3 DEF RenameTmp
<1> HIDE DEF M
<1>6. /\ call'[c].pc = IF p = Table /\ k.kind # "leave" THEN "open" ELSE "saved"
      /\ call'[c].path = k.topic /\ call'[c].topic = k.topic /\ call'[c].kind = k.kind
      /\ call'[c].handle = k.handle /\ call'[c].offers = k.offers
      /\ \A d \in Calls : d # c => call'[d] = Idle
  BY <1>1, <1>2, <1>4, <1>5 DEF CallType
<1>7. /\ cur'[p] = Content(k) /\ \A q \in Paths : q # p => cur'[q] = cur[q]
      /\ (persisted_table)' = persisted_table
  BY <1>1, <1>5 DEF persisted_table
<1>8. (load_table)' = persisted_table
  <2>1. CASE p = Table
    BY <1>1, <1>3, <1>7, <2>1 DEF CallOK, Writing, load_table
  <2>2. CASE p # Table
    BY <1>1, <1>7, <2>2 DEF CallOK, Writing, load_table, Paths
  <2> QED BY <2>1, <2>2
<1>9. p = Table \/ (p = k.topic /\ k.kind # "leave")
  BY <1>1 DEF CallOK, Writing
<1>10. k.kind # "leave" => k.handle \in DOMAIN drops /\ k.topic = drops[k.handle]
  BY <1>1 DEF CallOK, Writing
<1> HIDE DEF k
<1>11. CallOK(call[c])'
  <2>1. CASE k.kind = "leave"
    <3>1. p = Table /\ call'[c].pc = "saved" /\ cur[k.topic] = Absent
      BY <1>1, <1>6, <1>9, <2>1 DEF CallOK, Writing
    <3>2. cur'[k.topic] = Absent
      BY <1>1, <1>7, <3>1
    <3> QED BY <1>1, <1>5, <1>6, <1>7, <1>8, <2>1, <3>1, <3>2 DEF CallOK, Writing, Hosted
  <2>2. CASE k.kind # "leave" /\ p = Table
    <3>1. call'[c].pc = "open"
      BY <1>6, <2>2
    <3> QED BY <1>1, <1>5, <1>6, <1>7, <1>8, <2>2, <3>1 DEF CallOK, Writing, Hosted
  <2>3. CASE k.kind # "leave" /\ p # Table
    <3>1. call'[c].pc = "saved" /\ p = k.topic /\ cur'[k.topic].offers = k.offers
      BY <1>3, <1>6, <1>7, <1>9, <2>3
    <3> QED BY <1>1, <1>5, <1>6, <1>7, <1>8, <2>3, <3>1 DEF CallOK, Writing, Hosted
  <2> QED BY <2>1, <2>2, <2>3
<1>12. OncePerTopic'
  <2>1. \A r, s \in persisted_table : r.topic = s.topic => r = s
    BY DEF persisted_table, Row, SoloInv, OncePerTopic
  <2>2. \A g, h \in DOMAIN drops' : drops'[g] = drops'[h] => g = h
    BY <1>5 DEF SoloInv, OncePerTopic
  <2> QED BY <1>2, <1>5, <1>8, <2>1, <2>2 DEF OncePerTopic
<1>13. NeverCorrupt'
  BY <1>1, <1>3, <1>7 DEF SoloInv, NeverCorrupt
<1>14. Kept'
  <2>1. \A d \in Calls : call[d].pc # "closing"
    BY <1>1, <1>2 DEF Idle, k
  <2>2. members \subseteq persisted_table
    BY <1>2, <2>1 DEF SoloInv, Kept
  <2> QED BY <1>5, <1>7, <1>8, <2>2 DEF Kept
<1>15. Forgotten'
  <2>1. ASSUME NEW x \in left PROVE cur'[x] = Absent /\ ~Hosted(x)' /\ \A r \in (load_table)' : r.topic # x
    <3>1. cur[x] = Absent /\ ~Hosted(x) /\ x \in Paths /\ x # Table
      BY <1>1, <2>1, TableAssumption DEF SoloInv, Forgotten, Paths, Table
    <3>2. x # p
      BY <1>9, <1>10, <3>1 DEF Hosted
    <3>3. \A r \in persisted_table : r.topic # x
      BY <3>1 DEF persisted_table, Row, Hosted
    <3>4. ~Hosted(x)'
      BY <1>5, <3>1 DEF Hosted
    <3> QED BY <1>7, <1>8, <3>1, <3>2, <3>3, <3>4
  <2> QED BY <1>5, <2>1 DEF Forgotten
<1> QED BY <1>2, <1>5, <1>6, <1>11, <1>12, <1>13, <1>14, <1>15, OneRuns DEF SoloInv

\* Saved: the reply makes a membership, or ends one.
LEMMA SoloSaved ==
  ASSUME SoloInv, HandleInv', NEW c \in Calls, Saved(c)
  PROVE  SoloInv'
<1> DEFINE k == call[c]
<1>1. /\ call \in [Calls -> CallType] /\ CallOK(k) /\ k.pc = "saved"
  BY DEF SoloInv, HandleInv, Typed, TypedCalls, Saved
<1>2. phase = "up" /\ \A d \in Calls : d # c => call[d] = Idle
  BY <1>1, Alone
<1>3. /\ call'[c] = Idle \/ (call'[c].pc = "shutdown" /\ call'[c].kind = "shutdown")
      /\ \A d \in Calls : d # c => call'[d] = Idle
  BY <1>1, <1>2 DEF Saved, Returned, Idle
<1>4. /\ UNCHANGED <<phase, drops, known, pending, rows, cur>>
      /\ members' = members \/ (k.handle \in DOMAIN drops
                                /\ members' = members \cup {Row(k.handle, drops[k.handle])})
      /\ left' = left \/ (k.kind = "leave" /\ left' = left \cup {k.topic})
  BY DEF Saved, Returned, files
<1>5. /\ (persisted_table)' = persisted_table /\ (load_table)' = load_table
      /\ load_table = persisted_table
  BY <1>1, <1>4 DEF persisted_table, load_table, CallOK
<1>6. CallOK(call[c])'
  BY <1>3 DEF CallOK, Writing, Idle
<1>7. OncePerTopic'
  BY <1>2, <1>4, <1>5 DEF SoloInv, OncePerTopic
<1>8. NeverCorrupt'
  BY <1>4 DEF SoloInv, NeverCorrupt
<1>9. Kept'
  <2>1. members' \subseteq persisted_table
    BY <1>4, <1>5 DEF SoloInv, Kept, persisted_table
  <2> QED BY <1>5, <2>1 DEF Kept
<1>10. Forgotten'
  <2>1. ASSUME k.kind = "leave"
        PROVE  cur[k.topic] = Absent /\ ~Hosted(k.topic) /\ \A r \in load_table : r.topic # k.topic
    <3>1. cur[k.topic] = Absent /\ ~Hosted(k.topic)
      BY <1>1, <2>1 DEF CallOK
    <3>2. \A r \in persisted_table : r.topic # k.topic
      BY <3>1 DEF persisted_table, Row, Hosted
    <3> QED BY <1>5, <3>1, <3>2
  <2>2. ASSUME NEW x \in left' PROVE cur[x] = Absent /\ ~Hosted(x) /\ \A r \in load_table : r.topic # x
    BY <1>4, <2>1, <2>2 DEF SoloInv, Forgotten
  <2>3. \A x : Hosted(x)' <=> Hosted(x)
    BY <1>4 DEF Hosted
  <2> QED BY <1>4, <1>5, <2>2, <2>3 DEF Forgotten
<1> QED BY <1>2, <1>3, <1>4, <1>6, <1>7, <1>8, <1>9, <1>10, OneRuns DEF SoloInv

\* Drain empties the table in memory; nothing is written after it.
LEMMA SoloDrain ==
  ASSUME SoloInv, HandleInv', NEW c \in Calls, Drain(c)
  PROVE  SoloInv'
<1>1. /\ call \in [Calls -> CallType] /\ call[c] \in CallType
      /\ CallOK(call[c]) /\ call[c].pc = "shutdown"
  BY DEF SoloInv, HandleInv, Typed, TypedCalls, Drain
<1>2. phase = "up" /\ call[c].kind = "shutdown" /\ \A d \in Calls : d # c => call[d] = Idle
  BY <1>1, Alone DEF CallOK
<1>3. /\ call'[c].pc = "closing" /\ call'[c].kind = "shutdown"
      /\ \A d \in Calls : d # c => call'[d] = Idle
  BY <1>1, <1>2 DEF Drain, Goto, CallType
<1>4. UNCHANGED <<phase, rows, cur, members, left>> /\ DOMAIN drops' = {}
  BY DEF Drain, NoDrops, files
<1>5. CallOK(call[c])'
  BY <1>3 DEF CallOK, Writing
<1>6. OncePerTopic'
  BY <1>2, <1>4 DEF SoloInv, OncePerTopic, load_table
<1>7. NeverCorrupt'
  BY <1>4 DEF SoloInv, NeverCorrupt
<1>8. Kept'
  BY <1>3, <1>4 DEF SoloInv, Kept, load_table
<1>9. Forgotten'
  BY <1>4 DEF SoloInv, Forgotten, Hosted, load_table
<1> QED BY <1>2, <1>3, <1>4, <1>5, <1>6, <1>7, <1>8, <1>9, OneRuns DEF SoloInv

\* A state of the process with no activity is covered by what it remembers.
LEMMA NobodyRuns ==
  ASSUME \A d \in Calls : call'[d] = Idle
  PROVE  Solo' /\ \A d \in Calls : CallOK(call[d])'
<1>1. ASSUME NEW d \in Calls PROVE CallOK(call[d])'
  <2>1. call'[d] = Idle
    OBVIOUS
  <2> QED BY <2>1 DEF CallOK, Idle, Writing
<1> QED BY <1>1 DEF Solo

\* The end of a process leaves the disk and the history as they are.
LEMMA SoloDies == ASSUME SoloInv, HandleInv', Dies PROVE SoloInv'
<1>1. /\ phase' = "down" /\ DOMAIN drops' = {} /\ UNCHANGED <<cur, members, left>>
      /\ \A d \in Calls : call'[d] = Idle
  BY DEF Dies, NoDrops, files
<1>2. Solo' /\ \A d \in Calls : CallOK(call[d])'
  BY <1>1, NobodyRuns
<1>3. OncePerTopic' /\ NeverCorrupt'
  BY <1>1 DEF SoloInv, OncePerTopic, load_table, NeverCorrupt
<1>4. Kept' /\ Forgotten'
  BY <1>1 DEF SoloInv, Kept, Forgotten, Hosted, load_table
<1> QED BY <1>2, <1>3, <1>4 DEF SoloInv

\* The restore rebuilds in memory what the disk has.
LEMMA SoloRestore ==
  ASSUME SoloInv, HandleInv',
         \/ \E r \in rows : RestoreRow(r) \/ RestoreSkips(r)
         \/ RestoreDone \/ Restart
  PROVE  SoloInv'
<1>1. \A d \in Calls : call[d] = Idle
  BY DEF RestoreRow, RestoreSkips, RestoreDone, Restart, SoloInv, Solo
<1>2. call' = call /\ UNCHANGED <<cur, left>>
  BY DEF RestoreRow, RestoreSkips, RestoreDone, Restart, files
<1>3. Solo' /\ \A d \in Calls : CallOK(call[d])'
  BY <1>1, <1>2, NobodyRuns
<1>4. NeverCorrupt' /\ (load_table)' = load_table
  BY <1>2 DEF SoloInv, NeverCorrupt, load_table
<1>5. \A d \in Calls : call[d].pc # "closing"
  BY <1>1 DEF Idle
<1>6. ASSUME NEW r \in rows, RestoreRow(r) PROVE SoloInv'
  <2>1. /\ drops' = [g \in DOMAIN drops \cup {r.handle} |->
                       IF g = r.handle THEN r.topic ELSE drops[g]]
        /\ rows' = rows \ {r} /\ members' = members \cup {r} /\ phase = "restoring" /\ phase' = phase
    BY <1>6 DEF RestoreRow
  <2>2. r \in load_table /\ r \in RowType /\ r = Row(r.handle, r.topic) /\ rows \subseteq load_table
    BY <2>1 DEF SoloInv, HandleInv, Typed, OncePerTopic, Row, RowType
  <2>3. (persisted_table)' \subseteq load_table
    <3>1. persisted_table \subseteq load_table
      BY <2>1 DEF SoloInv, OncePerTopic
    <3>2. (persisted_table)' \subseteq persisted_table \cup {r}
      BY <2>1, <2>2 DEF persisted_table
    <3> QED BY <2>2, <3>1, <3>2
  <2>4. r.handle \in DOMAIN drops => drops[r.handle] = r.topic
    <3>1. ASSUME r.handle \in DOMAIN drops PROVE drops[r.handle] = r.topic
      <4> DEFINE s == Row(r.handle, drops[r.handle])
      <4>1. s \in RowType /\ s.handle = r.handle /\ s.topic = drops[r.handle]
        BY <2>2, <3>1 DEF SoloInv, HandleInv, Typed, Row, RowType
      <4>2. Live(r) /\ Live(s)
        BY <3>1 DEF Live, persisted_table
      <4> QED BY <2>2, <4>1, <4>2 DEF SoloInv, HandleInv, OneTopic
    <3> QED BY <3>1
  <2>5. persisted_table \cup {r} \subseteq (persisted_table)'
    BY <2>1, <2>2, <2>4 DEF persisted_table
  <2>6. OncePerTopic'
    <3>1. ASSUME NEW g \in DOMAIN drops', NEW h \in DOMAIN drops', drops'[g] = drops'[h]
          PROVE  g = h
      <4>1. Row(g, drops'[g]) \in load_table /\ Row(h, drops'[h]) \in load_table
        BY <2>3 DEF persisted_table
      <4>2. Row(g, drops'[g]) = Row(h, drops'[h])
        BY <3>1, <4>1 DEF SoloInv, OncePerTopic, Row
      <4> QED BY <4>2 DEF Row
    <3> QED BY <1>4, <2>1, <2>2, <2>3, <3>1 DEF SoloInv, OncePerTopic
  <2>7. Kept'
    <3>1. members \subseteq persisted_table
      BY <1>5, <2>1 DEF SoloInv, Kept
    <3> QED BY <1>4, <2>1, <2>2, <2>5, <3>1 DEF SoloInv, Kept
  <2>8. Forgotten'
    <3>1. ASSUME NEW x, Hosted(x)' PROVE \E s \in load_table : s.topic = x
      <4>1. PICK h \in DOMAIN drops' : drops'[h] = x
        BY <3>1 DEF Hosted
      <4>2. Row(h, drops'[h]) \in load_table
        BY <2>3 DEF persisted_table
      <4>3. Row(h, drops'[h]).topic = x
        BY <4>1 DEF Row
      <4> QED BY <4>2, <4>3
    <3> QED BY <1>2, <1>4, <3>1 DEF SoloInv, Forgotten
  <2> QED BY <1>3, <1>4, <2>6, <2>7, <2>8 DEF SoloInv
<1>7. ASSUME NEW r \in rows, RestoreSkips(r) PROVE SoloInv'
  <2>1. rows' \subseteq rows /\ UNCHANGED <<phase, drops, members>>
    BY <1>7 DEF RestoreSkips
  <2>2. (persisted_table)' = persisted_table /\ \A x : Hosted(x)' <=> Hosted(x)
    BY <2>1 DEF persisted_table, Hosted
  <2> QED BY <1>2, <1>3, <1>4, <1>5, <2>1, <2>2 DEF SoloInv, OncePerTopic, Kept, Forgotten
<1>8. CASE RestoreDone
  <2>1. phase = "restoring" /\ phase' = "up" /\ UNCHANGED <<drops, members>>
    BY <1>8 DEF RestoreDone
  <2>2. (persisted_table)' = persisted_table /\ \A x : Hosted(x)' <=> Hosted(x)
    BY <2>1 DEF persisted_table, Hosted
  <2> QED BY <1>2, <1>3, <1>4, <1>5, <2>1, <2>2 DEF SoloInv, OncePerTopic, Kept, Forgotten
<1>9. CASE Restart
  <2>1. phase = "down" /\ rows' = load_table /\ members' = {} /\ drops' = drops
    BY <1>9 DEF Restart
  <2>2. DOMAIN drops' = {}
    BY <2>1 DEF SoloInv, HandleInv, Started, NoDrops
  <2>3. (persisted_table)' = {} /\ \A x : ~Hosted(x)'
    BY <2>2 DEF persisted_table, Hosted
  <2> QED BY <1>2, <1>3, <1>4, <2>1, <2>2, <2>3 DEF SoloInv, OncePerTopic, Kept, Forgotten
<1> QED BY <1>6, <1>7, <1>8, <1>9

\* Every step keeps the invariant of one activity at a time.
LEMMA SoloStep == ASSUME Overlap = 1, SoloInv, [Next]_vars PROVE SoloInv'
<1>1. HandleInv'
  BY HandleStep DEF SoloInv
<1>2. ASSUME UNCHANGED vars PROVE SoloInv'
  <2>1. UNCHANGED <<phase, drops, known, pending, call, rows, cur, tmp, members, left>>
    BY <1>2 DEF vars, files
  <2>2. /\ (persisted_table)' = persisted_table /\ (load_table)' = load_table
        /\ \A x : Hosted(x)' <=> Hosted(x)
    BY <2>1 DEF persisted_table, load_table, Hosted
  <2>3. \A d \in Calls : CallOK(call[d])'
    BY <2>1, <2>2 DEF SoloInv, CallOK, Content
  <2> QED BY <1>1, <2>1, <2>2, <2>3
          DEF SoloInv, Solo, OncePerTopic, NeverCorrupt, Kept, Forgotten
<1>3. ASSUME Next PROVE SoloInv'
  <2>1. ASSUME (\E c \in Calls : Stop(c)) \/ Crash PROVE SoloInv'
    BY <1>1, <2>1, SoloDies DEF Stop, Crash
  <2> QED BY <1>1, <1>3, <2>1, SoloStarts, SoloSteps, SoloEvent, SoloRegister, SoloLeave,
             SoloRemove, SoloRename, SoloSaved, SoloDrain, SoloRestore, Zenon
          DEF Next, CallStep, PersistStep
<1> QED BY <1>2, <1>3

\* The first state has no drop, no file and no activity.
LEMMA InitSolo == Init => SoloInv
<1> SUFFICES ASSUME Init PROVE SoloInv
  OBVIOUS
<1>1. HandleInv
  BY InitHandles
<1>2. \A c \in Calls : call[c] = Idle /\ CallOK(call[c])
  BY IdleOK DEF Init
<1>3. Absent.table = {} /\ Absent.state = "absent" /\ Table \in Paths /\ DOMAIN drops = {}
  BY DEF Absent, File, Paths, Init, NoDrops
<1>4. OncePerTopic /\ NeverCorrupt
  BY <1>3 DEF Init, OncePerTopic, NeverCorrupt, load_table
<1>5. Kept /\ Forgotten
  BY DEF Init, Kept, Forgotten
<1> QED BY <1>1, <1>2, <1>4, <1>5 DEF SoloInv, Solo

\* The invariant holds in every reachable state when activities take turns.
LEMMA SoloAlways == ASSUME Overlap = 1 PROVE Spec => []SoloInv
<1>1. SoloInv /\ [Next]_vars => SoloInv'
  BY SoloStep
<1> QED BY InitSolo, <1>1, PTL DEF Spec

\* "a crash can lose a beat, never corrupt": with one activity at a time what
\* is under a file's name is whole, wherever a crash falls.
THEOREM FilesNeverCorrupt == ASSUME Overlap = 1 PROVE Spec => []NeverCorrupt
<1>1. SoloInv => NeverCorrupt
  BY DEF SoloInv
<1> QED BY <1>1, SoloAlways, PTL

\* A confirmed drop is in the table a restart will read, whatever crash falls
\* between which file operations.
THEOREM MembershipIsSafe == ASSUME Overlap = 1 PROVE Spec => []MembershipSurvives
<1>1. SoloInv => MembershipSurvives
  BY DEF SoloInv, Kept, MembershipSurvives
<1> QED BY <1>1, SoloAlways, PTL

\* Once drop.leave has returned, neither a late write nor a restart brings the
\* row or the history back.
THEOREM LeaveIsFinal == ASSUME Overlap = 1 PROVE Spec => []LeftIsForgotten
<1>1. SoloInv => LeftIsForgotten
  BY DEF SoloInv, Forgotten, LeftIsForgotten
<1> QED BY <1>1, SoloAlways, PTL

---------------------------------------------------------------------------

\* A resting drop was resting before and is as it was, or has just been saved.
LEMMA QuietKept ==
  ASSUME Quiet,
         \A h \in DOMAIN drops' :
           Resting(h)' =>
             \/ /\ h \in DOMAIN drops /\ Resting(h) /\ drops'[h] = drops[h]
                /\ known'[h] = known[h] /\ cur'[drops[h]] = cur[drops[h]]
             \/ cur'[drops'[h]].offers = known'[h]
  PROVE  Quiet'
BY DEF Quiet

\* The starts of the calls keep quiet drops saved.
LEMMA QuietStarts ==
  ASSUME Overlap = 1, SoloInv, Quiet, NEW c \in Calls,
         \/ \E t \in Topics : drop_create(c, t) \/ drop_join(c, t)
         \/ \E h \in Handles : \/ JoinAgain(c, h) \/ drop_leave(c, h)
                               \/ offer_publish(c, h)
         \/ \E h \in pending : DebounceFires(c, h)
         \/ shutdown(c)
  PROVE  Quiet'
<1>1. MayStart(c)
  BY DEF drop_create, drop_join, JoinAgain, drop_leave, offer_publish, DebounceFires, shutdown
<1>2. \A d \in Calls : call[d] = Idle
  BY <1>1, NoneRuns DEF SoloInv, HandleInv
<1>3. call \in [Calls -> CallType] /\ known \in [Handles -> 0..MaxOffers]
  BY DEF SoloInv, HandleInv, Typed, TypedCalls
<1>4. \A h : h \notin pending => Resting(h)
  BY <1>2 DEF Resting
<1>5. ASSUME NEW t \in Topics, drop_create(c, t) \/ drop_join(c, t) PROVE Quiet'
  <2>1. PICK kind \in {"create", "join"} : StartJoin(c, kind, t)
    BY <1>5 DEF drop_create, drop_join
  <2>2. UNCHANGED <<drops, known, pending, cur>>
    BY <2>1 DEF StartJoin, files
  <2> QED BY <1>4, <2>2, QuietKept DEF Resting
<1>6. ASSUME NEW g, JoinAgain(c, g) \/ offer_publish(c, g) \/ DebounceFires(c, g) PROVE Quiet'
  <2>1. call' = [call EXCEPT ![c] = Persist("persist", g)]
    BY <1>6 DEF JoinAgain, offer_publish, DebounceFires
  <2>2. call'[c] # Idle /\ call'[c].handle = g
    BY <1>3, <2>1 DEF Persist, Idle
  <2>3. \A h \in DOMAIN drops' : Resting(h)' => h # g /\ h \notin pending'
    BY <2>2 DEF Resting
  <2>4. /\ UNCHANGED <<drops, cur>> /\ \A h : h # g /\ h \notin pending' => h \notin pending
        /\ \A h \in Handles : h # g => known'[h] = known[h]
    BY <1>3, <1>6 DEF JoinAgain, offer_publish, DebounceFires, files
  <2>5. DOMAIN drops \subseteq Handles
    BY DEF SoloInv, HandleInv, Typed
  <2> QED BY <1>4, <2>3, <2>4, <2>5, QuietKept
<1>7. ASSUME NEW g \in Handles, drop_leave(c, g) PROVE Quiet'
  <2>1. /\ UNCHANGED <<known, pending, cur>> /\ DOMAIN drops' \subseteq DOMAIN drops
        /\ \A h \in DOMAIN drops' : drops'[h] = drops[h]
    BY <1>7 DEF drop_leave, Restrict, files
  <2>2. \A h : Resting(h)' => h \notin pending
    BY <2>1 DEF Resting
  <2> QED BY <1>4, <2>1, <2>2, QuietKept
<1>8. CASE shutdown(c)
  <2>1. UNCHANGED <<drops, known, pending, cur>>
    BY <1>8 DEF shutdown, files
  <2>2. \A h : Resting(h)' => h \notin pending
    BY <2>1 DEF Resting
  <2> QED BY <1>4, <2>1, <2>2, QuietKept
<1> QED BY <1>5, <1>6, <1>7, <1>8

\* The steps of the calls keep quiet drops saved: a call that ends leaves its
\* drop saved or scheduled again.
LEMMA QuietSteps ==
  ASSUME SoloInv, Quiet, NEW c \in Calls,
         \/ JoinFails(c) \/ register(c) \/ remove_drop(c) \/ PersistStep(c)
         \/ \E h \in Handles : ShutdownPersists(c, h)
  PROVE  Quiet'
<1> DEFINE k == call[c]
<1>1. /\ call \in [Calls -> CallType] /\ CallOK(k) /\ k \in CallType /\ TypedCalls
      /\ known \in [Handles -> 0..MaxOffers] /\ cur \in [Paths -> FileType]
      /\ DOMAIN drops \subseteq Handles /\ \A h \in DOMAIN drops : drops[h] \in Topics
  BY DEF SoloInv, HandleInv, Typed, TypedCalls
<1>2. k.pc # "idle"
  BY DEF JoinFails, register, remove_drop, PersistStep, export_history, SnapshotTable, OpenTmp,
         WriteTmp, RenameTmp, Saved, ShutdownPersists
<1>3. \A d \in Calls : d # c => call[d] = Idle
  BY <1>2, Alone
<1>4. \A h : h \notin pending /\ k.handle # h /\ k.kind # "shutdown" => Resting(h)
  BY <1>3 DEF Resting
<1>5. \A h : Resting(h)' => /\ h \notin pending'
                            /\ call'[c] # Idle => call'[c].handle # h /\ call'[c].kind # "shutdown"
  BY DEF Resting
<1>6. \A m : m.pc # "idle" => m # Idle
  BY DEF Idle
<1>7. CASE JoinFails(c)
  <2>1. k.handle = 0 /\ k.kind # "shutdown"
    BY <1>1, <1>7 DEF JoinFails, CallOK
  <2>2. UNCHANGED <<drops, known, pending, cur>>
    BY <1>7 DEF JoinFails, files
  <2>3. \A h \in DOMAIN drops : h # 0
    BY <1>1 DEF Handles
  <2> QED BY <1>4, <1>5, <2>1, <2>2, <2>3, QuietKept
<1>8. CASE register(c)
  <2>1. k.handle = 0 /\ k.kind # "shutdown" /\ next_drop \in Handles
    BY <1>1, <1>8 DEF register, CallOK
  <2>2. /\ drops' = [g \in DOMAIN drops \cup {next_drop} |->
                       IF g = next_drop THEN k.topic ELSE drops[g]]
        /\ known' = [known EXCEPT ![next_drop] = 0]
        /\ call' = [call EXCEPT ![c] = Persist(k.kind, next_drop)]
        /\ UNCHANGED <<pending, cur>>
    BY <1>8 DEF register, files
  <2>3. call'[c].pc = "export" /\ call'[c].handle = next_drop
    BY <1>1, <2>2 DEF Persist, Idle
  <2>4. \A h \in DOMAIN drops : h # 0
    BY <1>1 DEF Handles
  <2>5. ASSUME NEW h \in DOMAIN drops', Resting(h)'
        PROVE  /\ h \in DOMAIN drops /\ Resting(h) /\ drops'[h] = drops[h]
               /\ known'[h] = known[h] /\ cur'[drops[h]] = cur[drops[h]]
    <3>1. h # next_drop /\ h \notin pending
      BY <1>5, <1>6, <2>2, <2>3, <2>5
    <3>2. h \in DOMAIN drops /\ drops'[h] = drops[h]
      BY <2>2, <3>1
    <3>3. known'[h] = known[h]
      BY <1>1, <2>2, <3>1, <3>2
    <3> QED BY <1>4, <2>1, <2>2, <2>4, <3>1, <3>2, <3>3
  <2> QED BY <2>5, QuietKept
<1>9. ASSUME call'[c].pc # "idle", call'[c].handle = k.handle, call'[c].kind = k.kind,
             UNCHANGED <<drops, known, pending>>,
             \A h \in DOMAIN drops : h # k.handle => cur'[drops[h]] = cur[drops[h]]
      PROVE  Quiet'
  BY <1>4, <1>5, <1>6, <1>9, QuietKept
<1>10. CASE remove_drop(c)
  <2> DEFINE M == Moved(call, k.topic, "tmp", "gone")
  <2>1. M \in [Calls -> CallType] /\ M[c] = k
    BY <1>1, <1>10, MovedCalls DEF remove_drop
  <2>2. call' = [M EXCEPT ![c].pc = "table"]
    BY <1>10 DEF remove_drop
  <2> HIDE DEF M
  <2>3. call'[c].pc = "table" /\ call'[c].handle = k.handle /\ call'[c].kind = k.kind
    BY <1>1, <2>1, <2>2 DEF CallType
  <2>4. ~Hosted(k.topic)
    BY <1>1, <1>10 DEF CallOK, remove_drop
  <2>5. \A h \in DOMAIN drops : cur'[drops[h]] = cur[drops[h]]
    BY <1>1, <1>10, <2>4 DEF remove_drop, Hosted, Paths
  <2> QED BY <1>9, <1>10, <2>3, <2>5 DEF remove_drop
<1>11. ASSUME Returned(c), UNCHANGED <<drops, known, pending, cur>>,
              k.handle \in DOMAIN drops /\ k.handle \notin pending =>
                cur[drops[k.handle]].offers = known[k.handle]
       PROVE  Quiet'
  <2>1. k.kind = "shutdown" => call'[c].pc = "shutdown" /\ call'[c].kind = "shutdown"
    BY <1>1, <1>11 DEF Returned, Idle
  <2>2. \A h : Resting(h)' => k.kind # "shutdown" /\ h \notin pending
    BY <1>5, <1>6, <1>11, <2>1
  <2> QED BY <1>4, <1>11, <2>2, QuietKept
<1>12. CASE export_history(c)
  <2>1. CASE k.handle \in DOMAIN drops
    <3>1. call'[c].pc = "table" /\ call'[c].handle = k.handle /\ call'[c].kind = k.kind
      BY <1>1, <1>12, <2>1 DEF export_history, CallType
    <3>2. UNCHANGED <<drops, known, pending, cur>>
      BY <1>12, <2>1 DEF export_history, files
    <3> QED BY <1>9, <3>1, <3>2
  <2>2. CASE k.handle \notin DOMAIN drops
    BY <1>11, <1>12, <2>2 DEF export_history, files
  <2> QED BY <2>1, <2>2
<1>13. CASE SnapshotTable(c)
  <2>1. call'[c].pc = "open" /\ call'[c].handle = k.handle /\ call'[c].kind = k.kind
    BY <1>1, <1>13 DEF SnapshotTable, CallType
  <2>2. UNCHANGED <<drops, known, pending, cur>>
    BY <1>13 DEF SnapshotTable, files
  <2> QED BY <1>9, <2>1, <2>2
<1>14. CASE OpenTmp(c)
  <2>1. call'[c].pc = "write" /\ call'[c].handle = k.handle /\ call'[c].kind = k.kind
    BY <1>1, <1>14 DEF OpenTmp, CallType
  <2>2. UNCHANGED <<drops, known, pending, cur>>
    BY <1>14 DEF OpenTmp
  <2> QED BY <1>9, <2>1, <2>2
<1>15. CASE WriteTmp(c)
  <2>1. /\ call'[c].pc = "rename" /\ call'[c].handle = k.handle /\ call'[c].kind = k.kind
        /\ k.pc = "write"
    BY <1>1, <1>15 DEF WriteTmp, CallType
  <2>2. k.fd = "tmp"
    BY <1>1, <2>1 DEF CallOK
  <2>3. UNCHANGED <<drops, known, pending, cur>>
    BY <1>15, <2>2 DEF WriteTmp
  <2> QED BY <1>9, <2>1, <2>3
<1>16. CASE RenameTmp(c)
  <2> DEFINE p == k.path
             M == IF tmp[p] # Absent THEN Moved(call, p, "cur", "gone") ELSE call
             pc == IF p = Table /\ k.kind # "leave" THEN "open" ELSE "saved"
  <2>1. M \in [Calls -> CallType] /\ M[c] = k /\ k.pc = "rename"
    BY <1>1, <1>16, MovedCalls DEF RenameTmp
  <2>2. call' = [M EXCEPT ![c].pc = pc, ![c].path = k.topic, ![c].table = {}]
    BY <1>16 DEF RenameTmp
  <2>3. pc \in {"open", "saved"}
    OBVIOUS
  <2> HIDE DEF M, pc
  <2>4. call'[c].pc = pc /\ call'[c].handle = k.handle /\ call'[c].kind = k.kind
    BY <1>1, <2>1, <2>2 DEF CallType
  <2>5. /\ UNCHANGED <<drops, known, pending>>
        /\ cur' = cur \/ cur' = [cur EXCEPT ![p] = tmp[p]]
    BY <1>16 DEF RenameTmp
  <2>6. p = Table \/ (k.handle \in DOMAIN drops /\ p = drops[k.handle])
    BY <1>1, <2>1 DEF CallOK, Writing
  <2>7. \A h \in DOMAIN drops : h # k.handle => drops[h] # p /\ drops[h] \in Paths
    BY <1>1, <2>6, TableAssumption DEF SoloInv, OncePerTopic, Paths, Table
  <2>8. \A h \in DOMAIN drops : h # k.handle => cur'[drops[h]] = cur[drops[h]]
    BY <1>1, <2>5, <2>7
  <2> QED BY <1>9, <2>3, <2>4, <2>5, <2>8
<1>17. CASE Saved(c)
  <2>1. k.handle \in DOMAIN drops /\ k.handle \notin pending =>
          cur[drops[k.handle]].offers = known[k.handle]
    BY <1>1, <1>17 DEF Saved, CallOK
  <2> QED BY <1>11, <1>17, <2>1 DEF Saved, files
<1>18. ASSUME NEW h \in Handles, ShutdownPersists(c, h) PROVE Quiet'
  <2>1. call'[c].pc = "export" /\ call'[c].kind = k.kind /\ k.pc = "shutdown"
    BY <1>1, <1>18 DEF ShutdownPersists, CallType
  <2>2. k.kind = "shutdown"
    BY <1>1, <2>1 DEF CallOK
  <2>3. \A g : ~Resting(g)'
    BY <1>5, <1>6, <2>1, <2>2
  <2> QED BY <2>3, QuietKept
<1> QED BY <1>7, <1>8, <1>10, <1>12, <1>13, <1>14, <1>15, <1>16, <1>17, <1>18 DEF PersistStep

\* Events, the restore and the ends of a process keep quiet drops saved; the
\* restore replays the whole file when no drop is sealed.
LEMMA QuietRest ==
  ASSUME Sealed = {}, SoloInv, Quiet,
         \/ \E c \in Calls : Drain(c) \/ Stop(c)
         \/ \E h \in Handles, n \in {0, 1} : on_session_event(h, n)
         \/ \E r \in rows : RestoreRow(r) \/ RestoreSkips(r)
         \/ RestoreDone \/ Restart \/ Crash
  PROVE  Quiet'
<1>1. /\ known \in [Handles -> 0..MaxOffers] /\ DOMAIN drops \subseteq Handles
      /\ rows \subseteq RowType
  BY DEF SoloInv, HandleInv, Typed
<1>2. ASSUME NEW c \in Calls, Drain(c) \/ Stop(c) PROVE Quiet'
  <2>1. DOMAIN drops' = {}
    BY <1>2 DEF Drain, Stop, Dies, NoDrops
  <2> QED BY <2>1 DEF Quiet
<1>3. CASE Crash
  <2>1. DOMAIN drops' = {}
    BY <1>3 DEF Crash, Dies, NoDrops
  <2> QED BY <2>1 DEF Quiet
<1>4. ASSUME NEW g \in Handles, NEW n \in {0, 1}, on_session_event(g, n) PROVE Quiet'
  <2>1. /\ UNCHANGED <<drops, call, cur>> /\ pending' = pending \cup {g}
        /\ \A h \in Handles : h # g => known'[h] = known[h]
    BY <1>1, <1>4 DEF on_session_event, schedule_persist, files
  <2>2. \A h : Resting(h)' => h # g /\ Resting(h)
    BY <2>1 DEF Resting
  <2> QED BY <1>1, <2>1, <2>2, QuietKept
<1>5. ASSUME NEW r \in rows, RestoreRow(r) PROVE Quiet'
  <2>1. /\ drops' = [g \in DOMAIN drops \cup {r.handle} |->
                       IF g = r.handle THEN r.topic ELSE drops[g]]
        /\ known' = [known EXCEPT ![r.handle] = Replayed(r.topic)]
        /\ UNCHANGED <<pending, call, cur>>
    BY <1>5 DEF RestoreRow, files
  <2>2. r.handle \in Handles /\ Replayed(r.topic) = cur[r.topic].offers
    BY <1>1 DEF RowType, Replayed, load_frames
  <2>3. \A h : Resting(h)' => Resting(h)
    BY <2>1 DEF Resting
  <2>4. ASSUME NEW h \in DOMAIN drops', Resting(h)'
        PROVE  \/ /\ h \in DOMAIN drops /\ Resting(h) /\ drops'[h] = drops[h]
                  /\ known'[h] = known[h] /\ cur'[drops[h]] = cur[drops[h]]
               \/ cur'[drops'[h]].offers = known'[h]
    <3>1. CASE h = r.handle
      BY <1>1, <2>1, <2>2, <3>1
    <3>2. CASE h # r.handle
      BY <1>1, <2>1, <2>2, <2>3, <2>4, <3>2
    <3> QED BY <3>1, <3>2
  <2> QED BY <2>4, QuietKept
<1>6. ASSUME (\E r \in rows : RestoreSkips(r)) \/ RestoreDone \/ Restart PROVE Quiet'
  <2>1. UNCHANGED <<drops, known, pending, call, cur>>
    BY <1>6 DEF RestoreSkips, RestoreDone, Restart, files
  <2> QED BY <2>1 DEF Quiet, Resting
<1> QED BY <1>2, <1>3, <1>4, <1>5, <1>6

\* Writes are coalesced but none is lost, with one activity at a time and
\* public drops: a drop with no write scheduled or under way has its whole
\* history on disk.
THEOREM QuietDropsAreSaved ==
  ASSUME Overlap = 1, Sealed = {}
  PROVE  Spec => []QuietMeansSaved
<1>1. Init => Quiet
  BY DEF Init, Quiet, NoDrops
<1>2. SoloInv /\ Quiet /\ [Next]_vars => Quiet'
  <2> SUFFICES ASSUME SoloInv, Quiet, [Next]_vars PROVE Quiet'
    OBVIOUS
  <2>1. ASSUME UNCHANGED vars PROVE Quiet'
    BY <2>1 DEF vars, files, Quiet, Resting
  <2>2. ASSUME Next PROVE Quiet'
    BY <2>2, QuietStarts, QuietSteps, QuietRest, Zenon DEF Next, CallStep
  <2> QED BY <2>1, <2>2
<1>3. Quiet => QuietMeansSaved
  BY DEF Quiet, QuietMeansSaved, Resting, Active, load_frames
<1> QED BY <1>1, <1>2, <1>3, SoloAlways, PTL DEF Spec
=============================================================================
