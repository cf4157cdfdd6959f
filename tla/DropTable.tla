----------------------------- MODULE DropTable -----------------------------
(***************************************************************************)
(* The daemon's drop table and its files (iroh-drop-daemon, service.rs and *)
(* persist.rs): API calls, debounced writes, shutdown and the restore of a *)
(* starting daemon work on one table in memory and one directory on disk.  *)
(* Every lock, await and file operation ends a step; the process may die   *)
(* after any of them.  The network and the disk's own errors are external: *)
(* a join may fail, a write does not.                                      *)
(***************************************************************************)
EXTENDS Integers, FiniteSets, FiniteSetsExt, Functions

CONSTANTS
  Topics,
  Sealed,      \* the topics of private drops
  Calls,       \* slots for API calls, debounce tasks and the shutdown
  Overlap,     \* how many of them, and of the restore, run at once
  MaxHandle,   \* bound: handles d1, d2, ... ever given out
  MaxOffers,   \* bound: offers a drop's history ever holds
  MaxCrashes   \* bound: crashes

ASSUME TableAssumption ==
  /\ IsFiniteSet(Topics) /\ "drops.json" \notin Topics /\ Sealed \subseteq Topics
  /\ IsFiniteSet(Calls)
  /\ Overlap \in Nat \ {0} /\ MaxHandle \in Nat /\ MaxOffers \in Nat /\ MaxCrashes \in Nat

VARIABLES
  phase,      \* "down", "restoring" or "up"
  drops,      \* drops[h]: the topic of the entry with handle h
  known,      \* known[h]: offers in the retained history of h's session
  next_drop,
  pending,    \* persist_pending
  call,       \* call[c]: where the activity in slot c is
  rows,       \* rows of the loaded table still to restore
  top,        \* max_handle of restore_drops
  cur, tmp,   \* what is under each file's name and its temporary name
  members,    \* rows the daemon has confirmed and was not asked to leave (history)
  left,       \* topics whose drop.leave has returned (history)
  crashes

files == <<cur, tmp>>
vars == <<phase, drops, known, next_drop, pending, call, rows, top, files,
          members, left, crashes>>

Handles == 1..MaxHandle
Table == "drops.json"
Paths == {Table} \cup Topics
Idle == [pc |-> "idle", kind |-> "none", handle |-> 0, topic |-> "none", offers |-> 0,
         path |-> Table, table |-> {}, fd |-> "none", todo |-> {}]
NoDrops == [h \in {} |-> 0]

\* What a file name leads to; an empty or torn file does not parse.
File(state, tbl, offers) == [state |-> state, table |-> tbl, offers |-> offers]
Absent == File("absent", {}, 0)
Empty == File("empty", {}, 0)
Torn == File("torn", {}, 0)

Init ==
  /\ phase = "down" /\ drops = NoDrops /\ known = [h \in Handles |-> 0]
  /\ next_drop = 1 /\ pending = {} /\ call = [c \in Calls |-> Idle]
  /\ rows = {} /\ top = 0
  /\ cur = [p \in Paths |-> Absent] /\ tmp = [p \in Paths |-> Absent]
  /\ members = {} /\ left = {} /\ crashes = 0

Row(h, t) == [handle |-> h, topic |-> t]
persisted_table == {Row(h, drops[h]) : h \in DOMAIN drops}

\* DropStore::load_table and load_frames: unreadable is as good as absent.
load_table == cur[Table].table
load_frames(t) == cur[t].offers

Active == {c \in Calls : call[c] # Idle}
MayStart(c) ==
  /\ call[c] = Idle
  /\ Cardinality(Active) + (IF phase = "restoring" THEN 1 ELSE 0) < Overlap

Goto(c, pc) == call' = [call EXCEPT ![c].pc = pc]
Ends(c) == call' = [call EXCEPT ![c] = Idle]

\* A persist_drop on behalf of `kind`: it starts by looking the handle up.
Persist(kind, h) == [Idle EXCEPT !.pc = "export", !.kind = kind, !.handle = h]

---------------------------------------------------------------------------
\* Topics are random: a new drop's is one nothing remembers.
Fresh(t) ==
  /\ \A h \in DOMAIN drops : drops[h] # t
  /\ \A c \in Active : call[c].topic # t
  /\ \A r \in members \cup load_table \cup rows : r.topic # t
  /\ cur[t] = Absent

StartJoin(c, kind, t) ==
  /\ call' = [call EXCEPT ![c].pc = "joining", ![c].kind = kind, ![c].topic = t]
  /\ UNCHANGED <<phase, drops, known, next_drop, pending, rows, top, files,
                 members, left, crashes>>

drop_create(c, t) == phase = "up" /\ MayStart(c) /\ Fresh(t) /\ StartJoin(c, "create", t)

\* drop_join: a topic already hosted is left alone, or adopts the ticket's
\* name and is persisted again.
drop_join(c, t) ==
  /\ phase = "up" /\ MayStart(c)
  /\ \A h \in DOMAIN drops : drops[h] # t
  /\ StartJoin(c, "join", t)
JoinAgain(c, h) ==
  /\ phase = "up" /\ MayStart(c) /\ h \in DOMAIN drops
  /\ call' = [call EXCEPT ![c] = Persist("persist", h)]
  /\ UNCHANGED <<phase, drops, known, next_drop, pending, rows, top, files,
                 members, left, crashes>>

JoinFails(c) ==
  /\ call[c].pc = "joining"
  /\ Ends(c)
  /\ UNCHANGED <<phase, drops, known, next_drop, pending, rows, top, files,
                 members, left, crashes>>

\* Mutant of register: the first write is left to the debounce.
register_debounced(c) ==
  LET h == next_drop
      t == call[c].topic
  IN  /\ call[c].pc = "joining" /\ h \in Handles
      /\ next_drop' = h + 1
      /\ drops' = [g \in DOMAIN drops \cup {h} |-> IF g = h THEN t ELSE drops[g]]
      /\ known' = [known EXCEPT ![h] = 0]
      /\ Ends(c)
      /\ pending' = pending \cup {h}
      /\ members' = members \cup {Row(h, t)}
      /\ left' = left \ {t}
      /\ UNCHANGED <<phase, rows, top, files, crashes>>

\* The session is up: register gives it the next handle.
register(c) ==
  LET h == next_drop
      t == call[c].topic
  IN  /\ call[c].pc = "joining" /\ h \in Handles
      /\ next_drop' = h + 1
      /\ drops' = [g \in DOMAIN drops \cup {h} |-> IF g = h THEN t ELSE drops[g]]
      /\ known' = [known EXCEPT ![h] = 0]
      /\ call' = [call EXCEPT ![c] = Persist(call[c].kind, h)]
      /\ left' = left \ {t}
      /\ UNCHANGED <<phase, pending, rows, top, files, members, crashes>>

\* drop_leave: the entry goes first; withdrawing and stopping take a while.
drop_leave(c, h) ==
  /\ phase = "up" /\ MayStart(c) /\ h \in DOMAIN drops
  /\ drops' = Restrict(drops, DOMAIN drops \ {h})
  /\ members' = members \ {Row(h, drops[h])}
  /\ call' = [call EXCEPT ![c].pc = "withdrawing", ![c].kind = "leave",
                          ![c].handle = h, ![c].topic = drops[h]]
  /\ UNCHANGED <<phase, known, next_drop, pending, rows, top, files, left, crashes>>

\* A file that is renamed or removed keeps the writers that have it open.
Moved(calls, p, tmpTo, curTo) ==
  [c \in Calls |->
     IF calls[c].pc = "write" /\ calls[c].path = p
     THEN [calls[c] EXCEPT !.fd = IF @ = "tmp" THEN tmpTo ELSE IF @ = "cur" THEN curTo ELSE @]
     ELSE calls[c]]

\* Mutant of remove_drop: the history goes, the table is left for later.
remove_drop_only(c) ==
  /\ call[c].pc = "withdrawing"
  /\ cur' = [cur EXCEPT ![call[c].topic] = Absent]
  /\ call' = [Moved(call, call[c].topic, "tmp", "gone") EXCEPT ![c].pc = "saved"]
  /\ UNCHANGED <<phase, drops, known, next_drop, pending, rows, top, tmp,
                 members, left, crashes>>

\* remove_drop, then the table without the entry.
remove_drop(c) ==
  /\ call[c].pc = "withdrawing"
  /\ cur' = [cur EXCEPT ![call[c].topic] = Absent]
  /\ call' = [Moved(call, call[c].topic, "tmp", "gone") EXCEPT ![c].pc = "table"]
  /\ UNCHANGED <<phase, drops, known, next_drop, pending, rows, top, tmp,
                 members, left, crashes>>

\* Mutant of schedule_persist: a drop being written is not scheduled again.
schedule_persist_coalesced(h) ==
  IF \E c \in Active : call[c].handle = h THEN pending ELSE pending \cup {h}

schedule_persist(h) == pending \cup {h}

\* A session event: perhaps a new offer in its history, in any case a
\* debounced write.
on_session_event(h, n) ==
  /\ phase # "down" /\ h \in DOMAIN drops /\ known[h] + n <= MaxOffers
  /\ known' = [known EXCEPT ![h] = @ + n]
  /\ pending' = schedule_persist(h)
  /\ UNCHANGED <<phase, drops, next_drop, call, rows, top, files, members, left, crashes>>

\* 250 ms later: the mark is cleared, then the drop is written.
DebounceFires(c, h) ==
  /\ phase # "down" /\ MayStart(c) /\ h \in pending
  /\ pending' = pending \ {h}
  /\ call' = [call EXCEPT ![c] = Persist("persist", h)]
  /\ UNCHANGED <<phase, drops, known, next_drop, rows, top, files, members, left, crashes>>

\* The task of offer_publish: our own offer makes no event, so persist now.
offer_publish(c, h) ==
  /\ phase = "up" /\ MayStart(c) /\ h \in DOMAIN drops /\ known[h] < MaxOffers
  /\ known' = [known EXCEPT ![h] = @ + 1]
  /\ call' = [call EXCEPT ![c] = Persist("persist", h)]
  /\ UNCHANGED <<phase, drops, next_drop, pending, rows, top, files, members, left, crashes>>

---------------------------------------------------------------------------
\* What follows persist_drop: the caller's reply, or the shutdown's next drop.
Returned(c) ==
  LET k == call[c]
      confirmed == k.kind \in {"create", "join"} /\ k.handle \in DOMAIN drops
  IN  /\ call' = [call EXCEPT ![c] =
           IF k.kind = "shutdown"
           THEN [Idle EXCEPT !.pc = "shutdown", !.kind = "shutdown", !.todo = k.todo] ELSE Idle]
      /\ members' = IF confirmed THEN members \cup {Row(k.handle, drops[k.handle])} ELSE members
      /\ left' = IF k.kind = "leave" THEN left \cup {k.topic} ELSE left

\* entry and export_history; a drop left in the meantime is not written.
export_history(c) ==
  LET h == call[c].handle
  IN  /\ call[c].pc = "export"
      /\ IF h \in DOMAIN drops
         THEN /\ call' = [call EXCEPT ![c].pc = "table", ![c].topic = drops[h],
                                      ![c].offers = known[h]]
              /\ UNCHANGED <<members, left>>
         ELSE Returned(c)
      /\ UNCHANGED <<phase, drops, known, next_drop, pending, rows, top, files, crashes>>

\* The table is read after the history.
SnapshotTable(c) ==
  /\ call[c].pc = "table"
  /\ call' = [call EXCEPT ![c].pc = "open", ![c].path = Table, ![c].table = persisted_table]
  /\ UNCHANGED <<phase, drops, known, next_drop, pending, rows, top, files,
                 members, left, crashes>>

\* Mutant of OpenTmp: the file is rewritten in place.
OpenTmp_in_place(c) ==
  /\ call[c].pc = "open"
  /\ cur' = [cur EXCEPT ![call[c].path] = Empty]
  /\ call' = [call EXCEPT ![c].pc = "write", ![c].fd = "cur"]
  /\ UNCHANGED <<phase, drops, known, next_drop, pending, rows, top, tmp,
                 members, left, crashes>>

\* write_private: std::fs::write opens and truncates the temporary file, ...
OpenTmp(c) ==
  /\ call[c].pc = "open"
  /\ tmp' = [tmp EXCEPT ![call[c].path] = Empty]
  /\ call' = [call EXCEPT ![c].pc = "write", ![c].fd = "tmp"]
  /\ UNCHANGED <<phase, drops, known, next_drop, pending, rows, top, cur,
                 members, left, crashes>>

\* Bytes over another writer's bytes leave a longer tail standing.
Written(old, new) == IF old = Empty THEN {new} ELSE {new, Torn}

\* ... writes through its own descriptor, wherever that file is by now, ...
WriteTmp(c) ==
  LET k == call[c]
      new == IF k.path = Table THEN File("whole", k.table, 0) ELSE File("whole", {}, k.offers)
  IN  /\ k.pc = "write"
      /\ IF k.fd = "tmp" THEN \E f \in Written(tmp[k.path], new) : tmp' = [tmp EXCEPT ![k.path] = f]
         ELSE UNCHANGED tmp
      /\ IF k.fd = "cur" THEN \E f \in Written(cur[k.path], new) : cur' = [cur EXCEPT ![k.path] = f]
         ELSE UNCHANGED cur
      /\ call' = [call EXCEPT ![c].pc = "rename", ![c].fd = "none"]
      /\ UNCHANGED <<phase, drops, known, next_drop, pending, rows, top,
                     members, left, crashes>>

\* ... and renames whatever has the temporary name.  After the table comes
\* the drop's history, unless the drop was left.
RenameTmp(c) ==
  LET k == call[c]
      moved == tmp[k.path] # Absent
  IN  /\ k.pc = "rename"
      /\ cur' = IF moved THEN [cur EXCEPT ![k.path] = tmp[k.path]] ELSE cur
      /\ tmp' = [tmp EXCEPT ![k.path] = Absent]
      /\ call' = [(IF moved THEN Moved(call, k.path, "cur", "gone") ELSE call) EXCEPT
           ![c].pc = IF k.path = Table /\ k.kind # "leave" THEN "open" ELSE "saved",
           ![c].path = k.topic, ![c].table = {}]
      /\ UNCHANGED <<phase, drops, known, next_drop, pending, rows, top,
                     members, left, crashes>>

Saved(c) ==
  /\ call[c].pc = "saved"
  /\ Returned(c)
  /\ UNCHANGED <<phase, drops, known, next_drop, pending, rows, top, files, crashes>>

PersistStep(c) ==
  \/ export_history(c) \/ SnapshotTable(c)
  \/ OpenTmp(c) \/ WriteTmp(c) \/ RenameTmp(c)
  \/ Saved(c)

---------------------------------------------------------------------------
\* shutdown: write every drop, drain the table, close; running calls go on
\* until the process ends.
shutdown(c) ==
  /\ phase = "up" /\ MayStart(c)
  /\ \A d \in Active : call[d].kind # "shutdown"
  /\ call' = [call EXCEPT ![c].pc = "shutdown", ![c].kind = "shutdown", ![c].todo = DOMAIN drops]
  /\ UNCHANGED <<phase, drops, known, next_drop, pending, rows, top, files,
                 members, left, crashes>>

ShutdownPersists(c, h) ==
  /\ call[c].pc = "shutdown" /\ h \in call[c].todo
  /\ call' = [call EXCEPT ![c].pc = "export", ![c].handle = h, ![c].todo = @ \ {h}]
  /\ UNCHANGED <<phase, drops, known, next_drop, pending, rows, top, files,
                 members, left, crashes>>

Drain(c) ==
  /\ call[c].pc = "shutdown" /\ call[c].todo = {}
  /\ drops' = NoDrops
  /\ Goto(c, "closing")
  /\ UNCHANGED <<phase, known, next_drop, pending, rows, top, files, members, left, crashes>>

\* The process is gone; the directory is what it is.
Dies ==
  /\ phase' = "down" /\ drops' = NoDrops /\ known' = [h \in Handles |-> 0]
  /\ next_drop' = 1 /\ pending' = {} /\ call' = [c \in Calls |-> Idle]
  /\ rows' = {} /\ top' = 0
  /\ UNCHANGED <<files, members, left>>

Stop(c) == call[c].pc = "closing" /\ Dies /\ UNCHANGED crashes

Crash ==
  /\ phase # "down" /\ crashes < MaxCrashes
  /\ crashes' = crashes + 1
  /\ Dies

\* Service::new and restore_drops.
Restart ==
  /\ phase = "down"
  /\ phase' = IF load_table = {} THEN "up" ELSE "restoring"
  /\ rows' = load_table
  /\ top' = Max({0} \cup {r.handle : r \in load_table})
  /\ members' = {}
  /\ UNCHANGED <<drops, known, next_drop, pending, call, files, left, crashes>>

\* restore_history decodes public frames only.
Replayed(t) == IF t \in Sealed THEN 0 ELSE load_frames(t)

RestoreRow(r) ==
  /\ phase = "restoring"
  /\ rows' = rows \ {r}
  /\ drops' = [g \in DOMAIN drops \cup {r.handle} |->
                 IF g = r.handle THEN r.topic ELSE drops[g]]
  /\ known' = [known EXCEPT ![r.handle] = Replayed(r.topic)]
  /\ members' = members \cup {r}
  /\ UNCHANGED <<phase, next_drop, pending, call, top, files, left, crashes>>

\* The drop cannot be rejoined and is skipped.
RestoreSkips(r) ==
  /\ phase = "restoring"
  /\ rows' = rows \ {r}
  /\ UNCHANGED <<phase, drops, known, next_drop, pending, call, top, files,
                 members, left, crashes>>

\* Mutants of NextAfterRestore: handles start over, or skip one.
NextAfterRestore_one == next_drop
NextAfterRestore_skips == Max({next_drop, top + 2})

\* Fresh handles must never collide with restored ones.
NextAfterRestore == Max({next_drop, top + 1})

RestoreDone ==
  /\ phase = "restoring" /\ rows = {}
  /\ phase' = "up"
  /\ next_drop' = NextAfterRestore
  /\ UNCHANGED <<drops, known, pending, call, rows, top, files, members, left, crashes>>

---------------------------------------------------------------------------
CallStep(c) ==
  \/ JoinFails(c) \/ register(c) \/ remove_drop(c)
  \/ PersistStep(c)
  \/ \E h \in Handles : ShutdownPersists(c, h)
  \/ Drain(c) \/ Stop(c)

Next ==
  \/ \E c \in Calls :
       \/ \E t \in Topics : drop_create(c, t) \/ drop_join(c, t)
       \/ \E h \in Handles : \/ JoinAgain(c, h) \/ drop_leave(c, h)
                             \/ offer_publish(c, h)
       \/ \E h \in pending : DebounceFires(c, h)
       \/ shutdown(c)
       \/ CallStep(c)
  \/ \E h \in Handles, n \in {0, 1} : on_session_event(h, n)
  \/ \E r \in rows : RestoreRow(r) \/ RestoreSkips(r)
  \/ RestoreDone \/ Restart \/ Crash

Spec == Init /\ [][Next]_vars

---------------------------------------------------------------------------
Phases == {"down", "restoring", "up"}
Pcs == {"idle", "joining", "withdrawing", "export", "table", "open", "write", "rename",
        "saved", "shutdown", "closing"}
RowType == [handle : Handles, topic : Topics]
IsFile(f) ==
  /\ f = File(f.state, f.table, f.offers)
  /\ f.state \in {"absent", "empty", "torn", "whole"}
  /\ f.table \subseteq RowType /\ f.offers \in 0..MaxOffers

TypeOK ==
  /\ phase \in Phases
  /\ DOMAIN drops \subseteq Handles /\ Range(drops) \subseteq Topics
  /\ known \in [Handles -> 0..MaxOffers]
  /\ next_drop \in 1..(MaxHandle + 1) /\ pending \subseteq Handles
  /\ DOMAIN call = Calls
  /\ \A c \in Calls :
       /\ call[c].pc \in Pcs /\ call[c].handle \in Handles \cup {0}
       /\ call[c].topic \in Topics \cup {"none"} /\ call[c].offers \in 0..MaxOffers
       /\ call[c].table \subseteq RowType /\ call[c].todo \subseteq Handles
  /\ rows \subseteq RowType /\ top \in Handles \cup {0}
  /\ \A p \in Paths : IsFile(cur[p]) /\ IsFile(tmp[p])
  /\ members \subseteq RowType /\ left \subseteq Topics /\ crashes \in 0..MaxCrashes

\* "write-then-rename per file; a crash can lose a beat, never corrupt"
\* (persist.rs:90): what a restart reads is always a whole file.
NeverCorrupt == \A p \in Paths : cur[p].state \in {"absent", "whole"}

\* "a crash a hundred milliseconds after joining must not lose the membership"
\* (docs/daemon-api.md:114): whenever the process dies, every drop whose
\* create, join or restore is done and that it was not asked to leave is in
\* the table a restart will read.
MembershipSurvives == members \subseteq load_table

\* "Deliberate leave = forgotten, not persisted" (service.rs): once drop.leave
\* has returned, no later write brings the row or the history back.
LeftIsForgotten ==
  \A t \in left : cur[t] = Absent /\ \A r \in load_table : r.topic # t

\* "Handles stay stable across restarts" (docs/daemon-api.md:122): a handle
\* never stands for one drop in memory and for another on disk, where a
\* restart would find it.
HandlesStable ==
  \A r \in load_table : r.handle \in DOMAIN drops => drops[r.handle] = r.topic

\* Writes are coalesced but none is lost: a drop with no write scheduled or
\* under way has its whole history on disk, and a restart replays all of it.
QuietMeansSaved ==
  \A h \in DOMAIN drops :
    h \notin pending /\ (\A c \in Active : call[c].handle # h /\ call[c].kind # "shutdown")
      => load_frames(drops[h]) = known[h]
=============================================================================
