------------------------------ MODULE Control ------------------------------
(***************************************************************************)
(* The control API: clients attach over a connection, call methods, wait   *)
(* for the outcome of the task a call started and follow the event         *)
(* stream, reconnecting and replaying what they missed.  A connection is   *)
(* the daemon's outbound channel, writer, socket and the client's reader   *)
(* in a row: one bounded queue `out`.  The tasks are daemon tasks that     *)
(* outlive the client which started them.                                  *)
(***************************************************************************)
EXTENDS EventBus, FiniteSets, FiniteSetsExt

CONSTANTS
  Clients,
  Tasks,        \* task ids, each allocated once
  Outcomes,     \* how work may end: a subset of {"done", "failed"}
  OutCap,       \* frames a connection holds
  MaxFrame,     \* short envelopes that fit in a line of MAX_FRAME_BYTES
  MaxCancels    \* bound: task.cancel calls

Terminal == {"done", "failed", "cancelled"}
Events == [task : Tasks, state : Terminal \cup {"running", "result"}]
Envelopes == [seq : Nat \ {0}, ev : Events]
Replies ==
  [k : {"err", "ok"}]
    \cup [k : {"replay"}, r : [events : SUBSET Envelopes, truncated : BOOLEAN]]

ASSUME ControlAssumption ==
  /\ Clients \cap Tasks = {} /\ Emitters = Clients \cup Tasks
  /\ Outcomes \subseteq {"done", "failed"}
  /\ OutCap \in Nat \ {0} /\ MaxFrame \in Nat /\ MaxCancels \in Nat
  /\ None \notin Terminal \cup {"running"} /\ None \notin [stage : {"send"}, env : Envelopes]
  /\ None \notin [pc : {"reply"}, reply : Replies]

VARIABLES
  conn,     \* conn[c]: the connection of client c, or None
  serving,  \* serving[c]: the request its attach loop is working on, or None
  cl,       \* cl[c]: what the client itself is doing
  seen,     \* seen[c]: sequence numbers the client has ever received
  mark,     \* mark[c]: the last one it persisted, to replay from
  warned,   \* warned[c]: told, on this connection, that events are missing
  synced,   \* synced[c]: has had an answer to events.replay on it
  tasks,    \* tasks[t]: state of the entry in the task table, or None
  worker,   \* worker[t]: the spawned future
  unlisted, \* tasks that settled before their entry existed (history)
  cancels

ctlVars ==
  <<conn, serving, cl, seen, mark, warned, synced, tasks, worker, unlisted, cancels>>
vars == <<busVars, ctlVars>>

Idle == [pc |-> "idle"]

Init ==
  /\ BusInit
  /\ conn = [c \in Clients |-> None]
  /\ serving = [c \in Clients |-> None]
  /\ cl = [c \in Clients |-> Idle]
  /\ seen = [c \in Clients |-> {}] /\ mark = [c \in Clients |-> 0]
  /\ warned = [c \in Clients |-> FALSE] /\ synced = [c \in Clients |-> FALSE]
  /\ tasks = [t \in Tasks |-> None]
  /\ worker = [t \in Tasks |-> "none"]
  /\ unlisted = {} /\ cancels = 0

Up(c) == conn[c] # None
Room(c) == Len(conn[c].out) < OutCap
Push(c, frame) == conn' = [conn EXCEPT ![c].out = Append(@, frame)]

---------------------------------------------------------------------------
(* Connections. *)

\* Client::start against attach: hello, role registration and the
\* subscription to the bus, all before the first request is served.  A
\* client has one connection at a time.
Attach(c, roles) ==
  /\ ~Up(c) /\ serving[c] = None
  /\ conn' = [conn EXCEPT ![c] =
                [roles |-> roles, pos |-> Len(bus), out |-> <<>>, deaf |-> FALSE]]
  /\ warned' = [warned EXCEPT ![c] = FALSE]
  /\ synced' = [synced EXCEPT ![c] = FALSE]
  /\ UNCHANGED <<busVars, serving, cl, seen, mark, tasks, worker, unlisted, cancels>>

\* The client goes away with whatever is in flight; the forwarder is aborted.
\* It remembers the last event of a stream it knows to be whole.
\* A request being served is not cancelled, and neither is any task.
Disconnect(c) ==
  /\ Up(c)
  /\ conn' = [conn EXCEPT ![c] = None]
  /\ cl' = [cl EXCEPT ![c] = Idle]
  /\ mark' = [mark EXCEPT ![c] = IF synced[c] /\ ~warned[c]
                                 THEN Max(seen[c] \cup {0}) ELSE @]
  /\ UNCHANGED <<busVars, serving, seen, warned, synced, tasks, worker, unlisted, cancels>>

\* One turn of the forwarder: an envelope, or events.truncated when the
\* channel has dropped some.
Forward(c) ==
  /\ Up(c) /\ conn[c].pos < Len(bus) /\ Room(c)
  /\ conn' = [conn EXCEPT
       ![c].out = Append(@, IF Lagged(conn[c].pos) THEN [k |-> "lag"]
                            ELSE [k |-> "ev", env |-> bus[conn[c].pos + 1]]),
       ![c].pos = IF Lagged(@) THEN Len(bus) - BusCap ELSE @ + 1]
  /\ UNCHANGED <<busVars, serving, cl, seen, mark, warned, synced, tasks, worker, unlisted, cancels>>

---------------------------------------------------------------------------
(* Requests, served one at a time by the connection's attach loop. *)

\* Client::call: the request is on its way until dispatch takes it.
Call(c, req) ==
  /\ Up(c) /\ cl[c] = Idle /\ serving[c] = None
  /\ cl' = [cl EXCEPT ![c] = [pc |-> "called", req |-> req]]
  /\ serving' = [serving EXCEPT ![c] =
                   [pc |-> "dispatch", req |-> req, roles |-> conn[c].roles]]
  /\ cancels' = IF req.m = "task.cancel" THEN cancels + 1 ELSE cancels
  /\ UNCHANGED <<busVars, conn, seen, mark, warned, synced, tasks, worker, unlisted>>

\* offer.publish and offer.fetch start a task; events.replay is open to all.
Requests(c) ==
  {[m |-> "offer.fetch", t |-> t] : t \in {u \in Tasks : worker[u] = "none"}}
    \cup {[m |-> "task.cancel", t |-> t] : t \in {u \in Tasks : cancels < MaxCancels}}
    \cup {[m |-> "events.replay", from |-> mark[c] + 1]}

Serving(c, pc) == serving[c] # None /\ serving[c].pc = pc
Allowed(c) == serving[c].req.m = "events.replay" \/ "control" \in serving[c].roles

ReplyWith(c, reply) ==
  serving' = [serving EXCEPT ![c] = [pc |-> "reply", reply |-> reply]]

\* dispatch: the role gate; or the drop or the item of an offer.fetch is not
\* there.
Refuse(c) ==
  /\ Serving(c, "dispatch")
  /\ ~Allowed(c) \/ serving[c].req.m = "offer.fetch"
  /\ ReplyWith(c, [k |-> "err"])
  /\ UNCHANGED <<busVars, conn, cl, seen, mark, warned, synced, tasks, worker, unlisted, cancels>>

\* spawn_task: the work is spawned first ...
SpawnTask(c) ==
  /\ Serving(c, "dispatch") /\ Allowed(c) /\ serving[c].req.m = "offer.fetch"
  /\ worker[serving[c].req.t] = "none"
  /\ worker' = [worker EXCEPT ![serving[c].req.t] = "work"]
  /\ serving' = [serving EXCEPT ![c].pc = "insert"]
  /\ UNCHANGED <<busVars, conn, cl, seen, mark, warned, synced, tasks, unlisted, cancels>>

\* ... and then entered in the task table and announced.
InsertTask(c) ==
  /\ Serving(c, "insert")
  /\ tasks' = [tasks EXCEPT ![serving[c].req.t] = "running"]
  /\ Emit(c, [task |-> serving[c].req.t, state |-> "running"])
  /\ ReplyWith(c, [k |-> "ok"])
  /\ UNCHANGED <<seq, ring, bus, rung, inorder, conn, cl, seen, mark, warned, synced, worker,
                 unlisted, cancels>>

\* Mutant of task_cancel: an unknown task id is dropped instead of
\* answered.
task_cancel_mute(c) ==
  LET t == serving[c].req.t
  IN  /\ Serving(c, "dispatch") /\ Allowed(c) /\ serving[c].req.m = "task.cancel"
      /\ IF tasks[t] = None
         THEN /\ serving' = [serving EXCEPT ![c] = None]
              /\ UNCHANGED <<emitting, tasks, worker>>
         ELSE /\ worker' = [worker EXCEPT ![t] = IF @ = "work" THEN "aborted" ELSE @]
              /\ tasks' = [tasks EXCEPT ![t] = "cancelled"]
              /\ Emit(c, [task |-> t, state |-> "cancelled"])
              /\ ReplyWith(c, [k |-> "ok"])
      /\ UNCHANGED <<seq, ring, bus, rung, inorder, conn, cl, seen, mark, warned, synced,
                     unlisted, cancels>>

\* task_cancel: abort the future where it awaits, mark the entry whatever it
\* said, announce.
task_cancel(c) ==
  LET t == serving[c].req.t
  IN  /\ Serving(c, "dispatch") /\ Allowed(c) /\ serving[c].req.m = "task.cancel"
      /\ IF tasks[t] = None
         THEN ReplyWith(c, [k |-> "err"]) /\ UNCHANGED <<emitting, tasks, worker>>
         ELSE /\ worker' = [worker EXCEPT ![t] = IF @ = "work" THEN "aborted" ELSE @]
              /\ tasks' = [tasks EXCEPT ![t] = "cancelled"]
              /\ Emit(c, [task |-> t, state |-> "cancelled"])
              /\ ReplyWith(c, [k |-> "ok"])
      /\ UNCHANGED <<seq, ring, bus, rung, inorder, conn, cl, seen, mark, warned, synced,
                     unlisted, cancels>>

events_replay(c) ==
  /\ Serving(c, "dispatch") /\ serving[c].req.m = "events.replay"
  /\ ReplyWith(c, [k |-> "replay", r |-> replay(serving[c].req.from)])
  /\ UNCHANGED <<busVars, conn, cl, seen, mark, warned, synced, tasks, worker, unlisted, cancels>>

\* Once emit has returned the reply goes out; a client that left gets none.
Reply(c) ==
  /\ Serving(c, "reply") /\ emitting[c] = None
  /\ Up(c) => Room(c)
  /\ IF Up(c) THEN Push(c, serving[c].reply) ELSE UNCHANGED conn
  /\ serving' = [serving EXCEPT ![c] = None]
  /\ UNCHANGED <<busVars, cl, seen, mark, warned, synced, tasks, worker, unlisted, cancels>>

ServeStep(c) ==
  \/ Refuse(c) \/ SpawnTask(c) \/ InsertTask(c) \/ task_cancel(c)
  \/ events_replay(c) \/ Reply(c)

---------------------------------------------------------------------------
(* Tasks. *)

\* The work returns; a success announces its result (publish.completed,
\* fetch.materialized).  From here to the end the future awaits nothing.
WorkEnds(t, outcome) ==
  /\ worker[t] = "work"
  /\ worker' = [worker EXCEPT ![t] = outcome]
  /\ IF outcome = "done" THEN Emit(t, [task |-> t, state |-> "result"])
     ELSE UNCHANGED emitting
  /\ UNCHANGED <<seq, ring, bus, rung, inorder, conn, serving, cl, seen, mark, warned, synced,
                 tasks, unlisted, cancels>>

\* Mutant of Settle: a failed task leaves its entry as it is.
Settle_done_only(t) ==
  /\ worker[t] \in Outcomes /\ emitting[t] = None
  /\ tasks' = IF tasks[t] = None \/ worker[t] = "failed" THEN tasks
              ELSE [tasks EXCEPT ![t] = worker[t]]
  /\ unlisted' = IF tasks[t] = None THEN unlisted \cup {t} ELSE unlisted
  /\ Emit(t, [task |-> t, state |-> worker[t]])
  /\ worker' = [worker EXCEPT ![t] = "ended"]
  /\ UNCHANGED <<seq, ring, bus, rung, inorder, conn, serving, cl, seen, mark, warned, synced,
                 cancels>>

\* Mutant of Settle: a task that settles before its entry exists says
\* nothing.
Settle_listed_only(t) ==
  /\ worker[t] \in Outcomes /\ emitting[t] = None
  /\ tasks' = IF tasks[t] = None THEN tasks ELSE [tasks EXCEPT ![t] = worker[t]]
  /\ unlisted' = IF tasks[t] = None THEN unlisted \cup {t} ELSE unlisted
  /\ IF tasks[t] = None THEN UNCHANGED emitting
     ELSE Emit(t, [task |-> t, state |-> worker[t]])
  /\ worker' = [worker EXCEPT ![t] = "ended"]
  /\ UNCHANGED <<seq, ring, bus, rung, inorder, conn, serving, cl, seen, mark, warned, synced,
                 cancels>>

\* Write the outcome to the entry, if there is one, and announce it.
Settle(t) ==
  /\ worker[t] \in Outcomes /\ emitting[t] = None
  /\ tasks' = IF tasks[t] = None THEN tasks ELSE [tasks EXCEPT ![t] = worker[t]]
  /\ unlisted' = IF tasks[t] = None THEN unlisted \cup {t} ELSE unlisted
  /\ Emit(t, [task |-> t, state |-> worker[t]])
  /\ worker' = [worker EXCEPT ![t] = "ended"]
  /\ UNCHANGED <<seq, ring, bus, rung, inorder, conn, serving, cl, seen, mark, warned, synced,
                 cancels>>

---------------------------------------------------------------------------
(* The client's reader task and its caller. *)

\* What the caller does once its reply is there: after a started task it
\* goes on to wait for the outcome.
AfterReply(c, frame) ==
  IF frame.k = "ok" /\ cl[c].req.m = "offer.fetch"
  THEN [pc |-> "started", t |-> cl[c].req.t] ELSE Idle

\* An event reaches the reader, and a wait_for that is subscribed.
HearEvent(c, env) ==
  /\ seen' = [seen EXCEPT ![c] = @ \cup {env.seq}]
  /\ cl' = [cl EXCEPT ![c] =
              IF @.pc = "waiting" /\ @.t = env.ev.task /\ env.ev.state \in Terminal
              THEN Idle ELSE @]
  /\ UNCHANGED <<warned, synced>>

\* A reply resolves the pending call.
HearReply(c, frame) ==
  /\ cl' = [cl EXCEPT ![c] = AfterReply(c, frame)]
  /\ IF frame.k = "replay"
     THEN /\ seen' = [seen EXCEPT ![c] = @ \cup {e.seq : e \in frame.r.events}]
          /\ warned' = [warned EXCEPT ![c] = @ \/ frame.r.truncated]
          /\ synced' = [synced EXCEPT ![c] = TRUE]
     ELSE UNCHANGED <<seen, warned, synced>>

\* A reply longer than MAX_FRAME_BYTES; a result, which carries paths, takes
\* twice the room of another envelope.
TooLong(frame) ==
  frame.k = "replay" /\ Cardinality(frame.r.events)
    + Cardinality({e \in frame.r.events : e.ev.state = "result"}) > MaxFrame

\* spawn_reader and the client's reader task; a line over the cap ends both,
\* and with them everything this connection will ever deliver.
Receive(c) ==
  /\ Up(c) /\ ~conn[c].deaf /\ conn[c].out # <<>>
  /\ LET frame == Head(conn[c].out)
     IN  IF TooLong(frame)
         THEN /\ conn' = [conn EXCEPT ![c].out = Tail(@), ![c].deaf = TRUE]
              /\ UNCHANGED <<cl, seen, warned, synced>>
         ELSE /\ conn' = [conn EXCEPT ![c].out = Tail(@)]
              /\ CASE frame.k = "ev"  -> HearEvent(c, frame.env)
                   [] frame.k = "lag" -> /\ warned' = [warned EXCEPT ![c] = TRUE]
                                         /\ UNCHANGED <<cl, seen, synced>>
                   [] OTHER           -> HearReply(c, frame)
  /\ UNCHANGED <<busVars, serving, mark, tasks, worker, unlisted, cancels>>

\* wait_for: the subscription starts when it is called, after the reply.
wait_for(c) ==
  /\ cl[c].pc = "started"
  /\ cl' = [cl EXCEPT ![c] = [pc |-> "waiting", t |-> @.t]]
  /\ UNCHANGED <<busVars, conn, serving, seen, mark, warned, synced, tasks, worker, unlisted,
                 cancels>>

Next ==
  \/ \E e \in Emitters : EmitStep(e) /\ UNCHANGED ctlVars
  \/ \E c \in Clients :
       \/ \E roles \in {{"observer"}, {"control"}} : Attach(c, roles)
       \/ Disconnect(c) \/ Forward(c) \/ Receive(c) \/ wait_for(c)
       \/ \E req \in Requests(c) : Call(c, req)
       \/ ServeStep(c)
  \/ \E t \in Tasks : Settle(t) \/ \E o \in Outcomes : WorkEnds(t, o)

Spec == Init /\ [][Next]_vars

\* The runtime polls every ready task, work ends (a fetch ends: FetchesEnd),
\* and a client process that runs keeps reading: its reader never waits.
Fairness ==
  /\ \A e \in Emitters : WF_vars(EmitStep(e) /\ UNCHANGED ctlVars)
  /\ \A c \in Clients : /\ WF_vars(Forward(c)) /\ WF_vars(Receive(c))
                        /\ WF_vars(wait_for(c)) /\ WF_vars(ServeStep(c))
  /\ \A t \in Tasks : WF_vars(Settle(t)) /\ WF_vars(\E o \in Outcomes : WorkEnds(t, o))
LiveSpec == Spec /\ Fairness

---------------------------------------------------------------------------
TypeOK ==
  /\ BusTypeOK
  /\ \A c \in Clients :
       /\ Up(c) => /\ conn[c].pos \in 0..Len(bus) /\ conn[c].deaf \in BOOLEAN
                   /\ Len(conn[c].out) <= OutCap
       /\ cl[c].pc \in {"idle", "called", "started", "waiting"}
       /\ serving[c] # None => serving[c].pc \in {"dispatch", "insert", "reply"}
       /\ seen[c] \subseteq 1..seq /\ mark[c] \in 0..seq
  /\ warned \in [Clients -> BOOLEAN] /\ synced \in [Clients -> BOOLEAN]
  /\ tasks \in [Tasks -> {"running"} \cup Terminal \cup {None}]
  /\ worker \in [Tasks -> {"none", "work", "aborted", "ended"} \cup Outcomes]
  /\ unlisted \subseteq Tasks /\ cancels \in 0..MaxCancels

\* Sequence numbers still to be sent to, or on their way to, client c.
OnTheWay(c) ==
  {e.seq : e \in ToSet(SubSeq(bus, conn[c].pos + 1, Len(bus)))}
    \cup {f.env.seq : f \in {g \in ToSet(conn[c].out) : g.k = "ev"}}
    \cup {emitting[e].env.seq : e \in {x \in Emitters : emitting[x] # None
                                                       /\ emitting[x].stage = "send"}}

Warned(c) == warned[c] \/ \E f \in ToSet(conn[c].out) : f.k = "lag"

\* "Clients persist the last seq they saw and call events.replay {from} after
\* a reconnect" (docs/daemon-api.md:221): a client that has done so and was
\* not told that events are missing has, or is about to get, every event of
\* the daemon's life, across its reconnections, evictions from the ring and
\* overruns of the channel - provided emits have not overtaken one another.
ReplayTellsAll ==
  \A c \in Clients :
    Up(c) /\ synced[c] /\ ~Warned(c) /\ inorder
      => rung \subseteq seen[c] \cup OnTheWay(c)

\* task.list tells the truth about a task: an entry that says running has a
\* future that has not settled, unless it settled before the entry existed.
RunningIsRunning ==
  \A t \in Tasks :
    tasks[t] = "running" => worker[t] \in {"work"} \cup Outcomes \/ t \in unlisted

\* Every call is answered while its connection lasts and its lines are short
\* enough to read.
CallsAnswered ==
  \A c \in Clients :
    cl[c].pc = "called" ~> cl[c].pc # "called" \/ (Up(c) /\ conn[c].deaf)

\* The client has received the outcome of task t.
Heard(c, t) ==
  \E e \in ToSet(bus) : e.seq \in seen[c] /\ e.ev.task = t /\ e.ev.state \in Terminal

\* A client that waits before the outcome has reached it gets to know it
\* (or that events are missing, or stops reading).
OutcomeReachesWaiter ==
  \A c \in Clients, t \in Tasks :
    cl[c] = [pc |-> "waiting", t |-> t] /\ ~Heard(c, t)
      ~> cl[c].pc # "waiting" \/ warned[c] \/ (Up(c) /\ conn[c].deaf)

\* "Wait for a daemon task's terminal state" (iroh-drop-mcp/src/lib.rs:267):
\* whoever waits for a task gets to know its outcome.
WaitersHear ==
  \A c \in Clients, t \in Tasks :
    cl[c] = [pc |-> "waiting", t |-> t]
      ~> cl[c].pc # "waiting" \/ warned[c] \/ (Up(c) /\ conn[c].deaf)
=============================================================================
